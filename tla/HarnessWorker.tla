----------------------------- MODULE HarnessWorker -----------------------------
(***************************************************************************)
(* One harness process: the polling worker (src/worker), the run           *)
(* controller it drives (src/runner), the heartbeat task beside it, the    *)
(* operator endpoints that edit the same files (src/api/routes.rs), the    *)
(* file store (src/storage), the node, and the coordinator as the worker   *)
(* sees it.                                                                *)
(*                                                                         *)
(* A step of the worker ends where another actor can interleave: at a      *)
(* write of the record, a call to the coordinator or a mutation of the     *)
(* target.  Read-only Dappmanager calls and saves that do not change the   *)
(* modelled fields are merged into the step they precede.                  *)
(***************************************************************************)
EXTENDS RunRecord, Naturals, FiniteSets

CONSTANTS
    Jobs,         \* job identifiers the coordinator can hand out
    NoJob,        \* no current job
    Installed,    \* jobs whose target package is on the node before the run
    Protected,    \* jobs whose target is the harness or a core package
    Operators,    \* concurrent operator requests
    Faults,       \* what the environment may do
    MaxRestarts   \* bound on process restarts

FaultKinds == {"crash", "save_lost", "save_unsynced", "read_error", "auth", "claim_lost",
               "reinstate", "cancel", "cleanup_fails", "response_lost", "operator_race"}

ASSUME ConstantsAssumption ==
    /\ NoJob \notin Jobs
    /\ Installed \subseteq Jobs
    /\ Protected \subseteq Jobs
    /\ Faults \subseteq FaultKinds
    /\ MaxRestarts \in Nat

VARIABLES
    \* the worker task, lost on restart
    pc,         \* the next step of PackageHarnessWorker::run
    job,        \* run id of the record in hand
    mem,        \* the in-memory record
    run,        \* locals of execute and of the recovery in progress
    progress,   \* WorkerProgress: heartbeat flags and the published cleanup flag
    notify,     \* the permit of the Notify in WorkerRecoveryControl
    op,         \* requests the operator endpoints are serving
    \* durable or external
    disk,       \* the run records under DATA_DIR
    node,       \* the target package of each job on the Dappnode
    coord,      \* the coordinator's view of each job
    accepted,   \* the completion body the coordinator recorded for each job
    sent,       \* every completion body it has received for each job
    runs,       \* how often the package workflow of each job was started
    restarts

local == <<pc, job, mem, run, progress>>
world == <<node, coord, accepted, sent, runs>>
vars == <<local, notify, op, disk, world, restarts>>

--------------------------------------------------------------------------------
(* Control points.  The controller's come from RunController::execute.      *)
ControllerPcs == {"start", "preflight", "baseline", "baseline_mutate", "candidate",
                  "candidate_mutate", "evidence", "cleanup", "reconcile",
                  "save_cleanup", "finish"}
SettlePcs == {"create", "unsupported", "executed", "settle", "recover_target",
              "recover_reconcile", "recover_save", "recovered", "worker_error", "release",
              "mark_hold", "deliver", "send", "ack"}
IdlePcs == {"recover", "claim", "return_ok", "hold_check", "op_wait", "coord_wait",
            "exited"}

\* The heartbeat task lives from the persisted claim to the end of settle_*.
HeartbeatPcs == ControllerPcs \cup (SettlePcs \ {"create"})

Whys == {"none", "exec_error", "claim_lost", "interrupted", "unsupported_job",
         "unexpected_error", "completion_conflict"}

RunLocals == [authorized : BOOLEAN, failed : BOOLEAN, execError : BOOLEAN, why : Whys]
ProgressFlags == [cancel : BOOLEAN, lost : BOOLEAN, cleanup : BOOLEAN]
Requests == [action : RecoveryActions \cup {"none", "ready"}, job : Jobs \cup {NoJob},
             snap : RunRecords]

NoRun == [authorized |-> FALSE, failed |-> FALSE, execError |-> FALSE, why |-> "none"]
NoProgress == [cancel |-> FALSE, lost |-> FALSE, cleanup |-> FALSE]
NoRequest == [action |-> "none", job |-> NoJob, snap |-> NoRecord]

\* RunControl::Continue
MayContinue == ~progress.lost /\ ~progress.cancel

RightPlan(j) == IF j \in Installed THEN "restore_latest" ELSE "remove"

Unresolved == {j \in Jobs : RequiresWorkerAttention(disk[j])}

(***************************************************************************)
(* FileRunStore::save.  A failed save leaves the old file, or (the         *)
(* directory sync that follows the rename fails) the new one.              *)
(***************************************************************************)
Saved(rec) == disk' = [disk EXCEPT ![job] = rec]
SaveFails(rec) ==
    \/ "save_lost" \in Faults /\ UNCHANGED disk
    \/ "save_unsynced" \in Faults /\ Saved(rec)

Save(rec, okPc, errPc) ==
    \/ Saved(rec) /\ pc' = okPc
    \/ SaveFails(rec) /\ pc' = errPc

SaveMem(rec, okPc, errPc) == mem' = rec /\ Save(rec, okPc, errPc)

Step(p) == pc = p
Because(why) == run' = [run EXCEPT !.why = why]

--------------------------------------------------------------------------------
(* The run loop (PackageHarnessWorker::run).                                *)

\* The coordinator answers a claim with one unclaimed job, if it holds none
\* for this worker.
ClaimJob(j) ==
    /\ Step("claim")
    /\ coord[j] = "queued"
    /\ \A k \in Jobs : coord[k] # "claimed"
    /\ coord' = [coord EXCEPT ![j] = "claimed"]
    /\ job' = j
    /\ mem' = Claimed
    /\ pc' = "create"
    /\ UNCHANGED <<run, progress, notify, op, disk, node, accepted, sent, runs, restarts>>

\* The job was assigned but the answer never arrived; polling continues.
ClaimAnswerLost(j) ==
    /\ Step("claim")
    /\ "response_lost" \in Faults
    /\ coord[j] = "queued"
    /\ \A k \in Jobs : coord[k] # "claimed"
    /\ coord' = [coord EXCEPT ![j] = "claimed"]
    /\ UNCHANGED <<local, notify, op, disk, node, accepted, sent, runs, restarts>>

\* 409: the coordinator still holds a job this worker does not have.
ClaimUnresolved ==
    /\ Step("claim")
    /\ \E k \in Jobs : coord[k] = "claimed"
    /\ pc' = "coord_wait"
    /\ UNCHANGED <<job, mem, run, progress, notify, op, disk, world, restarts>>

\* 401/403 or a permanent rejection ends the worker task.
ClaimRejected ==
    /\ Step("claim")
    /\ "auth" \in Faults
    /\ pc' = "exited"
    /\ UNCHANGED <<job, mem, run, progress, notify, op, disk, world, restarts>>

\* process_claim: create(), then the heartbeat task starts.
CreateRecord ==
    /\ Step("create")
    /\ Save(mem, "unsupported", "hold_check")
    /\ UNCHANGED <<job, mem, run, progress, notify, op, world, restarts>>

\* unsupported_job_reason
CheckSupported ==
    /\ Step("unsupported")
    /\ \/ job \notin Protected /\ pc' = "start" /\ UNCHANGED run
       \/ job \in Protected /\ pc' = "worker_error" /\ Because("unsupported_job")
       \/ pc' = "worker_error" /\ Because("unexpected_error")   \* list_packages failed
    /\ UNCHANGED <<job, mem, progress, notify, op, disk, world, restarts>>

--------------------------------------------------------------------------------
(* RunController::execute                                                   *)

Execution == <<job, progress, notify, op, node, coord, accepted, sent, restarts>>

\* A workflow step failed: run_algorithm returns a Failure, cleanup follows.
WorkflowFails == run' = [run EXCEPT !.failed = TRUE] /\ pc' = "cleanup"

StartExecution ==
    /\ Step("start")
    /\ \/ /\ disk[job].status # "queued"
          /\ pc' = "executed"
          /\ UNCHANGED <<mem, run, disk, runs>>
       \/ /\ disk[job].status = "queued"
          /\ LET rec == [disk[job] EXCEPT !.status = "running"]
             IN  \/ /\ Saved(rec) /\ mem' = rec /\ pc' = "preflight"
                    /\ runs' = [runs EXCEPT ![job] = @ + 1]
                    /\ UNCHANGED run
                 \/ /\ SaveFails(rec) /\ pc' = "executed"
                    /\ run' = [run EXCEPT !.execError = TRUE]
                    /\ UNCHANGED <<mem, runs>>
       \/ /\ "read_error" \in Faults
          /\ pc' = "executed"
          /\ run' = [run EXCEPT !.execError = TRUE]
          /\ UNCHANGED <<mem, disk, runs>>
    /\ UNCHANGED Execution

\* Preflight: tools, protected packages, inventory and the recovery plan.
Preflight ==
    /\ Step("preflight")
    /\ \/ /\ MayContinue
          /\ job \notin Protected
          /\ LET rec == [mem EXCEPT !.plan = RightPlan(job)]
             IN  /\ mem' = rec
                 /\ \/ Saved(rec) /\ pc' = "baseline" /\ UNCHANGED run
                    \/ SaveFails(rec) /\ WorkflowFails
       \/ WorkflowFails /\ UNCHANGED <<mem, disk>>
    /\ UNCHANGED <<Execution, runs>>

\* MUTANT of AuthorizeCleanup: a failed save does not stop the mutation.
BugAuthorizeCleanup(next) ==
    IF run.authorized
    THEN pc' = next /\ UNCHANGED <<mem, run, disk, progress>>
    ELSE LET rec == [mem EXCEPT !.cleanupRequired = TRUE]
         IN  /\ mem' = rec
             /\ Saved(rec) \/ SaveFails(rec)
             /\ pc' = next
             /\ run' = [run EXCEPT !.authorized = TRUE]
             /\ progress' = [progress EXCEPT !.cleanup = TRUE]

\* authorize_cleanup: the flag is durable before the first destructive call.
AuthorizeCleanup(next) ==
    IF run.authorized
    THEN pc' = next /\ UNCHANGED <<mem, run, disk, progress>>
    ELSE LET rec == [mem EXCEPT !.cleanupRequired = TRUE]
         IN  /\ mem' = rec
             /\ \/ /\ Saved(rec) /\ pc' = next
                   /\ run' = [run EXCEPT !.authorized = TRUE]
                   /\ progress' = [progress EXCEPT !.cleanup = TRUE]
                \/ /\ SaveFails(rec) /\ pc' = "cleanup"
                   /\ run' = [run EXCEPT !.authorized = TRUE, !.failed = TRUE]
                   /\ UNCHANGED progress

\* BaselinePreview and BaselineInstall up to the destructive calls.
PrepareBaseline ==
    /\ Step("baseline")
    /\ \/ MayContinue /\ AuthorizeCleanup("baseline_mutate")
       \/ /\ MayContinue /\ job \in Installed     \* installed baseline reused
          /\ pc' = "candidate" /\ UNCHANGED <<mem, run, disk, progress>>
       \/ WorkflowFails /\ UNCHANGED <<mem, disk, progress>>
    /\ UNCHANGED <<job, notify, op, world, restarts>>

Mutate(p, next) ==
    /\ Step(p)
    /\ node' = [node EXCEPT ![job] = "modified"]
    /\ \/ pc' = next /\ UNCHANGED run
       \/ WorkflowFails
    /\ UNCHANGED <<job, mem, progress, notify, op, disk, coord, accepted, sent, runs, restarts>>

\* remove_package / install_package / install_package_bypassing_signature
InstallBaseline == Mutate("baseline_mutate", "candidate")

\* Baseline stabilization and capture, CandidatePreview, CandidateInstall.
PrepareCandidate ==
    /\ Step("candidate")
    /\ \/ MayContinue /\ AuthorizeCleanup("candidate_mutate")
       \/ WorkflowFails /\ UNCHANGED <<mem, disk, progress>>
    /\ UNCHANGED <<job, notify, op, world, restarts>>

\* update_package
UpdateCandidate == Mutate("candidate_mutate", "evidence")

\* Candidate stabilization, capture, comparison and analysis.
GatherEvidence ==
    /\ Step("evidence")
    /\ \/ MayContinue /\ pc' = "cleanup" /\ UNCHANGED run
       \/ WorkflowFails
    /\ UNCHANGED <<job, mem, progress, notify, op, disk, world, restarts>>

\* Cleanup runs exactly when it was authorized.
BeginCleanup ==
    /\ Step("cleanup")
    /\ IF run.authorized
       THEN \/ /\ Saved(mem) /\ pc' = "reconcile"
               /\ progress' = [progress EXCEPT !.cleanup = TRUE]
               /\ UNCHANGED <<mem, run>>
            \/ /\ SaveFails(mem) /\ pc' = "executed"
               /\ run' = [run EXCEPT !.execError = TRUE]
               /\ UNCHANGED <<mem, progress>>
       ELSE /\ mem' = [mem EXCEPT !.cleanup = "skipped"]
            /\ pc' = "finish"
            /\ UNCHANGED <<disk, run, progress>>
    /\ UNCHANGED <<job, notify, op, world, restarts>>

\* MUTANT of Reconcile: the final inventory is not verified.
BugReconcile(next) ==
    /\ pc' = next
    /\ node' \in {[node EXCEPT ![job] = "restored"], [node EXCEPT ![job] = "modified"]}
    /\ mem' = [mem EXCEPT !.cleanup = "passed"]

\* reconcile_target: the plan is carried out and the inventory verified, or not.
Reconcile(next) ==
    /\ pc' = next
    /\ \/ /\ node' = [node EXCEPT ![job] = "restored"]
          /\ mem' = [mem EXCEPT !.cleanup = "passed"]
       \/ /\ "cleanup_fails" \in Faults
          /\ node' = [node EXCEPT ![job] = "modified"]
          /\ mem' = [mem EXCEPT !.cleanup = "failed"]

ControllerReconcile ==
    /\ Step("reconcile")
    /\ Reconcile("save_cleanup")
    /\ UNCHANGED <<job, run, progress, notify, op, disk, coord, accepted, sent, runs, restarts>>

ExecutionSave(rec, next) ==
    /\ mem' = rec
    /\ \/ Saved(rec) /\ pc' = next /\ UNCHANGED run
       \/ SaveFails(rec) /\ pc' = "executed" /\ run' = [run EXCEPT !.execError = TRUE]
    /\ UNCHANGED <<Execution, runs>>

SaveCleanup == Step("save_cleanup") /\ ExecutionSave(mem, "finish")

\* The result, the completed status and the Finished phase are one write.
FinishExecution == Step("finish") /\ ExecutionSave(WithResult(mem, run.failed), "executed")

--------------------------------------------------------------------------------
(* settle_claim after the controller returned                               *)

ReloadRecord ==
    /\ Step("executed")
    /\ \/ /\ mem' = disk[job]
          /\ IF run.execError
             THEN pc' = "recover_target" /\ Because("exec_error")
             ELSE pc' = "settle" /\ UNCHANGED run
       \/ "read_error" \in Faults /\ pc' = "hold_check" /\ UNCHANGED <<mem, run>>
    /\ UNCHANGED <<job, progress, notify, op, disk, world, restarts>>

\* MUTANT of Settle: a failed cleanup is an error without a hold.
BugSettle ==
    /\ Step("settle")
    /\ \/ progress.lost /\ pc' = "recover_target" /\ Because("claim_lost")
       \/ ~progress.lost /\ CleanupFailed(mem) /\ pc' = "hold_check" /\ UNCHANGED run
       \/ ~progress.lost /\ ~CleanupFailed(mem) /\ pc' = "deliver" /\ UNCHANGED run
    /\ UNCHANGED <<job, mem, progress, notify, op, disk, world, restarts>>

\* Claim loss is looked at once, and before the cleanup status.
Settle ==
    /\ Step("settle")
    /\ \/ progress.lost /\ pc' = "recover_target" /\ Because("claim_lost")
       \/ ~progress.lost /\ CleanupFailed(mem) /\ pc' = "mark_hold" /\ UNCHANGED run
       \/ ~progress.lost /\ ~CleanupFailed(mem) /\ pc' = "deliver" /\ UNCHANGED run
    /\ UNCHANGED <<job, mem, progress, notify, op, disk, world, restarts>>

\* recover_target_if_required, up to the reconciliation.
RecoverTarget ==
    /\ Step("recover_target")
    /\ IF CleanupSettled(mem)
       THEN Save(mem, "recovered", "mark_hold") /\ UNCHANGED progress
       ELSE /\ UNCHANGED disk
            /\ \/ /\ job \notin Protected
                  /\ pc' = "recover_reconcile"
                  /\ progress' = [progress EXCEPT !.cleanup = TRUE]
               \/ pc' = "mark_hold" /\ UNCHANGED progress   \* refused, or no inventory
    /\ UNCHANGED <<job, mem, run, notify, op, world, restarts>>

RecoverReconcile ==
    /\ Step("recover_reconcile")
    /\ Reconcile("recover_save")
    /\ UNCHANGED <<job, run, progress, notify, op, disk, coord, accepted, sent, runs, restarts>>

RecoverSave ==
    /\ Step("recover_save")
    /\ Save(mem, "recovered", "mark_hold")
    /\ UNCHANGED <<job, mem, run, progress, notify, op, world, restarts>>

\* MUTANT of Recovered: an interrupted job is dropped without a report.
BugRecovered ==
    /\ Step("recovered")
    /\ \/ run.why = "exec_error" /\ pc' = "worker_error"
       \/ run.why = "claim_lost" /\ pc' = "release"
       \/ /\ run.why = "interrupted"
          /\ pc' = IF CleanupFailed(mem) THEN "mark_hold" ELSE "release"
    /\ UNCHANGED <<job, mem, run, progress, notify, op, disk, world, restarts>>

\* What each caller does once the target recovery returned Ok.
Recovered ==
    /\ Step("recovered")
    /\ \/ run.why = "exec_error" /\ pc' = "worker_error"
       \/ run.why = "claim_lost" /\ pc' = "release"
       \/ /\ run.why = "interrupted"
          /\ pc' = IF CleanupFailed(mem) THEN "mark_hold"
                   ELSE IF progress.lost THEN "release" ELSE "worker_error"
    /\ UNCHANGED <<job, mem, run, progress, notify, op, disk, world, restarts>>

\* MUTANT of WorkerErrorCode: the cause itself is reported.
BugWorkerErrorCode == run.why

WorkerErrorCode ==
    IF run.why = "exec_error" THEN "local_persistence_failed" ELSE run.why

SetWorkerError ==
    /\ Step("worker_error")
    /\ SaveMem(WithWorkerError(mem, WorkerErrorCode),
               IF run.why = "exec_error" THEN "settle" ELSE "deliver", "hold_check")
    /\ UNCHANGED <<job, run, progress, notify, op, world, restarts>>

\* release_reconciled_claim
ReleaseClaim ==
    /\ Step("release")
    /\ SaveMem(WithReleasedClaim(mem), "return_ok", "hold_check")
    /\ UNCHANGED <<job, run, progress, notify, op, world, restarts>>

\* mark_manual_recovery: the caller returns an error either way.
MarkHold ==
    /\ Step("mark_hold")
    /\ SaveMem([mem EXCEPT !.hold = IF run.why = "completion_conflict"
                                    THEN "completion_conflict" ELSE "cleanup"],
               "hold_check", "hold_check")
    /\ UNCHANGED <<job, run, progress, notify, op, world, restarts>>

--------------------------------------------------------------------------------
(* deliver_until_terminal                                                   *)

\* MUTANT of PrepareCompletion: the body is sent whether or not it was saved.
BugPrepareCompletion ==
    /\ Step("deliver")
    /\ \/ Acknowledged(mem) /\ pc' = "return_ok" /\ UNCHANGED <<mem, disk>>
       \/ /\ ~Acknowledged(mem) /\ mem.pending # NoOutcome
          /\ pc' = "send" /\ UNCHANGED <<mem, disk>>
       \/ /\ ~Acknowledged(mem) /\ mem.pending = NoOutcome /\ CanPrepareCompletion(mem)
          /\ SaveMem([mem EXCEPT !.pending = CompletionBody(mem)], "send", "send")
       \/ /\ ~Acknowledged(mem) /\ mem.pending = NoOutcome /\ ~CanPrepareCompletion(mem)
          /\ pc' = "hold_check" /\ UNCHANGED <<mem, disk>>
    /\ UNCHANGED <<job, run, progress, notify, op, world, restarts>>

\* prepare_completion: the body is durable before it is sent.
PrepareCompletion ==
    /\ Step("deliver")
    /\ \/ Acknowledged(mem) /\ pc' = "return_ok" /\ UNCHANGED <<mem, disk>>
       \/ /\ ~Acknowledged(mem) /\ mem.pending # NoOutcome
          /\ pc' = "send" /\ UNCHANGED <<mem, disk>>
       \/ /\ ~Acknowledged(mem) /\ mem.pending = NoOutcome /\ CanPrepareCompletion(mem)
          /\ SaveMem([mem EXCEPT !.pending = CompletionBody(mem)], "send", "hold_check")
       \/ /\ ~Acknowledged(mem) /\ mem.pending = NoOutcome /\ ~CanPrepareCompletion(mem)
          /\ pc' = "hold_check" /\ UNCHANGED <<mem, disk>>
    /\ UNCHANGED <<job, run, progress, notify, op, world, restarts>>

Received(body) == sent' = [sent EXCEPT ![job] = @ \cup {body}]

\* The coordinator records the first body of a job it still considers claimed.
Recorded ==
    /\ coord[job] = "claimed"
    /\ coord' = [coord EXCEPT ![job] = "completed"]
    /\ accepted' = [accepted EXCEPT ![job] = mem.pending]
    /\ Received(mem.pending)

Duplicate ==
    /\ coord[job] = "completed"
    /\ accepted[job] = mem.pending
    /\ UNCHANGED <<coord, accepted, sent>>

SendAcknowledged ==
    /\ Step("send")
    /\ Recorded \/ Duplicate
    /\ pc' = "ack"
    /\ UNCHANGED <<job, mem, run, progress, notify, op, disk, node, runs, restarts>>

\* The body was recorded, the answer was lost; the same bytes are sent again.
SendAnswerLost ==
    /\ Step("send")
    /\ "response_lost" \in Faults
    /\ Recorded
    /\ UNCHANGED <<local, notify, op, disk, node, runs, restarts>>

\* MUTANT of SendConflict: a conflict is retried like any other rejection.
BugSendConflict ==
    /\ Step("send")
    /\ \/ coord[job] = "released"
       \/ coord[job] = "completed" /\ accepted[job] # mem.pending
    /\ Received(mem.pending)
    /\ UNCHANGED <<local, notify, op, disk, node, coord, accepted, runs, restarts>>

\* 409: a released claim, or another body already recorded.
SendConflict ==
    /\ Step("send")
    /\ \/ coord[job] = "released"
       \/ coord[job] = "completed" /\ accepted[job] # mem.pending
    /\ Received(mem.pending)
    /\ pc' = "mark_hold"
    /\ Because("completion_conflict")
    /\ UNCHANGED <<job, mem, progress, notify, op, disk, node, coord, accepted, runs, restarts>>

\* 401/403 while completing: an error without a hold.
SendRejected ==
    /\ Step("send")
    /\ "auth" \in Faults
    /\ pc' = "hold_check"
    /\ UNCHANGED <<job, mem, run, progress, notify, op, disk, world, restarts>>

\* MUTANT of PersistAcknowledgement: a failed save puts the job on hold.
BugPersistAcknowledgement ==
    /\ Step("ack")
    /\ SaveMem(WithAcknowledgement(mem), "return_ok", "mark_hold")
    /\ UNCHANGED <<job, run, progress, notify, op, world, restarts>>

PersistAcknowledgement ==
    /\ Step("ack")
    /\ SaveMem(WithAcknowledgement(mem), "return_ok", "hold_check")
    /\ UNCHANGED <<job, run, progress, notify, op, world, restarts>>

--------------------------------------------------------------------------------
(* Between jobs, and the waits for an operator                              *)

ForgetJob == job' = NoJob /\ mem' = NoRecord /\ run' = NoRun /\ progress' = NoProgress

\* The heartbeat task is stopped and polling goes on.
ReturnOk ==
    /\ Step("return_ok")
    /\ pc' = "claim" /\ ForgetJob
    /\ UNCHANGED <<notify, op, disk, world, restarts>>

\* MUTANT of RecoverWith: the recovered snapshot is not published.
BugRecoverWith(j) ==
    /\ job' = j
    /\ progress' = NoProgress
    /\ IF disk[j].pending = NoOutcome /\ disk[j].hold # "none"
       THEN pc' = "hold_check" /\ mem' = NoRecord /\ run' = NoRun
       ELSE IF HasCompletion(disk[j])
            THEN mem' = disk[j] /\ run' = NoRun /\ pc' = "deliver"
            ELSE /\ mem' = [disk[j] EXCEPT !.status = "interrupted"]
                 /\ run' = [NoRun EXCEPT !.why = "interrupted"]
                 /\ pc' = "recover_target"

\* recover(): decides from the persisted records alone.
RecoverWith(j) ==
    /\ job' = j
    /\ IF disk[j].pending = NoOutcome /\ disk[j].hold # "none"
       THEN /\ pc' = "hold_check"
            /\ mem' = NoRecord /\ run' = NoRun /\ progress' = NoProgress
       ELSE /\ progress' = [NoProgress EXCEPT !.cleanup = disk[j].cleanupRequired]
            /\ IF HasCompletion(disk[j])
               THEN mem' = disk[j] /\ run' = NoRun /\ pc' = "deliver"
               ELSE /\ mem' = [disk[j] EXCEPT !.status = "interrupted"]
                    /\ run' = [NoRun EXCEPT !.why = "interrupted"]
                    /\ pc' = "recover_target"

\* MUTANT of Recover: a job whose cleanup passed is run again.
BugRecover ==
    /\ Step("recover")
    /\ \/ Unresolved = {} /\ pc' = "claim" /\ UNCHANGED <<job, mem, run, progress, disk>>
       \/ \E j \in Unresolved :
            /\ disk' = [disk EXCEPT ![j].status = "queued"]
            /\ job' = j /\ mem' = disk'[j] /\ pc' = "start"
            /\ UNCHANGED <<run, progress>>
    /\ UNCHANGED <<notify, op, world, restarts>>

Recover ==
    /\ Step("recover")
    /\ \/ Unresolved = {} /\ pc' = "claim" /\ UNCHANGED <<job, mem, run, progress>>
       \/ Cardinality(Unresolved) = 1 /\ \E j \in Unresolved : RecoverWith(j)
       \/ /\ Cardinality(Unresolved) > 1 \/ "read_error" \in Faults
          /\ pc' = "hold_check" /\ UNCHANGED <<job, mem, run, progress>>
    /\ UNCHANGED <<notify, op, disk, world, restarts>>

\* wait_for_operator_recovery: without a hold on disk the task ends.
CheckForHold ==
    /\ Step("hold_check")
    /\ ForgetJob
    /\ \/ (\E j \in Jobs : disk[j].hold # "none") /\ pc' = "op_wait"
       \/ (\A j \in Jobs : disk[j].hold = "none") /\ pc' = "exited"
       \/ "read_error" \in Faults /\ pc' = "exited"
    /\ UNCHANGED <<notify, op, disk, world, restarts>>

\* WorkerRecoveryControl::wait
WakeUp ==
    /\ pc \in {"op_wait", "coord_wait"}
    /\ notify
    /\ notify' = FALSE
    /\ pc' = "recover"
    /\ UNCHANGED <<job, mem, run, progress, op, disk, world, restarts>>

--------------------------------------------------------------------------------
(* The heartbeat task, the coordinator's own moves and the process          *)

HeartbeatClaimLost ==
    /\ pc \in HeartbeatPcs
    /\ coord[job] # "claimed"
    /\ ~progress.lost
    /\ progress' = [progress EXCEPT !.lost = TRUE]
    /\ UNCHANGED <<pc, job, mem, run, notify, op, disk, world, restarts>>

HeartbeatCancel ==
    /\ pc \in HeartbeatPcs
    /\ "cancel" \in Faults
    /\ coord[job] = "claimed"
    /\ ~progress.cancel
    /\ progress' = [progress EXCEPT !.cancel = TRUE]
    /\ UNCHANGED <<pc, job, mem, run, notify, op, disk, world, restarts>>

\* The coordinator withdraws the claim (emergency abandonment).
CoordinatorReleases(j) ==
    /\ "claim_lost" \in Faults
    /\ coord[j] = "claimed"
    /\ coord' = [coord EXCEPT ![j] = "released"]
    /\ UNCHANGED <<local, notify, op, disk, node, accepted, sent, runs, restarts>>

\* Tropibot's operator repairs its side of a conflict; what retryCompletion
\* and the redelivery after a restart wait for.
CoordinatorReinstates(j) ==
    /\ "reinstate" \in Faults
    /\ coord[j] = "released"
    /\ disk[j].hold = "completion_conflict"
    /\ coord' = [coord EXCEPT ![j] = "claimed"]
    /\ UNCHANGED <<local, notify, op, disk, node, accepted, sent, runs, restarts>>

Restart ==
    /\ "crash" \in Faults
    /\ restarts < MaxRestarts
    /\ restarts' = restarts + 1
    /\ pc' = "recover" /\ ForgetJob
    /\ notify' = FALSE
    /\ op' = [o \in Operators |-> NoRequest]
    /\ UNCHANGED <<disk, world>>

--------------------------------------------------------------------------------
(* The operator endpoints: the record is read, edited and written back.     *)

\* Without the race the operator acts only on a worker already waiting for it.
OperatorTurn(p) == "operator_race" \in Faults \/ (pc = p /\ ~notify)

RecoveryRequest(o, action, j) ==
    /\ op[o] = NoRequest
    /\ OperatorTurn("op_wait")
    /\ disk[j].status # "absent"
    /\ RecoveryAllowed(action, disk[j])
    /\ op' = [op EXCEPT ![o] = [action |-> action, job |-> j, snap |-> disk[j]]]
    /\ node' = IF action \in {"continueAfterCleanup", "confirmCleanup"}
               THEN [node EXCEPT ![j] = "restored"] ELSE node
    /\ UNCHANGED <<local, notify, disk, coord, accepted, sent, runs, restarts>>

RecoverySave(o) ==
    /\ op[o].action \in RecoveryActions
    /\ LET rec == RecoveryEdit(op[o].action, op[o].snap)
       IN  \/ /\ disk' = [disk EXCEPT ![op[o].job] = rec]
              /\ notify' = (notify \/ op[o].action # "confirmCleanup")
           \/ /\ "save_lost" \in Faults
              /\ UNCHANGED <<disk, notify>>
           \/ /\ "save_unsynced" \in Faults
              /\ disk' = [disk EXCEPT ![op[o].job] = rec]
              /\ UNCHANGED notify
    /\ op' = [op EXCEPT ![o] = NoRequest]
    /\ UNCHANGED <<local, world, restarts>>

\* coordinator_ready: refused while this worker holds the job locally.
ReadyRequest(o, j) ==
    /\ op[o] = NoRequest
    /\ OperatorTurn("coord_wait")
    /\ ~RequiresWorkerAttention(disk[j])
    /\ op' = [op EXCEPT ![o] = [NoRequest EXCEPT !.action = "ready", !.job = j]]
    /\ UNCHANGED <<local, notify, disk, world, restarts>>

ReadyCall(o) ==
    /\ op[o].action = "ready"
    /\ IF coord[op[o].job] \in {"claimed", "released"}
       THEN coord' = [coord EXCEPT ![op[o].job] = "released"] /\ notify' = TRUE
       ELSE UNCHANGED <<coord, notify>>
    /\ op' = [op EXCEPT ![o] = NoRequest]
    /\ UNCHANGED <<local, disk, node, accepted, sent, runs, restarts>>

--------------------------------------------------------------------------------
Init ==
    /\ pc = "recover" /\ job = NoJob /\ mem = NoRecord
    /\ run = NoRun /\ progress = NoProgress
    /\ notify = FALSE
    /\ op = [o \in Operators |-> NoRequest]
    /\ disk = [j \in Jobs |-> NoRecord]
    /\ node = [j \in Jobs |-> "untouched"]
    /\ coord = [j \in Jobs |-> "queued"]
    /\ accepted = [j \in Jobs |-> NoOutcome]
    /\ sent = [j \in Jobs |-> {}]
    /\ runs = [j \in Jobs |-> 0]
    /\ restarts = 0

Controller ==
    \/ StartExecution \/ Preflight \/ PrepareBaseline \/ InstallBaseline
    \/ PrepareCandidate \/ UpdateCandidate \/ GatherEvidence \/ BeginCleanup
    \/ ControllerReconcile \/ SaveCleanup \/ FinishExecution

Settlement ==
    \/ CreateRecord \/ CheckSupported \/ ReloadRecord \/ Settle \/ RecoverTarget
    \/ RecoverReconcile \/ RecoverSave \/ Recovered \/ SetWorkerError
    \/ ReleaseClaim \/ MarkHold

Delivery ==
    \/ PrepareCompletion \/ SendAcknowledged \/ SendAnswerLost \/ SendConflict
    \/ SendRejected \/ PersistAcknowledgement

RunLoop ==
    \/ \E j \in Jobs : ClaimJob(j) \/ ClaimAnswerLost(j)
    \/ ClaimUnresolved \/ ClaimRejected \/ ReturnOk \/ Recover \/ CheckForHold \/ WakeUp

Worker == Controller \/ Settlement \/ Delivery \/ RunLoop

Heartbeat == HeartbeatClaimLost \/ HeartbeatCancel

Operator ==
    \E o \in Operators :
        \/ \E j \in Jobs : ReadyRequest(o, j) \/ \E a \in RecoveryActions : RecoveryRequest(o, a, j)
        \/ RecoverySave(o)
        \/ ReadyCall(o)

Next ==
    \/ Worker
    \/ Heartbeat
    \/ Operator
    \/ Restart
    \/ \E j \in Jobs : CoordinatorReleases(j) \/ CoordinatorReinstates(j)

Spec == Init /\ [][Next]_vars

\* The worker task and a request being served are scheduled by the runtime;
\* nobody is obliged to send a request, restart the process or lose a claim.
FairSpec ==
    /\ Spec
    /\ WF_vars(Worker)
    /\ \A o \in Operators : WF_vars(RecoverySave(o) \/ ReadyCall(o))

--------------------------------------------------------------------------------
\* Every variable stays in its range.
TypeOK ==
    /\ pc \in ControllerPcs \cup SettlePcs \cup IdlePcs
    /\ job \in Jobs \cup {NoJob}
    /\ mem \in RunRecords
    /\ run \in RunLocals
    /\ progress \in ProgressFlags
    /\ notify \in BOOLEAN
    /\ op \in [Operators -> Requests]
    /\ disk \in [Jobs -> RunRecords]
    /\ node \in [Jobs -> {"untouched", "modified", "restored"}]
    /\ coord \in [Jobs -> {"queued", "claimed", "completed", "released"}]
    /\ accepted \in [Jobs -> Bodies \cup {NoOutcome}]
    /\ sent \in [Jobs -> SUBSET Bodies]
    /\ runs \in [Jobs -> Nat]
    /\ restarts \in 0 .. MaxRestarts

(***************************************************************************)
(* Once the target of a job may have been changed, the file of that job    *)
(* says so and holds the recovery plan for what the node had before, no    *)
(* matter which saves failed, when the process died or what an operator    *)
(* wrote in between (authorize_cleanup, run_algorithm).                    *)
(***************************************************************************)
CleanupPersistedBeforeMutation ==
    \A j \in Jobs : node[j] # "untouched" =>
        disk[j].cleanupRequired /\ disk[j].plan = RightPlan(j)

(***************************************************************************)
(* While heartbeats run for a job whose target may have been changed, the  *)
(* published snapshot they carry says that cleanup is required (publish in *)
(* authorize_cleanup, phase, recover and recover_target_if_required).      *)
(***************************************************************************)
HeartbeatReportsCleanup ==
    (pc \in HeartbeatPcs /\ node[job] # "untouched") => progress.cleanup

(***************************************************************************)
(* The package workflow of a job is started at most once: neither a        *)
(* restart, nor a failed save, nor an operator makes the worker rerun it.  *)
(***************************************************************************)
NeverRerun == \A j \in Jobs : runs[j] <= 1

(***************************************************************************)
(* The coordinator only ever sees one completion body of a job, across     *)
(* lost answers, restarts, conflicts and operator retries                  *)
(* (prepare_completion persists the bytes before the first attempt).       *)
(***************************************************************************)
OneCompletionBody ==
    \A j \in Jobs : \A a, b \in sent[j] : a = b

(***************************************************************************)
(* The worker gives up its local hold on a job only when the coordinator   *)
(* no longer considers the job claimed: an acknowledged, operator-accepted *)
(* or released record never hides a claim that is still open in Tropibot.  *)
(***************************************************************************)
SettledLocallyMeansSettledRemotely ==
    \A j \in Jobs :
        (disk[j].status # "absent" /\ ~RequiresWorkerAttention(disk[j]))
            => coord[j] \in {"completed", "released"}

(***************************************************************************)
(* The worker is never about to change a target whose persisted cleanup    *)
(* has passed: a passed cleanup, automatic or confirmed by an operator, is *)
(* not repeated or undone (recover_target_if_required).                    *)
(***************************************************************************)
NoMutationAfterPassedCleanup ==
    pc \in {"baseline_mutate", "candidate_mutate", "reconcile", "recover_reconcile"}
        => disk[job].cleanup # "passed"

(***************************************************************************)
(* Persisted completion bytes stay as they are until the file records the  *)
(* acknowledgement: no step replaces or drops them.                        *)
(***************************************************************************)
PendingBytesKept ==
    [][\A j \in Jobs : disk[j].pending # NoOutcome =>
            disk'[j].pending = disk[j].pending \/ Acknowledged(disk'[j])]_vars

(***************************************************************************)
(* A claim request is made, and a new job taken on, only while no record   *)
(* on disk needs attention (recover, deliver_until_terminal).              *)
(***************************************************************************)
OneJobAtATime == pc \in {"claim", "create"} => Unresolved = {}

(***************************************************************************)
(* A record once acknowledged, or accepted by the operator, is never       *)
(* written again.                                                          *)
(***************************************************************************)
AcknowledgementIsFinal ==
    [][\A j \in Jobs : Acknowledged(disk[j]) => disk'[j] = disk[j]]_vars

(***************************************************************************)
(* The worker asks for the next job only when every target it has changed  *)
(* was restored: automatically with a passed verification, or by the       *)
(* operator.                                                               *)
(***************************************************************************)
PollsOnlyWithCleanTargets ==
    pc = "claim" => \A j \in Jobs : node[j] # "modified"

(***************************************************************************)
(* When the worker asks for the next job, a target it left changed has its *)
(* failed cleanup on disk and in the completion or release of that job: it *)
(* is never taken for restored (reconcile_target, recover_target).         *)
(***************************************************************************)
DirtyTargetIsOnRecord ==
    pc = "claim" => \A j \in Jobs : node[j] = "modified" => disk[j].cleanup = "failed"

\* A record never carries both a normal result and a worker error.
ResultExcludesWorkerError ==
    \A j \in Jobs : disk[j].result = NoOutcome \/ disk[j].error = NoOutcome

\* Whatever hold is on disk, some recovery action of the operator is accepted.
HoldHasRemedy ==
    \A j \in Jobs : disk[j].hold # "none" =>
        \E a \in RecoveryActions : RecoveryAllowed(a, disk[j])

(***************************************************************************)
(* The worker task does not end: it delivers, or waits for the operator    *)
(* with a hold on disk (run, wait_for_operator_recovery).  It rests on     *)
(* requests that do not race the worker: one that clears a hold before the *)
(* worker looks for it ends the task.                                      *)
(***************************************************************************)
WorkerStaysAlive == pc # "exited"

(***************************************************************************)
(* A persisted claim that no hold stops is eventually settled or held, and *)
(* so is one whose hold an operator has cleared.                           *)
(***************************************************************************)
ClaimsSettle ==
    \A j \in Jobs :
        (RequiresWorkerAttention(disk[j]) /\ disk[j].hold = "none")
            ~> (~RequiresWorkerAttention(disk[j]) \/ disk[j].hold # "none")
================================================================================
