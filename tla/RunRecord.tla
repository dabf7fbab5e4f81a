------------------------------- MODULE RunRecord -------------------------------
(***************************************************************************)
(* The persisted run record (src/model/run.rs) as far as recovery and      *)
(* delivery depend on it, and the pure edits the worker, the controller    *)
(* and the operator endpoints make to it.                                  *)
(*                                                                         *)
(* Abstractions: evidence, timestamps, phase history and error texts are   *)
(* dropped; CleanupStatus::TimedOut is folded into "failed" (every reader  *)
(* in the worker treats the two alike); the acknowledgement flag and the   *)
(* disposition, always written together, are one field.                    *)
(***************************************************************************)

Statuses == {"absent", "queued", "running", "interrupted", "completed"}
Cleanups == {"pending", "passed", "failed", "skipped"}
Plans == {"remove", "restore_latest"}
Holds == {"none", "cleanup", "completion_conflict"}
Dispositions == {"none", "delivered", "operator_accepted"}

(***************************************************************************)
(* What a completion reports: a harness result or a worker error, with the *)
(* cleanup status it quotes.  Two completion bodies of one job are equal   *)
(* bytes exactly when they carry the same outcome.                         *)
(***************************************************************************)
NoOutcome == [kind |-> "none", code |-> "none", cleanup |-> "pending"]
ErrorCodes == {"interrupted", "unsupported_job", "local_persistence_failed",
               "unexpected_error"}
Results == [kind : {"result"}, code : {"verdict", "stopped"}, cleanup : Cleanups]
WorkerErrors == [kind : {"worker_error"}, code : ErrorCodes, cleanup : Cleanups]
Bodies == Results \cup WorkerErrors

RunRecords ==
    [status : Statuses,
     token : BOOLEAN,                     \* claim_token.is_some()
     cleanupRequired : BOOLEAN,
     plan : Plans,
     cleanup : Cleanups,
     result : Results \cup {NoOutcome},
     error : WorkerErrors \cup {NoOutcome},
     pending : Bodies \cup {NoOutcome},   \* pending_completion_body
     disposition : Dispositions,
     hold : Holds]

\* No file for this run.
NoRecord ==
    [status |-> "absent", token |-> FALSE, cleanupRequired |-> FALSE,
     plan |-> "remove", cleanup |-> "pending", result |-> NoOutcome,
     error |-> NoOutcome, pending |-> NoOutcome, disposition |-> "none",
     hold |-> "none"]

--------------------------------------------------------------------------------
Claimed == [NoRecord EXCEPT !.status = "queued", !.token = TRUE]

Acknowledged(r) == r.disposition # "none"

RequiresWorkerAttention(r) ==
    \/ r.hold # "none"
    \/ r.pending # NoOutcome
    \/ r.token /\ ~Acknowledged(r)

\* The record keeps the target from being handed on as clean.
CleanupFailed(r) == r.cleanup = "failed"

\* MUTANT of HasCompletion: persisted bytes of a worker error do not count.
BugHasCompletion(r) == r.status = "completed" /\ r.result # NoOutcome

\* A record that already carries everything a completion needs.
HasCompletion(r) ==
    r.pending # NoOutcome \/ (r.status = "completed" /\ r.result # NoOutcome)

\* MUTANT of CleanupSettled: a passed cleanup is repeated.
BugCleanupSettled(r) == ~r.cleanupRequired

\* recover_target_if_required has nothing to reconcile.
CleanupSettled(r) == ~r.cleanupRequired \/ r.cleanup = "passed"

--------------------------------------------------------------------------------
WorkerErrorCleanup(r) ==
    IF r.cleanup = "pending" /\ ~r.cleanupRequired THEN "skipped" ELSE r.cleanup

WithWorkerError(r, code) ==
    [r EXCEPT !.status = "completed",
              !.cleanup = WorkerErrorCleanup(r),
              !.error = [kind |-> "worker_error", code |-> code,
                         cleanup |-> WorkerErrorCleanup(r)]]

WithResult(r, failed) ==
    [r EXCEPT !.status = "completed",
              !.result = [kind |-> "result",
                          code |-> IF failed THEN "stopped" ELSE "verdict",
                          cleanup |-> r.cleanup]]

\* The outcome prepare_completion serialises; only one of the two may be set.
CompletionBody(r) == IF r.result # NoOutcome THEN r.result ELSE r.error

CanPrepareCompletion(r) ==
    /\ r.token
    /\ (r.result # NoOutcome) # (r.error # NoOutcome)

\* MUTANT of WithAcknowledgement: the delivered body stays pending.
BugWithAcknowledgement(r) ==
    [r EXCEPT !.disposition = "delivered", !.hold = "none", !.token = FALSE]

WithAcknowledgement(r) ==
    [r EXCEPT !.disposition = "delivered", !.pending = NoOutcome,
              !.hold = "none", !.token = FALSE]

WithReleasedClaim(r) ==
    [r EXCEPT !.token = FALSE, !.pending = NoOutcome, !.hold = "none"]

--------------------------------------------------------------------------------
(***************************************************************************)
(* The operator's recovery actions (src/api/routes.rs): when each one is   *)
(* accepted and the record it writes.                                      *)
(***************************************************************************)
RecoveryActions == {"continueAfterCleanup", "confirmCleanup", "retryCompletion",
                    "acceptCoordinatorResult"}

\* MUTANT of RecoveryAllowed: cleanup is only confirmed under a cleanup hold.
BugRecoveryAllowed(action, r) ==
    CASE action \in {"continueAfterCleanup", "confirmCleanup"} ->
            r.hold = "cleanup" /\ r.cleanupRequired
      [] OTHER -> /\ r.hold = "completion_conflict"
                  /\ r.cleanup \in {"passed", "skipped"}
                  /\ r.pending # NoOutcome

RecoveryAllowed(action, r) ==
    CASE action = "continueAfterCleanup" -> r.hold = "cleanup" /\ r.cleanupRequired
      [] action = "confirmCleanup" -> r.hold # "none" /\ r.cleanupRequired
      [] OTHER -> /\ r.hold = "completion_conflict"
                  /\ r.cleanup \in {"passed", "skipped"}
                  /\ r.pending # NoOutcome

RecoveryEdit(action, r) ==
    CASE action = "continueAfterCleanup" ->
            [r EXCEPT !.cleanup = "passed", !.hold = "none"]
      [] action = "confirmCleanup" -> [r EXCEPT !.cleanup = "passed"]
      [] action = "retryCompletion" -> [r EXCEPT !.hold = "none"]
      [] OTHER -> [r EXCEPT !.hold = "none", !.pending = NoOutcome, !.token = FALSE,
                            !.disposition = "operator_accepted"]
================================================================================
