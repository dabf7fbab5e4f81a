---------------------------- MODULE TargetMutations ----------------------------
(***************************************************************************)
(* How one job changes the target package, and how its cleanup is carried  *)
(* out and verified: the mutations of RunController::run_algorithm, the    *)
(* adapter that retries them (src/package_manager/dappmanager.rs) and the  *)
(* recovery plan (src/runner/cleanup.rs), against a Dappmanager that keeps *)
(* working on a mutation whose caller has stopped waiting.                 *)
(*                                                                         *)
(* HarnessWorker takes a mutation and reconcile_target as single steps;    *)
(* this module is what is inside them.  Versions are abstract: the node    *)
(* shows no target, or the build some step put there.  Dappmanager refuses *)
(* a mutation of a package it is already working on, as the adapter's      *)
(* operation_in_progress_error expects.                                    *)
(***************************************************************************)
EXTENDS Integers

CONSTANTS
    MutationAttempts,   \* DAPPMANAGER_MUTATION_ATTEMPTS
    CleanupTimeout,     \* CLEANUP_TIMEOUT_MS, in units of time
    RemovalPoll,        \* half a second in the code
    RemovalCap,         \* 1 000 samples in the code
    MaxRestarts         \* bound on process restarts before the cleanup is saved

ASSUME MutationsAssumption ==
    /\ MutationAttempts \in Nat \ {0} /\ MaxRestarts \in Nat
    /\ CleanupTimeout \in Nat \ {0} /\ RemovalPoll \in Nat \ {0}
    /\ RemovalCap \in Nat \ {0}

VARIABLES
    initial,    \* what the target was before the run; decides the recovery plan
    step,       \* the mutation, or the inspection, the harness is at
    call,       \* where retry_mutation is
    attempt,    \* its attempt counter
    bypassed,   \* the baseline is installed without its signature check
    sample,     \* the removal is verified in samples: the attempt at hand,
    left,       \* and what remains of the timeout
    outcome,    \* CleanupResult.status
    restarts,
    \* the node
    target,     \* the build of the target that is installed
    running,    \* the mutation Dappmanager is working on
    extras      \* the run brought packages that were not there before

removal == <<sample, left>>
harness == <<step, call, attempt, bypassed, removal, outcome, restarts>>
nodeVars == <<target, running, extras>>
vars == <<initial, harness, nodeVars>>

Builds == {"initial", "baseline", "candidate", "latest"}
Mutations == {"base_remove", "base_install", "update", "clean_remove", "clean_install"}
Steps == Mutations \cup {"evidence", "verify", "inventory", "done"}
Calls == {"idle", "sent", "transient", "awaiting", "ok", "rejected", "err"}

\* What the node shows once a mutation is done.
Wanted(m) ==
    CASE m \in {"base_remove", "clean_remove"} -> "none"
      [] m = "base_install" -> "baseline"
      [] m = "update" -> "candidate"
      [] OTHER -> "latest"

\* What the persisted recovery plan brings the target to.
Planned == IF initial = "none" THEN "none" ELSE "latest"

Unfinished == step \in Mutations

--------------------------------------------------------------------------------
(* Dappmanager *)

\* A mutation takes effect; its caller hears of it if it still waits.
MutationDone ==
    /\ running # "none"
    /\ target' = Wanted(running)
    /\ extras' \in IF Wanted(running) = "none" THEN {extras} ELSE {extras, TRUE}
    /\ running' = "none"
    /\ call' = IF call = "sent" THEN "ok" ELSE call
    /\ UNCHANGED <<initial, step, attempt, bypassed, outcome, restarts, removal>>

\* It fails, in a way retryable_tool_message knows or not.
MutationFails ==
    /\ running # "none"
    /\ running' = "none"
    /\ call' \in IF call = "sent" THEN {"transient", "rejected"} ELSE {call}
    /\ UNCHANGED <<initial, step, attempt, bypassed, outcome, restarts, removal, target, extras>>

--------------------------------------------------------------------------------
(* retry_mutation and await_in_progress *)

SendMutation ==
    /\ Unfinished /\ call = "idle"
    /\ \/ running = "none" /\ running' = step /\ call' = "sent"
       \/ running # "none" /\ call' = "awaiting" /\ UNCHANGED running
       \/ call' = "transient" /\ UNCHANGED running       \* it never got there
    /\ UNCHANGED <<initial, step, attempt, bypassed, outcome, restarts, removal, target, extras>>

\* A timed-out mutation may still be running: it is awaited, never resent.
AnswerTimesOut ==
    /\ call = "sent"
    /\ call' = "awaiting"
    /\ UNCHANGED <<initial, step, attempt, bypassed, outcome, restarts, removal, nodeVars>>

\* The connection breaks while Dappmanager works on: a retryable error.
ConnectionLost ==
    /\ call = "sent"
    /\ call' = "transient"
    /\ UNCHANGED <<initial, step, attempt, bypassed, outcome, restarts, removal, nodeVars>>

\* The reconcile closures; a failed read counts as not reached.
Reached == target = Wanted(step)

\* MUTANT of RetryTransient: off by one, as if attempts counted from zero.
BugRetryOffByOne ==
    /\ call = "transient"
    /\ \/ attempt <= MutationAttempts /\ call' = "idle" /\ attempt' = attempt + 1
       \/ attempt > MutationAttempts /\ call' = "err" /\ UNCHANGED attempt
    /\ UNCHANGED <<initial, step, bypassed, outcome, restarts, removal, nodeVars>>

\* MUTANT of RetryTransient: running out of attempts counts as success.
BugRetryTransient ==
    /\ call = "transient"
    /\ \/ attempt < MutationAttempts /\ call' = "idle" /\ attempt' = attempt + 1
       \/ attempt = MutationAttempts /\ call' = "ok" /\ UNCHANGED attempt
    /\ UNCHANGED <<initial, step, bypassed, outcome, restarts, removal, nodeVars>>

\* The last attempt is not reconciled.
RetryTransient ==
    /\ call = "transient"
    /\ \/ attempt < MutationAttempts /\ Reached /\ call' = "ok" /\ UNCHANGED attempt
       \/ attempt < MutationAttempts /\ call' = "idle" /\ attempt' = attempt + 1
       \/ attempt = MutationAttempts /\ call' = "err" /\ UNCHANGED attempt
    /\ UNCHANGED <<initial, step, bypassed, outcome, restarts, removal, nodeVars>>

\* MUTANT of AwaitInProgress: the wait itself counts as success.
BugAwaitInProgress ==
    /\ call = "awaiting"
    /\ call' = "ok"
    /\ UNCHANGED <<initial, step, attempt, bypassed, outcome, restarts, removal, nodeVars>>

\* MUTANT of AwaitInProgress: waits for the state without a deadline.
BugAwaitForever ==
    /\ call = "awaiting"
    /\ Reached /\ call' = "ok"
    /\ UNCHANGED <<initial, step, attempt, bypassed, outcome, restarts, removal, nodeVars>>

AwaitInProgress ==
    /\ call = "awaiting"
    /\ (Reached /\ call' = "ok") \/ call' = "err"
    /\ UNCHANGED <<initial, step, attempt, bypassed, outcome, restarts, removal, nodeVars>>

--------------------------------------------------------------------------------
(* run_algorithm and the cleanup: what follows an answer                    *)

AtStep(s) ==
    /\ step' = s
    /\ call' = "idle" /\ attempt' = 1
    /\ sample' = 0 /\ left' = CleanupTimeout

Failed == call \in {"err", "rejected"}

\* remove_package takes "not installed" for success.
Removed == call = "ok" \/ (call = "rejected" /\ target = "none")

BaselineRemoved ==
    /\ step = "base_remove"
    /\ \/ Removed /\ AtStep("base_install")
       \/ Failed /\ AtStep("clean_remove")
    /\ UNCHANGED <<initial, bypassed, outcome, restarts, nodeVars>>

\* A rejected signature is bypassed once.
BaselineInstalled ==
    /\ step = "base_install"
    /\ \/ call = "ok" /\ AtStep("update") /\ UNCHANGED bypassed
       \/ call = "rejected" /\ ~bypassed /\ AtStep("base_install") /\ bypassed' = TRUE
       \/ Failed /\ AtStep("clean_remove") /\ UNCHANGED bypassed
    /\ UNCHANGED <<initial, outcome, restarts, nodeVars>>

\* Between the baseline and the candidate the run may stop: lost stability,
\* a failed preview, cancellation.  A reused baseline needs no cleanup yet.
StopBeforeUpdate ==
    /\ step = "update" /\ call = "idle" /\ attempt = 1
    /\ AtStep(IF initial = "baseline" THEN "done" ELSE "clean_remove")
    /\ UNCHANGED <<initial, bypassed, outcome, restarts, nodeVars>>

CandidateInstalled ==
    /\ step = "update"
    /\ \/ call = "ok" /\ AtStep("evidence")
       \/ Failed /\ AtStep("clean_remove")
    /\ UNCHANGED <<initial, bypassed, outcome, restarts, nodeVars>>

EvidenceGathered ==
    /\ step = "evidence"
    /\ AtStep("clean_remove")
    /\ UNCHANGED <<initial, bypassed, outcome, restarts, nodeVars>>

CleanupFails ==
    AtStep("inventory") /\ outcome' = "failed"

\* The first half of either plan.
TargetRemoved ==
    /\ step = "clean_remove"
    /\ \/ /\ Removed
          /\ AtStep(IF initial = "none" THEN "verify" ELSE "clean_install")
          /\ UNCHANGED outcome
       \/ Failed /\ CleanupFails
    /\ UNCHANGED <<initial, bypassed, restarts, nodeVars>>

\* restore_latest_target after the reinstall.
LatestInstalled ==
    /\ step = "clean_install"
    /\ \/ call = "ok" /\ AtStep("verify") /\ UNCHANGED outcome
       \/ Failed /\ CleanupFails
    /\ UNCHANGED <<initial, bypassed, restarts, nodeVars>>

\* One listing after a reinstall.
VerifyRestored ==
    /\ step = "verify" /\ initial # "none"
    /\ \/ /\ target # "none"
          /\ AtStep("inventory") /\ outcome' = "passed"
       \/ CleanupFails
    /\ UNCHANGED <<initial, bypassed, restarts, nodeVars>>

Least(a, b) == IF a <= b THEN a ELSE b

\* MUTANT of RemovalSamples: one sample per interval.
BugRemovalSamples == Least(CleanupTimeout \div RemovalPoll, RemovalCap)

RemovalSamples == Least(CleanupTimeout \div RemovalPoll + 1, RemovalCap)

EndWait(status, rest) ==
    /\ step' = "inventory"
    /\ outcome' = status /\ left' = rest
    /\ UNCHANGED sample

\* One pass of the polling in cleanup_target.  The deadline ends it before or
\* during a read; a read that fails counts only when it is the last; a sleep
\* takes the poll interval or what is left, or longer.
VerifyRemoved ==
    /\ step = "verify" /\ initial = "none"
    /\ \/ EndWait("timed_out", 0)
       \/ \E time \in 0 .. left - 1 :
            LET rest == left - time
            IN  \/ target = "none" /\ EndWait("passed", rest)
                \/ /\ sample + 1 < RemovalSamples
                   /\ sample' = sample + 1
                   /\ \E nap \in Least(RemovalPoll, rest) .. rest : left' = rest - nap
                   /\ UNCHANGED <<step, outcome>>
                \/ /\ sample + 1 >= RemovalSamples
                   /\ \/ target # "none" /\ EndWait("timed_out", rest)
                      \/ EndWait("failed", rest)
    /\ UNCHANGED <<initial, call, attempt, bypassed, restarts, nodeVars>>

Leftover == extras \/ (initial = "none" /\ target # "none")

\* MUTANT of VerifyInventory: packages the run brought are not looked for.
BugVerifyInventory ==
    /\ step = "inventory"
    /\ step' = "done"
    /\ outcome' \in {outcome, "failed"}
    /\ UNCHANGED <<initial, call, attempt, bypassed, restarts, removal, nodeVars>>

\* reconcile_target: the complete inventory, which may show leftovers or fail
\* to be read, and the save that follows.
VerifyInventory ==
    /\ step = "inventory"
    /\ step' = "done"
    /\ \/ ~Leftover /\ UNCHANGED outcome
       \/ outcome' = IF outcome = "passed" THEN "failed" ELSE outcome
    /\ UNCHANGED <<initial, call, attempt, bypassed, restarts, removal, nodeVars>>

\* The process dies before the cleanup is saved; recover() carries out the
\* persisted plan again while Dappmanager is wherever it is.
Restart ==
    /\ step # "done"
    /\ restarts < MaxRestarts
    /\ restarts' = restarts + 1
    /\ AtStep("clean_remove")
    /\ outcome' = "pending"
    /\ UNCHANGED <<initial, bypassed, nodeVars>>

--------------------------------------------------------------------------------
\* An installed target is removed before the baseline, reused as the baseline,
\* or absent.
Init ==
    /\ \/ initial = "none" /\ step = "base_install"
       \/ initial = "initial" /\ step = "base_remove"
       \/ initial = "baseline" /\ step = "update"
    /\ target = initial
    /\ call = "idle" /\ attempt = 1 /\ bypassed = FALSE
    /\ sample = 0 /\ left = CleanupTimeout
    /\ outcome = "pending" /\ restarts = 0
    /\ running = "none" /\ extras = FALSE

Dappmanager == MutationDone \/ MutationFails

Adapter ==
    \/ SendMutation \/ AnswerTimesOut \/ ConnectionLost \/ RetryTransient \/ AwaitInProgress

Workflow ==
    \/ BaselineRemoved \/ BaselineInstalled \/ StopBeforeUpdate \/ CandidateInstalled
    \/ EvidenceGathered \/ TargetRemoved \/ LatestInstalled \/ VerifyRestored
    \/ VerifyRemoved \/ VerifyInventory

Next == Dappmanager \/ Adapter \/ Workflow \/ Restart

Spec == Init /\ [][Next]_vars

\* The harness keeps running and its timers fire; Dappmanager may hang.
FairSpec == Spec /\ WF_vars(Adapter \/ Workflow)

--------------------------------------------------------------------------------
\* Every variable stays in its range.
TypeOK ==
    /\ initial \in {"none", "initial", "baseline"}
    /\ step \in Steps /\ call \in Calls
    /\ attempt \in 1 .. MutationAttempts
    /\ bypassed \in BOOLEAN
    /\ sample \in 0 .. RemovalSamples - 1 /\ left \in 0 .. CleanupTimeout
    /\ outcome \in {"pending", "passed", "failed", "timed_out"}
    /\ restarts \in 0 .. MaxRestarts
    /\ target \in Builds \cup {"none"}
    /\ running \in Mutations \cup {"none"}
    /\ extras \in BOOLEAN

(***************************************************************************)
(* The candidate is only ever applied to the requested baseline, although  *)
(* every earlier answer may have been lost: nothing else of the run is     *)
(* still under way in Dappmanager then (run_algorithm, retry_mutation).    *)
(* A second copy of the same install may be: it is sent when the reconcile *)
(* read fails, and the first copy's effect then ends the wait for it.      *)
(***************************************************************************)
UpgradeStartsFromBaseline ==
    (step = "update" /\ call = "idle" /\ attempt = 1)
        => target = "baseline" /\ running \in {"none", "base_install"}

(***************************************************************************)
(* A mutation is reported as done only when the node shows what it asked   *)
(* for (await_in_progress, installed_as_requested).                        *)
(***************************************************************************)
SuccessIsObserved ==
    [][(call # "ok" /\ call' = "ok") => target' = Wanted(step)]_vars

(***************************************************************************)
(* A cleanup is recorded as passed only when the node shows, at the last   *)
(* inventory, exactly what the plan wanted and nothing the run brought     *)
(* along: in particular a restored target is the latest release and never  *)
(* the build under test (reconcile_target).                                *)
(***************************************************************************)
PassedWasVerified ==
    [][(step = "inventory" /\ step' = "done" /\ outcome' = "passed")
            => target = Planned /\ ~extras]_vars

(***************************************************************************)
(* A removal that does not show is not given up while the timeout leaves   *)
(* room for another whole poll interval, unless the samples are capped:    *)
(* slow reads, failed reads and the deadline may only shorten the last     *)
(* interval (cleanup_target).                                              *)
(***************************************************************************)
RemovalAwaited ==
    [][(step = "verify" /\ initial = "none" /\ step' = "inventory" /\ outcome' # "passed")
            => left' < RemovalPoll \/ sample + 1 = RemovalCap]_vars

(***************************************************************************)
(* The cleanup ends, even when Dappmanager never answers: every wait has a *)
(* deadline.                                                               *)
(***************************************************************************)
CleanupEnds == step = "clean_remove" ~> step = "done"

(***************************************************************************)
(* A target recorded as cleaned up is clean, also later.                   *)
(***************************************************************************)
CleanStaysClean == (step = "done" /\ outcome = "passed") => target = Planned
================================================================================
