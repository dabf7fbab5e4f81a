---------------------------- MODULE WorkerLifecycle ----------------------------
(***************************************************************************)
(* Planned restarts: the run loop of the worker task, the drain state      *)
(* machine, the accepting flag and the recovery permit it waits on, the    *)
(* operator endpoints that drive them (src/api/routes.rs) and the shutdown *)
(* path of the process (src/main.rs).                                      *)
(*                                                                         *)
(* What a job does is HarnessWorker's business; here it ends well or ends  *)
(* in an error, with or without a hold.  Every step reads or writes one    *)
(* shared variable, because the worker, the endpoints and main run on      *)
(* different threads.  Timers are not modelled: a sleep may end at any     *)
(* time, so waking an idle poll early (changed_from) changes nothing.      *)
(***************************************************************************)
EXTENDS Naturals

VARIABLES
    pc,         \* where the worker task is in run()
    observed,   \* the drain state wait_until_accepting read
    drain,      \* WorkerDrainControl: the watched state
    woken,      \* the watched state was sent since the worker subscribed
    accepting,  \* the flag the shutdown signal clears
    permit,     \* the Notify of WorkerRecoveryControl
    notReady,   \* WorkerReadiness holds a reason
    hold,       \* a manual-recovery hold is on disk
    main,       \* where the main task is
    crossed     \* jobs taken on since the drain was last requested, up to two

vars == <<pc, observed, drain, woken, accepting, permit, notReady, hold, main, crossed>>

WorkerPcs == {"recover", "accepting", "observe", "mark", "await", "asleep", "claiming", "idle",
              "working", "hold_check", "op_wait", "op_woken", "coord_check", "coord_wait",
              "coord_woken", "exited"}
MainPcs == {"serving", "drain_sent", "flag_cleared", "closing", "joining", "exited"}
DrainStates == {"accepting", "draining", "drained"}

Goto(from, to) == pc = from /\ pc' = to

--------------------------------------------------------------------------------
(* PackageHarnessWorker::run                                                *)

\* recover(): nothing is left to do, or the redelivery cleared the hold.
RecoverOk ==
    /\ Goto("recover", "accepting")
    /\ notReady' = FALSE /\ hold' = FALSE
    /\ UNCHANGED <<observed, drain, woken, accepting, permit, main, crossed>>

RecoverFails ==
    /\ Goto("recover", "hold_check")
    /\ notReady' = TRUE
    /\ hold' \in {hold, TRUE}
    /\ UNCHANGED <<observed, drain, woken, accepting, permit, main, crossed>>

\* The loop condition and the first test of wait_until_accepting.
CheckAccepting ==
    /\ pc = "accepting"
    /\ pc' = IF accepting THEN "observe" ELSE "exited"
    /\ UNCHANGED <<observed, drain, woken, accepting, permit, notReady, hold, main, crossed>>

\* MUTANT of Observe: the claim loop does not look at the drain state.
BugObserveIgnoresDrain ==
    /\ Goto("observe", "claiming")
    /\ UNCHANGED <<observed, drain, woken, accepting, permit, notReady, hold, main, crossed>>

\* MUTANT of Observe: remembers the wrong variable.
BugObservePc ==
    /\ pc = "observe"
    /\ observed' = pc
    /\ pc' = IF drain = "accepting" THEN "claiming" ELSE "await"
    /\ UNCHANGED <<drain, woken, accepting, permit, notReady, hold, main, crossed>>

\* wait_until_accepting: an accepting worker sends the next claim.
Observe ==
    /\ pc = "observe"
    /\ observed' = drain
    /\ pc' = CASE drain = "accepting" -> "claiming"
               [] drain = "draining" -> "mark"
               [] OTHER -> "await"
    /\ UNCHANGED <<drain, woken, accepting, permit, notReady, hold, main, crossed>>

\* mark_drained: a draining worker announces that it is quiescent, unless it
\* was resumed meanwhile.
MarkDrained ==
    /\ Goto("mark", "await")
    /\ drain' = IF drain = "draining" THEN "drained" ELSE drain
    /\ UNCHANGED <<observed, woken, accepting, permit, notReady, hold, main, crossed>>

\* changed_from: returns at once unless the state is the one observed.
Subscribe ==
    /\ pc = "await"
    /\ pc' = IF drain = observed THEN "asleep" ELSE "accepting"
    /\ woken' = FALSE
    /\ UNCHANGED <<observed, drain, accepting, permit, notReady, hold, main, crossed>>

DrainChanged ==
    /\ Goto("asleep", "accepting")
    /\ woken
    /\ UNCHANGED <<observed, drain, woken, accepting, permit, notReady, hold, main, crossed>>

\* No work or a transient failure; and the pause that follows.
ClaimNothing ==
    /\ Goto("claiming", "idle")
    /\ UNCHANGED <<observed, drain, woken, accepting, permit, notReady, hold, main, crossed>>

\* MUTANT of PollAgain: the next claim is sent without a look at the state.
BugPollAgain ==
    /\ Goto("idle", "claiming")
    /\ UNCHANGED <<observed, drain, woken, accepting, permit, notReady, hold, main, crossed>>

PollAgain ==
    /\ Goto("idle", "accepting")
    /\ UNCHANGED <<observed, drain, woken, accepting, permit, notReady, hold, main, crossed>>

ClaimJob ==
    /\ Goto("claiming", "working")
    /\ crossed' = IF drain # "accepting" /\ crossed < 2 THEN crossed + 1 ELSE crossed
    /\ UNCHANGED <<observed, drain, woken, accepting, permit, notReady, hold, main>>

\* MUTANT of ClaimRejected: the task ends without set_not_ready.
BugClaimRejected ==
    /\ Goto("claiming", "exited")
    /\ UNCHANGED <<observed, drain, woken, accepting, permit, notReady, hold, main, crossed>>

ClaimRejected ==
    /\ Goto("claiming", "exited")
    /\ notReady' = TRUE
    /\ UNCHANGED <<observed, drain, woken, accepting, permit, hold, main, crossed>>

ClaimUnresolved ==
    /\ Goto("claiming", "coord_check")
    /\ notReady' = TRUE
    /\ UNCHANGED <<observed, drain, woken, accepting, permit, hold, main, crossed>>

\* process_claim
FinishJob ==
    /\ Goto("working", "accepting")
    /\ UNCHANGED <<observed, drain, woken, accepting, permit, notReady, hold, main, crossed>>

JobFails ==
    /\ Goto("working", "hold_check")
    /\ notReady' = TRUE
    /\ hold' \in BOOLEAN
    /\ UNCHANGED <<observed, drain, woken, accepting, permit, main, crossed>>

\* wait_for_operator_recovery and the 409 branch: the flag is tested before
\* and after the wait.
TestFlag(from, to, wanted) ==
    /\ pc = from
    /\ pc' = IF accepting /\ wanted THEN to ELSE "exited"
    /\ UNCHANGED <<observed, drain, woken, accepting, permit, notReady, hold, main, crossed>>

CheckForHold == TestFlag("hold_check", "op_wait", hold)
CheckFlagAfterConflict == TestFlag("coord_check", "coord_wait", TRUE)
ResumeAfterHold == TestFlag("op_woken", "recover", TRUE)
ResumeAfterConflict == TestFlag("coord_woken", "recover", TRUE)

TakePermit(from, to) ==
    /\ Goto(from, to)
    /\ permit
    /\ permit' = FALSE
    /\ UNCHANGED <<observed, drain, woken, accepting, notReady, hold, main, crossed>>

Worker ==
    \/ RecoverOk \/ RecoverFails \/ CheckAccepting \/ Observe \/ MarkDrained \/ Subscribe \/ DrainChanged
    \/ ClaimNothing \/ PollAgain \/ ClaimJob \/ ClaimRejected \/ ClaimUnresolved
    \/ FinishJob \/ JobFails \/ CheckForHold \/ CheckFlagAfterConflict
    \/ ResumeAfterHold \/ ResumeAfterConflict
    \/ TakePermit("op_wait", "op_woken") \/ TakePermit("coord_wait", "coord_woken")

--------------------------------------------------------------------------------
(* The operator endpoints; a request in flight outlives the signal          *)

\* MUTANT of SendDrain: a drain is reported done when it is requested.
BugSendDrain ==
    /\ drain' = IF drain = "accepting" THEN "drained" ELSE drain
    /\ woken' = (woken \/ drain = "accepting")

\* request_drain
SendDrain ==
    /\ drain' = IF drain = "accepting" THEN "draining" ELSE drain
    /\ woken' = (woken \/ drain = "accepting")

Serving == main # "joining" /\ main # "exited"

RequestDrain ==
    /\ Serving
    /\ SendDrain
    /\ UNCHANGED <<pc, observed, accepting, permit, notReady, hold, main, crossed>>

\* resume() sends even when the worker is already accepting.
Resume ==
    /\ Serving
    /\ drain' = "accepting" /\ woken' = TRUE /\ crossed' = 0
    /\ UNCHANGED <<pc, observed, accepting, permit, notReady, hold, main>>

\* A recovery action that clears the hold, or a coordinator release.
OperatorResolves ==
    /\ Serving
    /\ hold' \in {hold, FALSE}
    /\ permit' = TRUE
    /\ UNCHANGED <<pc, observed, drain, woken, accepting, notReady, main, crossed>>

Operator == RequestDrain \/ Resume \/ OperatorResolves

--------------------------------------------------------------------------------
(* shutdown_signal, the graceful shutdown of the server, worker.await       *)

SignalDrain ==
    /\ main = "serving" /\ main' = "drain_sent"
    /\ SendDrain
    /\ UNCHANGED <<pc, observed, accepting, permit, notReady, hold, crossed>>

ClearAccepting ==
    /\ main = "drain_sent" /\ main' = "flag_cleared"
    /\ accepting' = FALSE
    /\ UNCHANGED <<pc, observed, drain, woken, permit, notReady, hold, crossed>>

\* MUTANT of WakePaused: a paused worker is not woken.
BugWakePaused ==
    /\ main = "flag_cleared" /\ main' = "closing"
    /\ UNCHANGED <<pc, observed, drain, woken, accepting, permit, notReady, hold, crossed>>

WakePaused ==
    /\ main = "flag_cleared" /\ main' = "closing"
    /\ permit' = TRUE
    /\ UNCHANGED <<pc, observed, drain, woken, accepting, notReady, hold, crossed>>

ServerStopped ==
    /\ main = "closing" /\ main' = "joining"
    /\ UNCHANGED <<pc, observed, drain, woken, accepting, permit, notReady, hold, crossed>>

JoinWorker ==
    /\ main = "joining" /\ main' = "exited"
    /\ pc = "exited"
    /\ UNCHANGED <<pc, observed, drain, woken, accepting, permit, notReady, hold, crossed>>

Shutdown == ClearAccepting \/ WakePaused \/ ServerStopped \/ JoinWorker

--------------------------------------------------------------------------------
Init ==
    /\ pc = "recover" /\ observed = "accepting"
    /\ drain = "accepting" /\ woken = FALSE
    /\ accepting = TRUE /\ permit = FALSE
    /\ notReady = TRUE
    /\ hold \in BOOLEAN
    /\ main = "serving" /\ crossed = 0

Next == Worker \/ Operator \/ SignalDrain \/ Shutdown

Spec == Init /\ [][Next]_vars

\* Tasks are scheduled, and every request and job of the worker ends; nobody
\* has to send a request or the signal.
FairSpec == Spec /\ WF_vars(Worker) /\ WF_vars(Shutdown)

--------------------------------------------------------------------------------
Quiescent == pc \in {"accepting", "observe", "mark", "await", "asleep", "exited"}
WaitsForOperator == pc \in {"op_wait", "coord_wait"}

\* The worker waits for a change away from "draining" that has come and gone:
\* it was resumed and drained again after it read the state and before it
\* subscribed (changed_from), and nothing wakes it.
Overslept ==
    pc \in {"await", "asleep"} /\ observed = "draining" /\ drain = "draining"

\* Every variable stays in its range.
TypeOK ==
    /\ pc \in WorkerPcs
    /\ observed \in DrainStates /\ drain \in DrainStates
    /\ woken \in BOOLEAN /\ accepting \in BOOLEAN /\ permit \in BOOLEAN
    /\ notReady \in BOOLEAN /\ hold \in BOOLEAN
    /\ main \in MainPcs
    /\ crossed \in 0 .. 2

(***************************************************************************)
(* "Safe to restart" (drained) is only shown while the worker has no claim *)
(* request, no job and no recovery in progress (mark_drained).             *)
(***************************************************************************)
DrainedIsQuiescent == drain = "drained" => Quiescent

(***************************************************************************)
(* At most one job, claimed by a request already in flight, is taken on    *)
(* after a drain was requested (wait_until_accepting in the claim loop).   *)
(***************************************************************************)
OneJobCrossesDrain == crossed <= 1

(***************************************************************************)
(* While /readyz may answer ready, the worker task is alive and not        *)
(* waiting for an operator (every set_not_ready precedes its wait or       *)
(* return).                                                                *)
(***************************************************************************)
ReadyMeansPolling ==
    (main = "serving" /\ ~notReady /\ drain = "accepting")
        => pc \notin {"recover", "exited", "hold_check", "op_wait", "op_woken",
                      "coord_check", "coord_wait", "coord_woken"}

(***************************************************************************)
(* A drain ends: the worker becomes drained, or it was resumed, or it is   *)
(* paused for the operator, or its task is over, or it overslept the       *)
(* request: only a resume and a drain in that window keep a drain open.    *)
(***************************************************************************)
DrainCompletes ==
    drain = "draining" ~>
        (drain # "draining" \/ WaitsForOperator \/ pc = "exited" \/ Overslept)

(***************************************************************************)
(* After the signal, a process whose worker was not already drained joins  *)
(* the worker and exits, also when the worker is paused on a hold or on    *)
(* the coordinator (the permit WakePaused leaves).                         *)
(***************************************************************************)
UndrainedShutdownCompletes ==
    (main = "joining" /\ drain # "drained" /\ ~Overslept) ~> main = "exited"

\* After the signal the process exits, whatever the drain state it came in.
ShutdownCompletes == (main = "joining" /\ ~Overslept) ~> main = "exited"
================================================================================
