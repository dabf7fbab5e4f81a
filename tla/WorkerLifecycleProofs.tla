------------------------- MODULE WorkerLifecycleProofs -------------------------
(***************************************************************************)
(* Proofs about WorkerLifecycle: the safety of planned restarts.           *)
(***************************************************************************)
EXTENDS WorkerLifecycle, TLAPS

\* What the counter of jobs across the boundary can become.
LEMMA CrossedRange ==
    /\ 0 \in 0 .. 2
    /\ \A c \in 0 .. 2 : (IF c < 2 THEN c + 1 ELSE c) \in 0 .. 2
OBVIOUS

(***************************************************************************)
(* In every behaviour of the worker, the endpoints and the shutdown path   *)
(* the variables stay in their types.                                      *)
(***************************************************************************)
THEOREM TypesHold == Spec => []TypeOK
<1> USE DEF TypeOK, WorkerPcs, DrainStates, MainPcs
<1>1. Init => TypeOK
  BY CrossedRange, Zenon DEF Init
<1>2. TypeOK /\ [Next]_vars => TypeOK'
  <2> SUFFICES ASSUME TypeOK, [Next]_vars PROVE TypeOK'
    OBVIOUS
  <2>1. CASE RecoverOk \/ RecoverFails \/ CheckAccepting \/ Observe \/ MarkDrained
    BY <2>1 DEF RecoverOk, RecoverFails, CheckAccepting, Observe, MarkDrained, Goto
  <2>2. CASE Subscribe \/ DrainChanged \/ ClaimNothing \/ PollAgain
    BY <2>2 DEF Subscribe, DrainChanged, ClaimNothing, PollAgain, Goto
  <2>8. CASE ClaimJob
    <3>1. crossed' \in 0 .. 2
      BY <2>8, CrossedRange DEF ClaimJob
    <3> QED
      BY <2>8, <3>1 DEF ClaimJob, Goto
  <2>3. CASE ClaimRejected \/ ClaimUnresolved \/ FinishJob \/ JobFails
    BY <2>3 DEF ClaimRejected, ClaimUnresolved, FinishJob, JobFails, Goto
  <2>4. CASE \/ CheckForHold \/ CheckFlagAfterConflict \/ ResumeAfterHold \/ ResumeAfterConflict
             \/ TakePermit("op_wait", "op_woken") \/ TakePermit("coord_wait", "coord_woken")
    BY <2>4 DEF CheckForHold, CheckFlagAfterConflict, ResumeAfterHold, ResumeAfterConflict,
       TestFlag, TakePermit, Goto
  <2>5. CASE Operator
    <3>1. CASE RequestDrain
      BY <3>1 DEF RequestDrain, SendDrain
    <3>2. CASE Resume
      BY <3>2, CrossedRange, Zenon DEF Resume
    <3>3. CASE OperatorResolves
      <4>1. hold' \in BOOLEAN
        BY <3>3, Zenon DEF OperatorResolves
      <4> QED
        BY <3>3, <4>1 DEF OperatorResolves
    <3> QED
      BY <2>5, <3>1, <3>2, <3>3 DEF Operator
  <2>6. CASE SignalDrain \/ Shutdown
    BY <2>6 DEF SignalDrain, SendDrain, Shutdown, ClearAccepting, WakePaused, ServerStopped,
       JoinWorker
  <2>7. CASE UNCHANGED vars
    BY <2>7 DEF vars
  <2> QED
    BY <2>1, <2>2, <2>3, <2>4, <2>5, <2>6, <2>7, <2>8 DEF Next, Worker
<1> QED
  BY <1>1, <1>2, PTL DEF Spec

(***************************************************************************)
(* "Safe to restart" is never shown while a claim request, a job or a      *)
(* recovery is in progress.                                                *)
(***************************************************************************)
THEOREM DrainedMeansQuiescent == Spec => []DrainedIsQuiescent
<1> USE DEF DrainedIsQuiescent, Quiescent
<1>1. Init => DrainedIsQuiescent
  BY DEF Init
<1>2. DrainedIsQuiescent /\ [Next]_vars => DrainedIsQuiescent'
  <2> SUFFICES ASSUME DrainedIsQuiescent, [Next]_vars PROVE DrainedIsQuiescent'
    OBVIOUS
  <2>1. CASE CheckAccepting \/ Observe \/ MarkDrained \/ Subscribe \/ DrainChanged
    BY <2>1 DEF CheckAccepting, Observe, MarkDrained, Subscribe, DrainChanged, Goto
  <2>2. CASE RecoverOk \/ RecoverFails \/ ClaimNothing \/ PollAgain \/ ClaimJob
    BY <2>2 DEF RecoverOk, RecoverFails, ClaimNothing, PollAgain, ClaimJob, Goto
  <2>3. CASE ClaimRejected \/ ClaimUnresolved \/ FinishJob \/ JobFails
    BY <2>3 DEF ClaimRejected, ClaimUnresolved, FinishJob, JobFails, Goto
  <2>4. CASE \/ CheckForHold \/ CheckFlagAfterConflict \/ ResumeAfterHold \/ ResumeAfterConflict
             \/ TakePermit("op_wait", "op_woken") \/ TakePermit("coord_wait", "coord_woken")
    BY <2>4 DEF CheckForHold, CheckFlagAfterConflict, ResumeAfterHold, ResumeAfterConflict,
       TestFlag, TakePermit, Goto
  <2>5. CASE Operator
    BY <2>5 DEF Operator, RequestDrain, Resume, OperatorResolves, SendDrain
  <2>6. CASE SignalDrain \/ Shutdown
    BY <2>6 DEF SignalDrain, SendDrain, Shutdown, ClearAccepting, WakePaused, ServerStopped,
       JoinWorker
  <2>7. CASE UNCHANGED vars
    BY <2>7 DEF vars
  <2> QED
    BY <2>1, <2>2, <2>3, <2>4, <2>5, <2>6, <2>7 DEF Next, Worker
<1> QED
  BY <1>1, <1>2, PTL DEF Spec

(***************************************************************************)
(* A worker that has taken a job over the boundary does not send a claim   *)
(* again before it was resumed; without this the bound is not inductive.   *)
(***************************************************************************)
BoundaryInv ==
    /\ crossed \in {0, 1}
    /\ drain = "accepting" => crossed = 0
    /\ crossed = 1 => pc # "claiming"

(***************************************************************************)
(* At most one job is taken on after a drain was requested.                *)
(***************************************************************************)
THEOREM OneJobCrosses == Spec => []OneJobCrossesDrain
<1> USE DEF BoundaryInv
<1>1. Init => BoundaryInv
  BY DEF Init
<1>2. BoundaryInv /\ [Next]_vars => BoundaryInv'
  <2> SUFFICES ASSUME BoundaryInv, [Next]_vars PROVE BoundaryInv'
    OBVIOUS
  <2>1. CASE CheckAccepting \/ Observe \/ MarkDrained \/ Subscribe \/ DrainChanged
    BY <2>1 DEF CheckAccepting, Observe, MarkDrained, Subscribe, DrainChanged, Goto
  <2>2. CASE RecoverOk \/ RecoverFails \/ ClaimNothing \/ PollAgain
    BY <2>2 DEF RecoverOk, RecoverFails, ClaimNothing, PollAgain, Goto
  <2>8. CASE ClaimJob
    <3>1. crossed = 0 /\ crossed' \in {0, 1} /\ (drain = "accepting" => crossed' = 0)
      BY <2>8 DEF ClaimJob, Goto
    <3> QED
      BY <2>8, <3>1 DEF ClaimJob, Goto
  <2>3. CASE ClaimRejected \/ ClaimUnresolved \/ FinishJob \/ JobFails
    BY <2>3 DEF ClaimRejected, ClaimUnresolved, FinishJob, JobFails, Goto
  <2>4. CASE \/ CheckForHold \/ CheckFlagAfterConflict \/ ResumeAfterHold \/ ResumeAfterConflict
             \/ TakePermit("op_wait", "op_woken") \/ TakePermit("coord_wait", "coord_woken")
    BY <2>4 DEF CheckForHold, CheckFlagAfterConflict, ResumeAfterHold, ResumeAfterConflict,
       TestFlag, TakePermit, Goto
  <2>5. CASE Operator
    BY <2>5 DEF Operator, RequestDrain, Resume, OperatorResolves, SendDrain
  <2>6. CASE SignalDrain \/ Shutdown
    BY <2>6 DEF SignalDrain, SendDrain, Shutdown, ClearAccepting, WakePaused, ServerStopped,
       JoinWorker
  <2>7. CASE UNCHANGED vars
    BY <2>7 DEF vars
  <2> QED
    BY <2>1, <2>2, <2>3, <2>4, <2>5, <2>6, <2>7, <2>8 DEF Next, Worker
<1>3. BoundaryInv => OneJobCrossesDrain
  BY DEF OneJobCrossesDrain
<1> QED
  BY <1>1, <1>2, <1>3, PTL DEF Spec

(***************************************************************************)
(* The worker cannot be paused or ended with readiness set: it is set not  *)
(* ready first, and only the shutdown path lets it end otherwise.          *)
(***************************************************************************)
Paused == {"recover", "hold_check", "op_wait", "op_woken", "coord_check", "coord_wait",
           "coord_woken"}
ReadinessInv ==
    /\ main \in {"serving", "drain_sent"} => accepting
    /\ pc \in Paused => notReady
    /\ pc = "exited" => notReady \/ ~accepting

(***************************************************************************)
(* While the process serves and may answer ready, the worker is alive and  *)
(* not waiting for an operator.                                            *)
(***************************************************************************)
THEOREM ReadyWorkerPolls == Spec => []ReadyMeansPolling
<1> USE DEF ReadinessInv, Paused
<1>1. Init => ReadinessInv
  BY DEF Init
<1>2. ReadinessInv /\ [Next]_vars => ReadinessInv'
  <2> SUFFICES ASSUME ReadinessInv, [Next]_vars PROVE ReadinessInv'
    OBVIOUS
  <2>1. CASE CheckAccepting \/ Observe \/ MarkDrained \/ Subscribe \/ DrainChanged
    BY <2>1 DEF CheckAccepting, Observe, MarkDrained, Subscribe, DrainChanged, Goto
  <2>2. CASE RecoverOk \/ RecoverFails \/ ClaimNothing \/ PollAgain \/ ClaimJob
    BY <2>2 DEF RecoverOk, RecoverFails, ClaimNothing, PollAgain, ClaimJob, Goto
  <2>3. CASE ClaimRejected \/ ClaimUnresolved \/ FinishJob \/ JobFails
    BY <2>3 DEF ClaimRejected, ClaimUnresolved, FinishJob, JobFails, Goto
  <2>4. CASE \/ CheckForHold \/ CheckFlagAfterConflict \/ ResumeAfterHold \/ ResumeAfterConflict
             \/ TakePermit("op_wait", "op_woken") \/ TakePermit("coord_wait", "coord_woken")
    BY <2>4 DEF CheckForHold, CheckFlagAfterConflict, ResumeAfterHold, ResumeAfterConflict,
       TestFlag, TakePermit, Goto
  <2>5. CASE Operator
    <3>1. UNCHANGED <<pc, main, accepting, notReady>>
      BY <2>5 DEF Operator, RequestDrain, Resume, OperatorResolves
    <3> QED
      BY <3>1
  <2>6. CASE SignalDrain \/ Shutdown
    BY <2>6 DEF SignalDrain, SendDrain, Shutdown, ClearAccepting, WakePaused, ServerStopped,
       JoinWorker
  <2>7. CASE UNCHANGED vars
    BY <2>7 DEF vars
  <2> QED
    BY <2>1, <2>2, <2>3, <2>4, <2>5, <2>6, <2>7 DEF Next, Worker
<1>3. ReadinessInv => ReadyMeansPolling
  BY DEF ReadyMeansPolling
<1> QED
  BY <1>1, <1>2, <1>3, PTL DEF Spec
================================================================================
