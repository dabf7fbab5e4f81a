-------------------------- MODULE WorkerContractProofs --------------------------
(***************************************************************************)
(* What holds as long as operators do not interfere with the worker: a     *)
(* request is made only while the worker waits for one, and served before  *)
(* the next one is made.  The worker then holds one job at a time, never   *)
(* writes a file again it is done with, and does not end while its files   *)
(* and the coordinator serve it; and HarnessWorker implements JobContract. *)
(* The condition is about the steps of a behaviour, not about the          *)
(* constants: there may be any number of operators, whose requests the     *)
(* model lets come at any time.                                            *)
(***************************************************************************)
EXTENDS WorkerContract, WorkerSafetyProofs

\* A request begins only while the worker waits for one of its kind and no
\* other is being served.  Without it a request can bring back a record that
\* was already settled, or clear a hold the worker is about to look for.
OperatorsTakeTurns ==
    \A o \in Operators : op'[o] \notin {op[o], NoRequest} =>
        /\ pc = IF op'[o].action = "ready" THEN "coord_wait" ELSE "op_wait"
        /\ ~notify
        /\ \A p \in Operators : op[p] = NoRequest

\* The condition of the theorems of this module.
TurnTaking == [][OperatorsTakeTurns]_vars

--------------------------------------------------------------------------------
(* Turns, and one unresolved file                                           *)

\* One request is in flight at most, only while the worker waits for it, and a
\* recovery edits the file as it is.
Turns ==
    /\ \A o, p \in Operators : op[o] # NoRequest /\ op[p] # NoRequest => o = p
    /\ \A o \in Operators :
        /\ Recovery(o) => pc = "op_wait" /\ ~notify /\ op[o].snap = disk[op[o].job]
        /\ op[o].action = "ready" => pc = "coord_wait" /\ ~notify

\* The only file that needs attention is that of the job in hand, and it does
\* as long as that job is worked on.
OneOpen ==
    /\ \A j, k \in Unresolved : j = k
    /\ pc \in {"claim", "create", "return_ok"} => Unresolved = {}
    /\ pc \in Worked => Unresolved \subseteq {job}
    /\ pc \in Worked \ {"create"} => Live(disk[job])

TurnsInv == Turns /\ OneOpen

\* While the worker acts, no request is in flight.
LEMMA WorkerHasTheTurn ==
    ASSUME Turns, Worker, NEW o \in Operators
    PROVE  ~Recovery(o) /\ op[o].action # "ready"
<1>1. /\ UNCHANGED op
      /\ pc \notin {"op_wait", "coord_wait"} \/ notify
  BY DEF Worker, Controller, StartExecution, Preflight, PrepareBaseline, InstallBaseline, Mutate,
         PrepareCandidate, UpdateCandidate, GatherEvidence, BeginCleanup,
         ControllerReconcile, SaveCleanup, FinishExecution, ExecutionSave, Execution,
         Settlement, CreateRecord, CheckSupported, ReloadRecord, Settle, RecoverTarget,
         RecoverReconcile, RecoverSave, Recovered, SetWorkerError, ReleaseClaim, MarkHold,
         Delivery, PrepareCompletion, SendAcknowledged, SendAnswerLost, SendConflict,
         SendRejected, PersistAcknowledgement, RunLoop, ClaimJob, ClaimAnswerLost,
         ClaimUnresolved, ClaimRejected, ReturnOk, Recover, CheckForHold, WakeUp, Step
<1> QED
  BY <1>1 DEF Turns

\* Every step leaves the turns respected.
LEMMA TurnsKept ==
    ASSUME OperatorsTakeTurns, Typed, MarkInv, Turns, Next
    PROVE  Turns'
<1>0. op \in [Operators -> Requests]
  BY DEF Typed, TypeOK
<1>1. CASE Worker
  <2>1. \A o \in Operators : ~Recovery(o) /\ op[o].action # "ready"
    BY <1>1, WorkerHasTheTurn
  <2>2. UNCHANGED op
    BY <1>1 DEF Worker, Controller, StartExecution, Preflight, PrepareBaseline, InstallBaseline, Mutate,
         PrepareCandidate, UpdateCandidate, GatherEvidence, BeginCleanup,
         ControllerReconcile, SaveCleanup, FinishExecution, ExecutionSave, Execution,
         Settlement, CreateRecord, CheckSupported, ReloadRecord, Settle, RecoverTarget,
         RecoverReconcile, RecoverSave, Recovered, SetWorkerError, ReleaseClaim, MarkHold,
         Delivery, PrepareCompletion, SendAcknowledged, SendAnswerLost, SendConflict,
         SendRejected, PersistAcknowledgement, RunLoop, ClaimJob, ClaimAnswerLost,
         ClaimUnresolved, ClaimRejected, ReturnOk, Recover, CheckForHold, WakeUp, local
  <2> QED
    BY <2>1, <2>2 DEF Turns, Recovery
<1>2. ASSUME NEW o \in Operators, NEW r, op' = [op EXCEPT ![o] = r], r # NoRequest,
             \/ r.action \in RecoveryActions /\ r.snap = disk[r.job]
             \/ r.action = "ready",
             UNCHANGED <<pc, notify, disk>>, op[o] = NoRequest
      PROVE  Turns'
  <2>1. /\ op'[o] = r
        /\ pc = IF r.action = "ready" THEN "coord_wait" ELSE "op_wait"
        /\ ~notify
        /\ \A p \in Operators : op[p] = NoRequest
    BY <1>0, <1>2 DEF OperatorsTakeTurns
  <2>2. \A p \in Operators \ {o} : op'[p] = NoRequest
    BY <1>0, <1>2, <2>1
  <2>3. "ready" \notin RecoveryActions /\ "none" \notin RecoveryActions
    BY DEF RecoveryActions
  <2> QED
    BY <1>2, <2>1, <2>2, <2>3 DEF Turns, Recovery, NoRequest
<1>3. ASSUME NEW o \in Operators, NEW j \in Jobs,
             \/ ReadyRequest(o, j)
             \/ \E a \in RecoveryActions : RecoveryRequest(o, a, j)
      PROVE  Turns'
  <2>1. CASE ReadyRequest(o, j)
    <3> DEFINE r == [NoRequest EXCEPT !.action = "ready", !.job = j]
    <3>1. r.action = "ready" /\ r # NoRequest
      BY DEF NoRequest
    <3>2. op' = [op EXCEPT ![o] = r] /\ op[o] = NoRequest /\ UNCHANGED <<pc, notify, disk>>
      BY <2>1 DEF ReadyRequest, local
    <3> QED
      BY <1>2, <3>1, <3>2
  <2>2. ASSUME NEW a \in RecoveryActions, RecoveryRequest(o, a, j) PROVE Turns'
    <3> DEFINE r == [action |-> a, job |-> j, snap |-> disk[j]]
    <3>1. r.action \in RecoveryActions /\ r.snap = disk[r.job] /\ r # NoRequest
      BY DEF NoRequest, RecoveryActions
    <3>2. op' = [op EXCEPT ![o] = r] /\ op[o] = NoRequest /\ UNCHANGED <<pc, notify, disk>>
      BY <2>2 DEF RecoveryRequest, local
    <3> QED
      BY <1>2, <3>1, <3>2
  <2> QED
    BY <1>3, <2>1, <2>2
<1>4. ASSUME NEW o \in Operators, RecoverySave(o) \/ ReadyCall(o)
      PROVE  Turns'
  <2>1. op' = [op EXCEPT ![o] = NoRequest] /\ op[o] # NoRequest
    BY <1>4 DEF RecoverySave, ReadyCall, NoRequest, RecoveryActions
  <2>2. \A p \in Operators : op'[p] = NoRequest
    BY <1>0, <2>1 DEF Turns
  <2> QED
    BY <2>2 DEF Turns, Recovery, NoRequest, RecoveryActions
<1>5. CASE Restart
  BY <1>5 DEF Restart, Turns, Recovery, NoRequest, RecoveryActions
<1>6. CASE \/ Heartbeat
           \/ \E j \in Jobs : CoordinatorReleases(j) \/ CoordinatorReinstates(j)
  <2>1. UNCHANGED <<pc, notify, op, disk>>
    BY <1>6 DEF Heartbeat, HeartbeatClaimLost, HeartbeatCancel, CoordinatorReleases,
       CoordinatorReinstates, local
  <2> QED
    BY <2>1 DEF Turns, Recovery
<1> QED
  BY <1>1, <1>2, <1>3, <1>4, <1>5, <1>6 DEF Next, Operator

\* Writing the file of the job in hand opens no other.
LEMMA OwnFileOnly ==
    ASSUME Unresolved \subseteq {job}, \A j \in Jobs \ {job} : disk'[j] = disk[j]
    PROVE  /\ Unresolved' \subseteq {job}
           /\ ~RequiresWorkerAttention(disk'[job]) => Unresolved' = {}
BY DEF Unresolved

\* The worker opens at most the file of its job, and closes it before it is
\* done with the job.
LEMMA WorkerKeepsOneOpen ==
    ASSUME Typed, MarkInv, (MarkInv)', AnswerInv, OneOpen, Controller \/ Settlement \/ Delivery
    PROVE  OneOpen'
<1> USE DEF Step, ControllerPcs, SettlePcs, Worked, InHand
<1>0. /\ pc \in Worked /\ job \in Jobs /\ mem \in RunRecords /\ disk[job] \in RunRecords
      /\ disk \in [Jobs -> RunRecords] /\ UNCHANGED job /\ run \in RunLocals
      /\ Unresolved \subseteq {job}
  BY ControllerFrame DEF Settlement, CreateRecord, CheckSupported, ReloadRecord, Settle, RecoverTarget,
         RecoverReconcile, RecoverSave, Recovered, SetWorkerError, ReleaseClaim, MarkHold,
         Delivery, PrepareCompletion, SendAcknowledged, SendAnswerLost, SendConflict,
         SendRejected, PersistAcknowledgement, local, Typed, TypeOK, JobInHand, OneOpen
<1>1. pc # "executed" => Live(mem)
  BY <1>0 DEF AnswerInv, Shapes
<1>2. CASE Controller
  <2>1. /\ pc \in ControllerPcs /\ pc' \in ControllerPcs \cup {"executed"}
        /\ \A j \in Jobs \ {job} : disk'[j] = disk[j]
        /\ SameClaim(disk'[job], disk[job]) \/ SameClaim(disk'[job], mem)
    BY <1>2, ControllerFrame, ControllerWrites
  <2>2. Live(disk[job])
    BY <2>1 DEF OneOpen
  <2>3. Live(disk'[job])
    BY <1>1, <2>1, <2>2 DEF SameClaim, Live, Acknowledged
  <2>4. Unresolved' \subseteq {job}
    BY <1>0, <2>1, OwnFileOnly
  <2> QED
    BY <1>0, <2>1, <2>3, <2>4 DEF OneOpen
<1>3. CASE Settlement \/ Delivery
  <2>1. /\ disk' \in {disk, [disk EXCEPT ![job] = mem']}
        /\ pc' \in (SettlePcs \ {"create", "executed"}) \cup {"start", "hold_check", "return_ok"}
    BY <1>3 DEF Settlement, CreateRecord, CheckSupported, ReloadRecord, Settle, RecoverTarget,
         RecoverReconcile, Reconcile, RecoverSave, Recovered, SetWorkerError, ReleaseClaim, MarkHold,
         Delivery, PrepareCompletion, SendAcknowledged, SendAnswerLost, SendConflict,
         SendRejected, PersistAcknowledgement, SaveMem, Save, Saved, SaveFails, local
  <2>2. /\ \A j \in Jobs \ {job} : disk'[j] = disk[j]
        /\ disk'[job] \in {disk[job], mem'}
    BY <1>0, <2>1
  <2>3. Unresolved' \subseteq {job}
    BY <1>0, <2>2, OwnFileOnly
  <2>4. CASE pc' = "return_ok"
    <3>1. \/ disk' = [disk EXCEPT ![job] = WithReleasedClaim(mem)]
          \/ disk' = [disk EXCEPT ![job] = WithAcknowledgement(mem)]
      <4>1. ReleaseClaim \/ PersistAcknowledgement \/ (PrepareCompletion /\ Acknowledged(mem))
        BY <1>3, <2>4 DEF Settlement, CreateRecord, CheckSupported, ReloadRecord, Settle, RecoverTarget,
         RecoverReconcile, Reconcile, RecoverSave, Recovered, SetWorkerError, MarkHold,
         Delivery, PrepareCompletion, SendAcknowledged, SendAnswerLost, SendConflict,
         SendRejected, SaveMem, Save, local
      <4>2. ~(PrepareCompletion /\ Acknowledged(mem))
        BY <1>1 DEF Live, PrepareCompletion
      <4> QED
        BY <2>4, <4>1, <4>2 DEF ReleaseClaim, PersistAcknowledgement, SaveMem, Save, Saved
    <3>2. Retired(WithReleasedClaim(mem)) /\ Retired(WithAcknowledgement(mem))
      BY <1>0, ClaimEdits
    <3>3. Retired(disk'[job])
      BY <1>0, <3>1, <3>2
    <3>4. disk'[job] \in RunRecords
      BY <1>0, <3>1, CompoundEditType
    <3>5. Unresolved' = {}
      BY <1>0, <2>2, <3>3, <3>4, ShapeFacts, OwnFileOnly
    <3> QED
      BY <2>4, <3>5 DEF OneOpen
  <2>5. CASE pc' = "hold_check"
    BY <2>3, <2>5 DEF OneOpen
  <2>6. CASE pc' \notin {"return_ok", "hold_check"}
    <3>1. pc' \in InHand => Live(disk'[job])
      <4>1. CASE pc = "create"
        <5>1. disk' = [disk EXCEPT ![job] = mem]
          BY <1>3, <2>6, <4>1 DEF Settlement, CreateRecord, CheckSupported, ReloadRecord, Settle,
             RecoverTarget, RecoverReconcile, RecoverSave, Recovered, SetWorkerError, ReleaseClaim,
             MarkHold, Delivery, PrepareCompletion, SendAcknowledged, SendAnswerLost, SendConflict,
             SendRejected, PersistAcknowledgement, Save, Saved
        <5> QED
          BY <1>0, <1>1, <4>1, <5>1
      <4>2. CASE pc # "create"
        <5>1. Live(disk[job])
          BY <1>0, <4>2 DEF OneOpen
        <5>2. disk' = disk \/ Live(mem')
          <6>1. \/ disk' = disk \/ mem' = mem
                \/ pc = "worker_error" /\ mem' = WithWorkerError(mem, WorkerErrorCode)
                \/ pc = "deliver" /\ CanPrepareCompletion(mem)
                    /\ mem' = [mem EXCEPT !.pending = CompletionBody(mem)]
            BY <1>3, <2>6 DEF Settlement, CreateRecord, CheckSupported, ReloadRecord, Settle,
             RecoverTarget, RecoverReconcile, RecoverSave, Recovered, SetWorkerError, ReleaseClaim,
             MarkHold, Delivery, PrepareCompletion, SendAcknowledged, SendAnswerLost, SendConflict,
             SendRejected, PersistAcknowledgement, SaveMem, Save
          <6>2. ASSUME pc = "worker_error" PROVE Live(WithWorkerError(mem, WorkerErrorCode))
            <7>1. WorkerErrorCode \in ErrorCodes
              BY <6>2 DEF Typed, CauseKnown, WorkerErrorCode, ErrorCodes
            <7> QED
              BY <1>0, <1>1, <6>2, <7>1, ClaimEdits DEF SameClaim, Live, Acknowledged
          <6>3. ASSUME pc = "deliver", CanPrepareCompletion(mem)
                PROVE  Live([mem EXCEPT !.pending = CompletionBody(mem)])
            BY <1>0, <1>1, <6>3, CompletionBodyType, ClaimEdits
          <6>4. pc # "executed" \/ disk' = disk
            BY <1>3 DEF Settlement, CreateRecord, CheckSupported, ReloadRecord, Settle,
             RecoverTarget, RecoverReconcile, RecoverSave, Recovered, SetWorkerError, ReleaseClaim,
             MarkHold, Delivery, PrepareCompletion, SendAcknowledged, SendAnswerLost, SendConflict,
             SendRejected, PersistAcknowledgement
          <6> QED
            BY <1>1, <6>1, <6>2, <6>3, <6>4
        <5> QED
          BY <2>2, <5>1, <5>2
      <4> QED
        BY <4>1, <4>2
    <3> QED
      BY <1>0, <2>1, <2>3, <2>6, <3>1 DEF OneOpen
  <2> QED
    BY <2>4, <2>5, <2>6
<1> QED
  BY <1>2, <1>3

\* A new job is taken on when no file is open, and a recovery starts from the
\* open file.
LEMMA RunLoopKeepsOneOpen ==
    ASSUME Typed, AnswerInv, OneOpen, RunLoop
    PROVE  OneOpen'
<1> USE DEF Step, ControllerPcs, SettlePcs, Worked
<1>0. UNCHANGED disk /\ disk \in [Jobs -> RunRecords]
  BY DEF RunLoop, ClaimJob, ClaimAnswerLost, ClaimUnresolved, ClaimRejected, ReturnOk, Recover,
         CheckForHold, WakeUp, Typed, TypeOK
<1>1. Unresolved' = Unresolved
  BY <1>0 DEF Unresolved
<1>2. ASSUME NEW j \in Unresolved, RecoverWith(j) PROVE OneOpen'
  <2>1. job' = j /\ pc' \in {"hold_check", "deliver", "recover_target"} /\ j \in Jobs
    BY <1>2 DEF RecoverWith, Unresolved
  <2>2. Live(disk[j])
    BY <1>0, <2>1, ShapeFacts DEF AnswerInv, Shapes, Unresolved
  <2>3. Unresolved' = {j}
    BY <1>1 DEF OneOpen
  <2>4. disk'[job'] = disk[j]
    BY <1>0, <2>1
  <2> QED
    BY <2>1, <2>2, <2>3, <2>4 DEF OneOpen
<1>3. CASE Recover
  BY <1>1, <1>2, <1>3 DEF Recover, OneOpen
<1>4. CASE ClaimUnresolved \/ ClaimRejected \/ ReturnOk \/ CheckForHold \/ WakeUp
  BY <1>1, <1>4 DEF ClaimUnresolved, ClaimRejected, ReturnOk, CheckForHold, WakeUp, OneOpen
<1>5. ASSUME NEW j \in Jobs, ClaimJob(j) \/ ClaimAnswerLost(j) PROVE OneOpen'
  BY <1>1, <1>5 DEF ClaimJob, ClaimAnswerLost, local, OneOpen
<1> QED
  BY <1>3, <1>4, <1>5 DEF RunLoop

\* An operator edits an open file; nobody else writes one.
LEMMA OthersKeepOneOpen ==
    ASSUME Typed, MarkInv, CleanupInv, Turns, OneOpen,
           \/ Heartbeat \/ Operator \/ Restart
           \/ \E j \in Jobs : CoordinatorReleases(j) \/ CoordinatorReinstates(j)
    PROVE  OneOpen'
<1>1. ASSUME NEW o \in Operators, RecoverySave(o) PROVE OneOpen'
  <2>1. /\ Recovery(o) /\ pc = "op_wait" /\ UNCHANGED pc /\ op[o].job \in Jobs
        /\ disk[op[o].job].hold # "none"
        /\ \E rec : disk' \in {disk, [disk EXCEPT ![op[o].job] = rec]}
    BY <1>1 DEF RecoverySave, Recovery, Turns, local, MarkInv, RequestsCurrent, CleanupInv,
       RequestsJustified
  <2>2. op[o].job \in Unresolved
    BY <2>1 DEF Unresolved, RequiresWorkerAttention
  <2>3. \A j \in Jobs \ {op[o].job} : disk'[j] = disk[j]
    BY <2>1 DEF Typed, TypeOK
  <2>4. Unresolved' \subseteq Unresolved
    BY <2>2, <2>3 DEF Unresolved
  <2> QED
    BY <2>1, <2>4 DEF OneOpen, Worked, ControllerPcs, SettlePcs
<1>2. CASE Restart
  <2>1. Unresolved' = Unresolved
    BY <1>2 DEF Restart, Unresolved
  <2> QED
    BY <1>2, <2>1 DEF Restart, OneOpen, Worked, ControllerPcs, SettlePcs
<1>3. CASE UNCHANGED <<pc, job, disk>>
  <2>1. Unresolved' = Unresolved
    BY <1>3 DEF Unresolved
  <2> QED
    BY <1>3, <2>1 DEF OneOpen
<1>4. CASE \/ Heartbeat
           \/ \E j \in Jobs : CoordinatorReleases(j) \/ CoordinatorReinstates(j)
  BY <1>3, <1>4 DEF Heartbeat, HeartbeatClaimLost, HeartbeatCancel, CoordinatorReleases,
     CoordinatorReinstates, local
<1>5. ASSUME NEW o \in Operators, ~RecoverySave(o),
             \/ \E j \in Jobs : ReadyRequest(o, j) \/ \E a \in RecoveryActions : RecoveryRequest(o, a, j)
             \/ ReadyCall(o)
      PROVE  OneOpen'
  BY <1>3, <1>5 DEF ReadyRequest, RecoveryRequest, ReadyCall, local
<1> QED
  BY <1>1, <1>2, <1>4, <1>5 DEF Operator

\* Turns are respected and one file is open, in every reachable state.
LEMMA TurnsInvariant == Spec /\ TurnTaking => [](Typed /\ MarkInv /\ CleanupInv /\ AnswerInv /\ TurnsInv)
<1>1. Init => TurnsInv
  BY DEF Init, TurnsInv, Turns, OneOpen, Unresolved, RequiresWorkerAttention, NoRecord, Recovery,
     NoRequest, RecoveryActions, Worked, ControllerPcs, SettlePcs
<1>2. /\ Typed /\ MarkInv /\ (MarkInv)' /\ CleanupInv /\ AnswerInv /\ TurnsInv
      /\ [Next]_vars /\ [OperatorsTakeTurns]_vars
      => TurnsInv'
  <2>1. CASE UNCHANGED vars
    BY <2>1 DEF TurnsInv, Turns, OneOpen, Unresolved, Recovery, vars, local
  <2>2. ASSUME [OperatorsTakeTurns]_vars, ~UNCHANGED vars PROVE OperatorsTakeTurns
    BY <2>2
  <2> QED
    BY <2>1, <2>2, TurnsKept, WorkerKeepsOneOpen, RunLoopKeepsOneOpen, OthersKeepOneOpen
    DEF TurnsInv, Next, Worker
<1> QED
  BY <1>1, <1>2, AnswerInvariant, PTL DEF Spec, TurnTaking

(***************************************************************************)
(* The condition is met by every behaviour in which requests do not race:  *)
(* one operator, who acts on a worker already waiting for it, as in the    *)
(* runs that check the properties below.                                   *)
(***************************************************************************)
THEOREM OrderlyTakeTurns ==
    ASSUME "operator_race" \notin Faults, \A o, p \in Operators : o = p
    PROVE  Spec => TurnTaking
<1>1. Typed /\ [Next]_vars => [OperatorsTakeTurns]_vars
  <2> SUFFICES ASSUME Typed, Next, NEW o \in Operators, op'[o] \notin {op[o], NoRequest}
               PROVE  /\ pc = IF op'[o].action = "ready" THEN "coord_wait" ELSE "op_wait"
                      /\ ~notify
                      /\ op[o] = NoRequest
    BY DEF OperatorsTakeTurns
  <2>1. op \in [Operators -> Requests]
    BY DEF Typed, TypeOK
  <2>2. PICK p \in Operators, j \in Jobs :
          ReadyRequest(p, j) \/ \E a \in RecoveryActions : RecoveryRequest(p, a, j)
    <3>1. \/ UNCHANGED op
          \/ op' = [q \in Operators |-> NoRequest]
          \/ Operator
      BY DEF Next, Worker, Controller, StartExecution, Preflight, PrepareBaseline, InstallBaseline,
         Mutate, PrepareCandidate, UpdateCandidate, GatherEvidence, BeginCleanup,
         ControllerReconcile, SaveCleanup, FinishExecution, ExecutionSave, Execution,
         Settlement, CreateRecord, CheckSupported, ReloadRecord, Settle, RecoverTarget,
         RecoverReconcile, RecoverSave, Recovered, SetWorkerError, ReleaseClaim, MarkHold,
         Delivery, PrepareCompletion, SendAcknowledged, SendAnswerLost, SendConflict,
         SendRejected, PersistAcknowledgement, RunLoop, ClaimJob, ClaimAnswerLost,
         ClaimUnresolved, ClaimRejected, ReturnOk, Recover, CheckForHold, WakeUp, local,
         Heartbeat, HeartbeatClaimLost, HeartbeatCancel, Restart, CoordinatorReleases,
         CoordinatorReinstates
    <3>2. ASSUME NEW p \in Operators, RecoverySave(p) \/ ReadyCall(p) PROVE FALSE
      <4>1. op' = [op EXCEPT ![p] = NoRequest]
        BY <3>2 DEF RecoverySave, ReadyCall
      <4> QED
        BY <2>1, <4>1
    <3> QED
      BY <3>1, <3>2 DEF Operator
  <2>3. p = o
    OBVIOUS
  <2>4. CASE ReadyRequest(o, j)
    BY <2>1, <2>4 DEF ReadyRequest, OperatorTurn, NoRequest
  <2>5. ASSUME NEW a \in RecoveryActions, RecoveryRequest(o, a, j)
        PROVE  op'[o].action # "ready" /\ pc = "op_wait" /\ ~notify /\ op[o] = NoRequest
    BY <2>1, <2>5 DEF RecoveryRequest, OperatorTurn, RecoveryActions
  <2> QED
    BY <2>2, <2>3, <2>4, <2>5
<1> QED
  BY <1>1, TypeCorrect, PTL DEF Spec, TurnTaking

(***************************************************************************)
(* The worker asks for a job, and takes one on, only while no record on    *)
(* disk needs attention.                                                   *)
(***************************************************************************)
THEOREM OneAtATime == Spec /\ TurnTaking => []OneJobAtATime
<1>1. TurnsInv => OneJobAtATime
  BY DEF TurnsInv, OneOpen, OneJobAtATime
<1> QED
  BY <1>1, TurnsInvariant, PTL

\* A retired file is not written: the worker's is live, an operator's is held.
LEMMA OnlyLiveFilesWritten ==
    ASSUME Typed, MarkInv, (MarkInv)', CleanupInv, AnswerInv, TurnsInv, Next,
           NEW j \in Jobs, disk'[j] # disk[j]
    PROVE  Live(disk[j]) \/ disk[j] = NoRecord
<1> USE DEF Step, ControllerPcs, SettlePcs, Worked
<1>0. disk \in [Jobs -> RunRecords] /\ \A k \in Jobs : Live(disk[k]) \/ Retired(disk[k])
  BY DEF Typed, TypeOK, AnswerInv, Shapes
<1>1. CASE Controller \/ Settlement \/ Delivery
  <2>1. /\ pc \in Worked /\ j = job
    <3>1. \/ /\ pc \in Worked
             /\ disk' \in {disk, [disk EXCEPT ![job] = mem']}
          \/ pc \in Worked /\ \A k \in Jobs \ {job} : disk'[k] = disk[k]
      BY <1>1, ControllerFrame DEF Settlement, CreateRecord, CheckSupported, ReloadRecord, Settle,
         RecoverTarget, RecoverReconcile, RecoverSave, Recovered, SetWorkerError, ReleaseClaim, MarkHold,
         Delivery, PrepareCompletion, SendAcknowledged, SendAnswerLost, SendConflict,
         SendRejected, PersistAcknowledgement, SaveMem, Save, Saved, SaveFails, local
    <3> QED
      BY <1>0, <3>1
  <2> QED
    BY <2>1 DEF TurnsInv, OneOpen, MarkInv, HandOnDisk
<1>2. ASSUME NEW o \in Operators, RecoverySave(o)
      PROVE  Live(disk[j])
  <2>1. /\ Recovery(o) /\ disk[op[o].job].hold # "none" /\ op[o].job \in Jobs
        /\ \E rec : disk' \in {disk, [disk EXCEPT ![op[o].job] = rec]}
    BY <1>2 DEF RecoverySave, Recovery, TurnsInv, Turns, MarkInv, RequestsCurrent, CleanupInv,
       RequestsJustified
  <2>2. op[o].job = j
    BY <1>0, <2>1
  <2> QED
    BY <1>0, <2>1, <2>2 DEF Retired, Closed
<1>3. CASE \/ RunLoop \/ Heartbeat \/ Restart
           \/ \E k \in Jobs : CoordinatorReleases(k) \/ CoordinatorReinstates(k)
  BY <1>3 DEF RunLoop, ClaimJob, ClaimAnswerLost, ClaimUnresolved, ClaimRejected, ReturnOk, Recover,
     CheckForHold, WakeUp, Heartbeat, HeartbeatClaimLost, HeartbeatCancel, Restart,
     CoordinatorReleases, CoordinatorReinstates
<1>4. CASE Operator
  BY <1>2, <1>4 DEF Operator, ReadyRequest, RecoveryRequest, ReadyCall
<1> QED
  BY <1>1, <1>2, <1>3, <1>4 DEF Next, Worker

(***************************************************************************)
(* A record the coordinator acknowledged, or whose outcome the operator    *)
(* accepted, is never written again.                                       *)
(***************************************************************************)
THEOREM AcknowledgedStays == Spec /\ TurnTaking => AcknowledgementIsFinal
<1>1. Typed /\ MarkInv /\ (MarkInv)' /\ CleanupInv /\ AnswerInv /\ TurnsInv /\ [Next]_vars
      => [\A j \in Jobs : Acknowledged(disk[j]) => disk'[j] = disk[j]]_vars
  <2>1. ~Acknowledged(NoRecord)
    BY DEF Acknowledged, NoRecord
  <2> QED
    BY <2>1, OnlyLiveFilesWritten DEF Live
<1> QED
  BY <1>1, TurnsInvariant, PTL DEF Spec, AcknowledgementIsFinal

--------------------------------------------------------------------------------
(***************************************************************************)
(* The refinement.  A step maps to the contract's step of the same name    *)
(* where Tropibot, the start of a workflow or what was sent changes, to    *)
(* Settle where a file is retired, and to a stutter everywhere else.       *)
(***************************************************************************)

\* What the refinement rests on.
ContractInv ==
    /\ Typed /\ MarkInv /\ CleanupInv /\ DecisionInv /\ AnswerInv
    /\ TurnsInv /\ RunsCounted /\ RecordedWasSent

\* All of it is invariant.
LEMMA ContractInvariant == Spec /\ TurnTaking => []ContractInv
BY TurnsInvariant, DecisionInvariant, RunsStayCounted, RecordedInvariant, PTL DEF ContractInv

\* What was offered, when one body at most was sent.
LEMMA OfferedBody ==
    ASSUME NEW j \in Jobs, sent[j] \in SUBSET Bodies
    PROVE  /\ sent[j] = {} <=> Offered[j] = NoOutcome
           /\ sent[j] # {} => Offered[j] \in sent[j]
<1>1. NoOutcome \notin Bodies
  BY DEF NoOutcome, Bodies, Results, WorkerErrors
<1>2. Offered[j] = IF sent[j] = {} THEN NoOutcome ELSE CHOOSE b \in sent[j] : TRUE
  BY DEF Offered
<1>3. sent[j] # {} => (CHOOSE b \in sent[j] : TRUE) \in sent[j]
  OBVIOUS
<1> QED
  BY <1>1, <1>2, <1>3

\* What was offered for a job depends on what was sent for it.
LEMMA OfferedSame ==
    /\ Offered = [j \in Jobs |-> Offered[j]]
    /\ Offered' = [j \in Jobs |-> Offered'[j]]
    /\ \A j \in Jobs : sent'[j] = sent[j] => Offered'[j] = Offered[j]
<1>1. Offered = [j \in Jobs |-> IF sent[j] = {} THEN NoOutcome ELSE CHOOSE b \in sent[j] : TRUE]
  BY DEF Offered
<1>2. Offered' = [j \in Jobs |-> IF sent'[j] = {} THEN NoOutcome ELSE CHOOSE b \in sent'[j] : TRUE]
  BY DEF Offered
<1>3. ASSUME NEW j \in Jobs, sent'[j] = sent[j] PROVE Offered'[j] = Offered[j]
  <2>1. Offered'[j] = IF sent'[j] = {} THEN NoOutcome ELSE CHOOSE b \in sent'[j] : TRUE
    BY <1>2
  <2>2. Offered[j] = IF sent[j] = {} THEN NoOutcome ELSE CHOOSE b \in sent[j] : TRUE
    BY <1>1
  <2> QED
    BY <1>3, <2>1, <2>2, Zenon
<1> QED
  BY <1>1, <1>2, <1>3

\* What is unchanged in the contract when its sources are.
LEMMA UnchangedAbove ==
    /\ UNCHANGED runs => UNCHANGED Started
    /\ UNCHANGED sent => UNCHANGED Offered
<1>1. ASSUME runs' = runs PROVE Started' = Started
  BY <1>1 DEF Started
<1>2. ASSUME sent' = sent PROVE Offered' = Offered
  BY <1>2, OfferedSame
<1> QED
  BY <1>1, <1>2

\* One file at most is written in a step.
LEMMA OneFileWritten ==
    ASSUME Typed, MarkInv, (MarkInv)', Next
    PROVE  \E k : \A j \in Jobs : j # k => disk'[j] = disk[j]
<1>0. disk \in [Jobs -> RunRecords]
  BY DEF Typed, TypeOK
<1>1. CASE Controller
  BY <1>1, ControllerFrame
<1>2. CASE \E k, rec : disk' \in {disk, [disk EXCEPT ![k] = rec]}
  BY <1>0, <1>2
<1>3. CASE Settlement \/ Delivery
  <2>1. disk' \in {disk, [disk EXCEPT ![job] = mem']}
    BY <1>3 DEF Settlement, CreateRecord, CheckSupported, ReloadRecord, Settle,
         RecoverTarget, RecoverReconcile, RecoverSave, Recovered, SetWorkerError, ReleaseClaim, MarkHold,
         Delivery, PrepareCompletion, SendAcknowledged, SendAnswerLost, SendConflict,
         SendRejected, PersistAcknowledgement, SaveMem, Save, Saved, SaveFails, local
  <2> QED
    BY <1>2, <2>1
<1>4. CASE Operator
  BY <1>2, <1>4 DEF Operator, ReadyRequest, RecoveryRequest, RecoverySave, ReadyCall
<1>5. CASE \/ RunLoop \/ Heartbeat \/ Restart
           \/ \E k \in Jobs : CoordinatorReleases(k) \/ CoordinatorReinstates(k)
  BY <1>5 DEF RunLoop, ClaimJob, ClaimAnswerLost, ClaimUnresolved, ClaimRejected, ReturnOk, Recover,
     CheckForHold, WakeUp, Heartbeat, HeartbeatClaimLost, HeartbeatCancel, Restart,
     CoordinatorReleases, CoordinatorReinstates
<1> QED
  BY <1>1, <1>3, <1>4, <1>5 DEF Next, Worker

\* A settled job stays settled.
LEMMA SettledGrows ==
    ASSUME ContractInv, (ContractInv)', Next
    PROVE  /\ Settled \subseteq Settled'
           /\ UNCHANGED disk => UNCHANGED Settled
           /\ \A j \in Jobs : Live(disk[j]) => j \notin Settled
           /\ \A j \in Settled' : Retired(disk'[j]) /\ Answered(j)'
<1>0. /\ disk \in [Jobs -> RunRecords] /\ disk' \in [Jobs -> RunRecords]
      /\ \A j \in Jobs : Live(disk[j]) \/ Retired(disk[j])
      /\ \A j \in Jobs : Live(disk'[j]) \/ Retired(disk'[j])
      /\ \A j \in Jobs : (disk'[j].status # "absent" /\ Retired(disk'[j])) => Answered(j)'
  BY DEF ContractInv, Typed, TypeOK, AnswerInv, Shapes, Answers
<1>1. \A j \in Jobs : Live(disk[j]) => j \notin Settled
  BY <1>0, ShapeFacts DEF Settled
<1>2. ASSUME NEW j \in Settled PROVE disk'[j] = disk[j]
  <2>1. j \in Jobs /\ ~Live(disk[j]) /\ disk[j].status # "absent"
    BY <1>1 DEF Settled
  <2>2. disk[j] # NoRecord
    BY <2>1 DEF NoRecord
  <2> QED
    BY <2>1, <2>2, OnlyLiveFilesWritten DEF ContractInv
<1>3. Settled \subseteq Settled'
  BY <1>2 DEF Settled
<1>4. ASSUME NEW j \in Settled' PROVE Retired(disk'[j]) /\ Answered(j)'
  <2>1. j \in Jobs /\ disk'[j].status # "absent" /\ ~RequiresWorkerAttention(disk'[j])
    BY DEF Settled
  <2>2. Retired(disk'[j])
    BY <1>0, <2>1, ShapeFacts
  <2> QED
    BY <1>0, <2>1, <2>2
<1> QED
  BY <1>1, <1>3, <1>4 DEF Settled

\* A step in which the coordinator, what it was sent and the starts stay as
\* they are settles an answered job or nothing.
LEMMA QuietStep ==
    ASSUME ContractInv, (ContractInv)', Next, UNCHANGED <<coord, accepted, sent, runs>>
    PROVE  [Contract!Next]_(Contract!vars)
<1>1. UNCHANGED <<coord, accepted, Started, Offered>>
  BY UnchangedAbove
<1>2. PICK k : \A j \in Jobs : j # k => disk'[j] = disk[j]
  BY OneFileWritten DEF ContractInv
<1>3. Settled' \subseteq Settled \cup {k}
  BY <1>2 DEF Settled
<1>4. CASE Settled' = Settled
  BY <1>1, <1>4 DEF Contract!vars
<1>5. CASE Settled' # Settled
  <2>1. k \in Settled' /\ Settled' = Settled \cup {k} /\ k \in Jobs /\ Answered(k)'
    BY <1>3, <1>5, SettledGrows DEF Settled
  <2>2. coord[k] \in {"queued", "claimed", "completed", "released"} /\ sent[k] \in SUBSET Bodies
    BY <2>1 DEF ContractInv, Typed, TypeOK
  <2>3. coord[k] \in {"completed", "released"} \/ sent[k] # {}
    BY <2>1 DEF Answered
  <2>4. coord[k] = "queued" => sent[k] = {}
    BY <2>1 DEF ContractInv, DecisionInv, UndecidedUntilDelivery
  <2>5. coord[k] \in {"completed", "released"} \/ Contract!Disputed(k)
    BY <2>1, <2>2, <2>3, <2>4, OfferedBody DEF Contract!Disputed
  <2>6. Contract!Settle(k)
    BY <1>1, <2>1, <2>5 DEF Contract!Settle
  <2> QED
    BY <2>1, <2>6 DEF Contract!Next
<1> QED
  BY <1>4, <1>5

\* The package workflow is started for a job that was neither started nor
\* reported on.
LEMMA StartMaps ==
    ASSUME ContractInv, (ContractInv)', Next, StartExecution
    PROVE  [Contract!Next]_(Contract!vars)
<1> USE DEF Step
<1>0. /\ pc = "start" /\ job \in Jobs /\ UNCHANGED <<job, coord, accepted, sent>>
      /\ runs \in [Jobs -> Nat]
      /\ coord[job] \in {"queued", "claimed", "completed", "released"}
      /\ sent[job] \in SUBSET Bodies
  BY DEF StartExecution, Execution, ContractInv, Typed, TypeOK, JobInHand, ControllerPcs
<1>1. CASE UNCHANGED runs
  BY <1>0, <1>1, QuietStep
<1>2. CASE runs' = [runs EXCEPT ![job] = @ + 1]
  <2>1. runs[job] = 0 /\ runs'[job] = 1 /\ \A j \in Jobs \ {job} : runs'[j] = runs[j]
    BY <1>0, <1>2 DEF ContractInv, RunsCounted
  <2>2. job \notin Started /\ Started' = Started \cup {job}
    BY <1>0, <2>1 DEF Started
  <2>3. sent[job] = {}
    BY <1>0 DEF ContractInv, DecisionInv, UndecidedUntilDelivery, FirstLife, ControllerPcs, Undecided
  <2>4. coord[job] \in {"claimed", "released"}
    BY <1>0, <2>3 DEF ContractInv, RecordedWasSent, MarkInv, HandOnDisk, Worked, ControllerPcs
  <2>5. Live(disk[job])
    BY <1>0 DEF ContractInv, TurnsInv, OneOpen, Worked, ControllerPcs
  <2>6. pc' \in ControllerPcs \cup {"executed"} /\ \A j \in Jobs \ {job} : disk'[j] = disk[j]
    BY ControllerFrame DEF Controller, ContractInv
  <2>7. Live(disk'[job])
    BY <1>0, <2>6 DEF ContractInv, TurnsInv, OneOpen, Worked, ControllerPcs, SettlePcs
  <2>8. job \notin Settled /\ UNCHANGED Settled
    <3>1. disk'[job] \in RunRecords /\ disk[job] \in RunRecords
      BY <1>0 DEF ContractInv, Typed, TypeOK
    <3>2. job \notin Settled /\ job \notin Settled'
      BY <1>0, <2>5, <2>7, <3>1, ShapeFacts DEF Settled
    <3> QED
      BY <2>6, <3>2 DEF Settled
  <2>9. Offered[job] = NoOutcome /\ UNCHANGED Offered
    BY <1>0, <2>3, OfferedBody, UnchangedAbove
  <2>10. Contract!Start(job)
    BY <1>0, <2>2, <2>4, <2>8, <2>9 DEF Contract!Start
  <2> QED
    BY <1>0, <2>10 DEF Contract!Next
<1> QED
  BY <1>1, <1>2 DEF StartExecution

\* A body reaches the coordinator: the one offered before, if there was one.
LEMMA SendMaps ==
    ASSUME ContractInv, (ContractInv)', Next,
           SendAcknowledged \/ SendAnswerLost \/ SendConflict
    PROVE  [Contract!Next]_(Contract!vars)
<1> USE DEF Step
<1>0. /\ pc = "send" /\ job \in Jobs /\ UNCHANGED <<disk, runs, job>>
      /\ mem.pending \in Bodies
      /\ coord \in [Jobs -> {"queued", "claimed", "completed", "released"}]
      /\ sent \in [Jobs -> SUBSET Bodies]
  BY DEF SendAcknowledged, SendAnswerLost, SendConflict, local, ContractInv, Typed, TypeOK,
     JobInHand, SettlePcs, BodyInHand
<1>1. \A b \in sent[job] : b = mem.pending
  <2>1. Decided(job, mem.pending)
    BY <1>0 DEF Decided, Held, InHand, Worked, SettlePcs
  <2>2. \A b \in sent[job] : Decided(job, b)
    BY <1>0 DEF Decided
  <2> QED
    BY <1>0, <2>1, <2>2 DEF ContractInv, DecisionInv, DecidedOnce, Decided
<1>2. UNCHANGED <<Started, Settled>> /\ job \notin Settled
  <2>1. Live(disk[job])
    BY <1>0 DEF ContractInv, TurnsInv, OneOpen, Worked, SettlePcs
  <2> QED
    BY <1>0, <2>1, SettledGrows, UnchangedAbove
<1>3. Offered[job] \in {mem.pending, NoOutcome}
  BY <1>0, <1>1, OfferedBody
<1>4. ASSUME Received(mem.pending)
      PROVE  Contract!Offers(job, mem.pending)
  <2>1. sent'[job] = {mem.pending} /\ \A j \in Jobs \ {job} : sent'[j] = sent[j]
    BY <1>0, <1>1, <1>4 DEF Received
  <2>2. (CHOOSE b \in {mem.pending} : TRUE) = mem.pending
    OBVIOUS
  <2>3. Offered' = [Offered EXCEPT ![job] = mem.pending]
    <3>1. Offered' = [j \in Jobs |-> IF sent'[j] = {} THEN NoOutcome ELSE CHOOSE b \in sent'[j] : TRUE]
      BY DEF Offered
    <3>2. ASSUME NEW j \in Jobs
          PROVE  Offered'[j] = IF j = job THEN mem.pending ELSE Offered[j]
      <4>1. CASE j = job
        <5>1. Offered'[j] = CHOOSE b \in sent'[j] : TRUE
          BY <2>1, <3>1, <4>1
        <5> QED
          BY <2>1, <2>2, <4>1, <5>1, Zenon
      <4>2. CASE j # job
        BY <2>1, <4>2, OfferedSame
      <4> QED
        BY <4>1, <4>2
    <3> QED
      BY <3>1, <3>2, OfferedSame
  <2> QED
    BY <1>2, <1>3, <2>3 DEF Contract!Offers
<1>5. CASE SendAcknowledged \/ SendAnswerLost
  <2>1. CASE Recorded
    <3>1. Contract!Complete(job, mem.pending)
      BY <1>0, <1>2, <1>4, <2>1 DEF Recorded, Contract!Complete, Contract!Change
    <3> QED
      BY <1>0, <3>1 DEF Contract!Next
  <2>2. CASE Duplicate
    BY <1>0, <2>2, QuietStep DEF Duplicate
  <2> QED
    BY <1>5, <2>1, <2>2 DEF SendAcknowledged, SendAnswerLost
<1>6. CASE SendConflict
  <2>1. Received(mem.pending) /\ UNCHANGED <<coord, accepted>>
    BY <1>6 DEF SendConflict
  <2>2. coord[job] = "completed" => accepted[job] = mem.pending
    BY <1>0, <1>1 DEF ContractInv, RecordedWasSent
  <2>3. coord[job] = "released"
    BY <1>6, <2>2 DEF SendConflict
  <2>4. Contract!Refuse(job, mem.pending)
    BY <1>2, <1>4, <2>1, <2>3 DEF Contract!Refuse
  <2> QED
    BY <1>0, <2>4 DEF Contract!Next
<1> QED
  BY <1>5, <1>6

\* The coordinator's view changes, and nothing else of the contract.
LEMMA CoordinatorMaps ==
    ASSUME ContractInv, (ContractInv)', Next, NEW j \in Jobs,
           \/ ClaimJob(j) \/ ClaimAnswerLost(j)
           \/ CoordinatorReleases(j) \/ CoordinatorReinstates(j)
           \/ \E o \in Operators : ReadyCall(o) /\ op[o].job = j
    PROVE  [Contract!Next]_(Contract!vars)
<1>0. /\ UNCHANGED <<disk, accepted, sent, runs>>
      /\ coord \in [Jobs -> {"queued", "claimed", "completed", "released"}]
  BY DEF ClaimJob, ClaimAnswerLost, CoordinatorReleases, CoordinatorReinstates, ReadyCall,
     ContractInv, Typed, TypeOK
<1>1. UNCHANGED <<Started, Offered, accepted, Settled>>
  BY <1>0, SettledGrows, UnchangedAbove
<1>2. CASE ClaimJob(j) \/ ClaimAnswerLost(j)
  <2>1. Contract!Assign(j)
    BY <1>1, <1>2 DEF ClaimJob, ClaimAnswerLost, Contract!Assign, Contract!Change
  <2> QED
    BY <2>1 DEF Contract!Next
<1>3. CASE coord[j] = "claimed" /\ coord' = [coord EXCEPT ![j] = "released"]
  <2>1. Contract!Withdraw(j)
    BY <1>1, <1>3 DEF Contract!Withdraw, Contract!Change
  <2> QED
    BY <2>1 DEF Contract!Next
<1>4. CASE CoordinatorReleases(j)
  BY <1>3, <1>4 DEF CoordinatorReleases
<1>5. CASE CoordinatorReinstates(j)
  <2>1. disk[j].hold = "completion_conflict"
    BY <1>5 DEF CoordinatorReinstates
  <2>2. sent[j] # {} /\ sent[j] \in SUBSET Bodies
    BY <2>1 DEF ContractInv, AnswerInv, Disputes, Conflicting, Typed, TypeOK
  <2>3. Offered[j] # NoOutcome
    BY <2>2, OfferedBody
  <2>4. j \notin Settled
    BY <2>1 DEF Settled, RequiresWorkerAttention
  <2>5. Contract!Reinstate(j)
    BY <1>1, <1>5, <2>3, <2>4 DEF CoordinatorReinstates, Contract!Reinstate, Contract!Change
  <2> QED
    BY <2>5 DEF Contract!Next
<1>6. ASSUME NEW o \in Operators, ReadyCall(o), op[o].job = j
      PROVE  [Contract!Next]_(Contract!vars)
  <2>1. CASE coord[j] = "claimed"
    BY <1>3, <1>6, <2>1 DEF ReadyCall
  <2>2. CASE coord[j] # "claimed"
    <3>1. UNCHANGED coord
      BY <1>0, <1>6, <2>2 DEF ReadyCall
    <3> QED
      BY <1>1, <3>1 DEF Contract!vars
  <2> QED
    BY <2>1, <2>2
<1> QED
  BY <1>2, <1>4, <1>5, <1>6

\* Every step maps to a step of the contract or to a stutter.
LEMMA StepImplements ==
    ASSUME ContractInv, (ContractInv)', Next
    PROVE  [Contract!Next]_(Contract!vars)
<1>1. CASE UNCHANGED <<coord, accepted, sent, runs>>
  BY <1>1, QuietStep
<1>2. CASE Controller
  <2>1. StartExecution \/ UNCHANGED <<coord, accepted, sent, runs>>
    BY <1>2 DEF Controller, Preflight, PrepareBaseline, InstallBaseline, Mutate,
         PrepareCandidate, UpdateCandidate, GatherEvidence, BeginCleanup,
         ControllerReconcile, SaveCleanup, FinishExecution, ExecutionSave, Execution, world
  <2> QED
    BY <1>1, <2>1, StartMaps
<1>3. CASE Settlement
  <2>1. UNCHANGED <<coord, accepted, sent, runs>>
    BY <1>3 DEF Settlement, CreateRecord, CheckSupported, ReloadRecord, Settle, RecoverTarget,
         RecoverReconcile, RecoverSave, Recovered, SetWorkerError, ReleaseClaim, MarkHold, world
  <2> QED
    BY <1>1, <2>1
<1>4. CASE Delivery
  <2>1. \/ SendAcknowledged \/ SendAnswerLost \/ SendConflict
        \/ UNCHANGED <<coord, accepted, sent, runs>>
    BY <1>4 DEF Delivery, PrepareCompletion, SendRejected, PersistAcknowledgement, world
  <2> QED
    BY <1>1, <2>1, SendMaps
<1>5. CASE RunLoop
  <2>1. \/ \E j \in Jobs : ClaimJob(j) \/ ClaimAnswerLost(j)
        \/ UNCHANGED <<coord, accepted, sent, runs>>
    BY <1>5 DEF RunLoop, ClaimUnresolved, ClaimRejected, ReturnOk, Recover, CheckForHold, WakeUp, world
  <2> QED
    BY <1>1, <2>1, CoordinatorMaps
<1>6. CASE Heartbeat \/ Restart
  BY <1>1, <1>6 DEF Heartbeat, HeartbeatClaimLost, HeartbeatCancel, Restart, world
<1>7. ASSUME NEW o \in Operators, ReadyCall(o), op[o].job \notin Jobs
      PROVE  [Contract!Next]_(Contract!vars)
  <2>1. UNCHANGED <<accepted, sent, runs, disk>>
    BY <1>7 DEF ReadyCall
  <2>2. UNCHANGED coord
    BY <1>7 DEF ReadyCall, ContractInv, Typed, TypeOK
  <2> QED
    BY <1>1, <2>1, <2>2
<1>8. CASE Operator
  <2>1. PICK o \in Operators :
            ReadyCall(o) \/ UNCHANGED <<coord, accepted, sent, runs>>
    BY <1>8 DEF Operator, ReadyRequest, RecoveryRequest, RecoverySave, world
  <2> QED
    BY <1>1, <1>7, <2>1, CoordinatorMaps
<1>9. CASE \E j \in Jobs : CoordinatorReleases(j) \/ CoordinatorReinstates(j)
  BY <1>9, CoordinatorMaps
<1> QED
  BY <1>2, <1>3, <1>4, <1>5, <1>6, <1>8, <1>9 DEF Next, Worker

(***************************************************************************)
(* HarnessWorker implements JobContract: initial states map to initial     *)
(* states and every step to a step of the contract or a stutter, for every *)
(* choice of faults, restarts and failed saves included.                   *)
(***************************************************************************)
THEOREM ContractImplemented == Spec /\ TurnTaking => ImplementsContract
<1>1. Init => Contract!Init
  <2> SUFFICES ASSUME Init PROVE Contract!Init
    OBVIOUS
  <2>1. Started = {} /\ Settled = {}
    BY DEF Init, Started, Settled, NoRecord
  <2>2. Offered = [j \in Jobs |-> NoOutcome]
    BY DEF Init, Offered
  <2> QED
    BY <2>1, <2>2 DEF Init, Contract!Init
<1>2. ContractInv /\ (ContractInv)' /\ [Next]_vars => [Contract!Next]_(Contract!vars)
  <2>1. CASE UNCHANGED vars
    BY <2>1 DEF vars, world, Contract!vars, Started, Offered, Settled
  <2> QED
    BY <2>1, StepImplements
<1> QED
  BY <1>1, <1>2, ContractInvariant, PTL DEF Spec, ImplementsContract, Contract!Spec

--------------------------------------------------------------------------------
(***************************************************************************)
(* The worker stays alive while its files and the coordinator serve it.    *)
(* It ends when no file is held as it looks for one (CheckForHold) or a    *)
(* claim is refused for good.  So wherever it gives a job up with an error *)
(* a hold must be on disk: a completion can always be prepared, for which  *)
(* a record has exactly one outcome, and one file at most is open.         *)
(***************************************************************************)

\* The condition: saves and reads work, and the coordinator knows the worker.
ServicesWork == {"save_lost", "save_unsynced", "read_error", "auth"} \cap Faults = {}

OneOutcome(r) == r.result = NoOutcome \/ r.error = NoOutcome
NoneYet(r) == r.result = NoOutcome /\ r.error = NoOutcome
HasResult(r) == r.result # NoOutcome /\ r.error = NoOutcome
SameOutcome(w, r) == w.result = r.result /\ w.error = r.error

\* What has become of the job at each control point.
OutcomeInHand ==
    /\ pc \in InHand => OneOutcome(mem)
    /\ pc \in {"create", "unsupported", "start"} => mem.status = "queued"
    /\ pc \in {"unsupported", "start"} => disk[job] = mem
    /\ pc \in Undisturbed => NoneYet(mem)
    /\ pc = "executed" => HasResult(disk[job])
    /\ pc = "settle" => HasResult(mem)
    /\ pc = "worker_error" => mem.result = NoOutcome
    /\ pc = "deliver" /\ mem.pending = NoOutcome => CanPrepareCompletion(mem)

AliveInv ==
    /\ ~run.execError /\ run.why # "exec_error"
    /\ \A j \in Jobs : OneOutcome(disk[j])
    /\ OutcomeInHand
    /\ pc = "hold_check" => \E j \in Jobs : disk[j].hold # "none"
    /\ pc # "exited"

\* Without storage faults no save fails.
LEMMA SavesSucceed == ASSUME ServicesWork, NEW rec PROVE ~SaveFails(rec)
BY DEF ServicesWork, SaveFails

\* Which edits of a record leave its outcome alone, and what the others add.
LEMMA OutcomeEdits ==
    ASSUME NEW r \in RunRecords
    PROVE  /\ \A s \in Statuses : SameOutcome([r EXCEPT !.status = s], r)
           /\ \A c \in Cleanups : SameOutcome([r EXCEPT !.cleanup = c], r)
           /\ \A p \in Plans : SameOutcome([r EXCEPT !.plan = p], r)
           /\ \A h \in Holds : SameOutcome([r EXCEPT !.hold = h], r)
           /\ \A b \in Bodies : SameOutcome([r EXCEPT !.pending = b], r)
           /\ SameOutcome([r EXCEPT !.cleanupRequired = TRUE], r)
           /\ SameOutcome(WithAcknowledgement(r), r) /\ SameOutcome(WithReleasedClaim(r), r)
           /\ \A a \in RecoveryActions : SameOutcome(RecoveryEdit(a, r), r)
           /\ \A f \in BOOLEAN : NoneYet(r) => HasResult(WithResult(r, f))
           /\ \A c \in ErrorCodes :
                WithWorkerError(r, c).result = r.result /\ WithWorkerError(r, c).error # NoOutcome
<1>1. /\ \A s \in Statuses : SameOutcome([r EXCEPT !.status = s], r)
      /\ \A c \in Cleanups : SameOutcome([r EXCEPT !.cleanup = c], r)
      /\ \A p \in Plans : SameOutcome([r EXCEPT !.plan = p], r)
      /\ \A h \in Holds : SameOutcome([r EXCEPT !.hold = h], r)
      /\ \A b \in Bodies : SameOutcome([r EXCEPT !.pending = b], r)
      /\ SameOutcome([r EXCEPT !.cleanupRequired = TRUE], r)
  BY DEF SameOutcome, RunRecords
<1>2. SameOutcome(WithAcknowledgement(r), r) /\ SameOutcome(WithReleasedClaim(r), r)
  BY DEF SameOutcome, RunRecords, WithAcknowledgement, WithReleasedClaim
<1>3. \A a \in RecoveryActions : SameOutcome(RecoveryEdit(a, r), r)
  BY DEF SameOutcome, RunRecords, RecoveryActions, RecoveryEdit
<1>4. \A f \in BOOLEAN : NoneYet(r) => HasResult(WithResult(r, f))
  BY DEF NoneYet, HasResult, WithResult, RunRecords, NoOutcome
<1>5. \A c \in ErrorCodes :
        WithWorkerError(r, c).result = r.result /\ WithWorkerError(r, c).error # NoOutcome
  BY DEF WithWorkerError, RunRecords, NoOutcome
<1> QED
  BY <1>1, <1>2, <1>3, <1>4, <1>5

\* When its saves succeed, the controller ends with a result on disk.
LEMMA ControllerAlive ==
    ASSUME ServicesWork, Typed, MarkInv, (MarkInv)', AliveInv, Controller
    PROVE  AliveInv'
<1> USE DEF Step, ControllerPcs
<1>0. /\ pc \in ControllerPcs /\ job \in Jobs /\ pc' \in ControllerPcs \cup {"executed"}
      /\ mem \in RunRecords /\ disk \in [Jobs -> RunRecords] /\ run \in RunLocals
      /\ UNCHANGED job
      /\ \A rec : ~SaveFails(rec)
      /\ "read_error" \notin Faults
  BY ControllerFrame, SavesSucceed DEF ServicesWork
<1>1. /\ NoneYet(mem) /\ ~run.execError /\ run.why # "exec_error"
      /\ pc = "start" => disk[job] = mem /\ mem.status = "queued"
      /\ \A j \in Jobs : OneOutcome(disk[j])
  BY <1>0 DEF AliveInv, OutcomeInHand, Undisturbed
<1> DEFINE started == [disk[job] EXCEPT !.status = "running"]
           planned == [mem EXCEPT !.plan = RightPlan(job)]
           marked == [mem EXCEPT !.cleanupRequired = TRUE]
           ended == WithResult(mem, run.failed)
<1>2. /\ pc = "start" => SameOutcome(started, mem)
      /\ SameOutcome(planned, mem) /\ SameOutcome(marked, mem) /\ SameOutcome(mem, mem)
      /\ \A c \in Cleanups : SameOutcome([mem EXCEPT !.cleanup = c], mem)
      /\ HasResult(ended)
  BY <1>0, <1>1, OutcomeEdits DEF Statuses, Plans, RightPlan, RunLocals, SameOutcome
<1>3. /\ disk' \in {disk, [disk EXCEPT ![job] = mem']}
      /\ run'.execError = run.execError /\ run'.why = run.why
  <2>1. disk' \in {disk, [disk EXCEPT ![job] = mem']}
    BY <1>0 DEF Controller, StartExecution, Preflight, PrepareBaseline, InstallBaseline, Mutate,
         PrepareCandidate, UpdateCandidate, GatherEvidence, BeginCleanup,
         AuthorizeCleanup, ControllerReconcile, SaveCleanup, FinishExecution,
         ExecutionSave, Saved, world
  <2>2. run'.execError = run.execError /\ run'.why = run.why
    BY <1>0 DEF Controller, StartExecution, Preflight, PrepareBaseline, InstallBaseline, Mutate,
         PrepareCandidate, UpdateCandidate, GatherEvidence, BeginCleanup, WorkflowFails,
         AuthorizeCleanup, ControllerReconcile, SaveCleanup, FinishExecution,
         ExecutionSave, RunLocals
  <2> QED
    BY <2>1, <2>2
<1>4. /\ pc' # "start"
      /\ IF pc' = "executed"
         THEN mem' = ended /\ disk' = [disk EXCEPT ![job] = ended]
         ELSE \/ pc = "start" /\ mem' = started
              \/ mem' \in {mem, planned, marked}
              \/ \E c \in Cleanups : mem' = [mem EXCEPT !.cleanup = c]
  <2>1. CASE StartExecution
    BY <1>0, <1>1, <2>1 DEF StartExecution, Saved
  <2>2. CASE FinishExecution
    BY <1>0, <2>2 DEF FinishExecution, ExecutionSave, Saved
  <2>3. CASE ~StartExecution /\ ~FinishExecution
    BY <1>0, <2>3 DEF Controller, Preflight, PrepareBaseline, InstallBaseline, Mutate,
         PrepareCandidate, UpdateCandidate, GatherEvidence, BeginCleanup, WorkflowFails,
         AuthorizeCleanup, ControllerReconcile, Reconcile, SaveCleanup, ExecutionSave, Cleanups
  <2> QED
    BY <2>1, <2>2, <2>3
<1> HIDE DEF started, planned, marked, ended
<1>5. IF pc' = "executed" THEN HasResult(mem') /\ HasResult(disk'[job]) ELSE NoneYet(mem')
  BY <1>0, <1>1, <1>2, <1>4 DEF SameOutcome, NoneYet
<1>6. \A j \in Jobs : OneOutcome(disk'[j])
  BY <1>0, <1>1, <1>3, <1>5 DEF HasResult, NoneYet, OneOutcome
<1>7. OutcomeInHand'
  BY <1>0, <1>4, <1>5 DEF OutcomeInHand, InHand, Undisturbed, NoneYet, OneOutcome
<1> QED
  BY <1>0, <1>1, <1>3, <1>6, <1>7 DEF AliveInv

\* A claim is settled with a completion that can be prepared, or with a hold.
LEMMA SettlementAlive ==
    ASSUME ServicesWork, Typed, MarkInv, AnswerInv, DecisionInv, AliveInv, Settlement
    PROVE  AliveInv'
<1> USE DEF Step, ControllerPcs, SettlePcs, InHand, Worked, Undisturbed
<1>0. /\ pc \in SettlePcs /\ job \in Jobs /\ mem \in RunRecords /\ disk[job] \in RunRecords
      /\ disk \in [Jobs -> RunRecords] /\ run \in RunLocals
      /\ UNCHANGED job
      /\ \A rec : ~SaveFails(rec)
      /\ "read_error" \notin Faults
  BY SavesSucceed DEF ServicesWork, Settlement, CreateRecord, CheckSupported, ReloadRecord, Settle,
     RecoverTarget, RecoverReconcile, RecoverSave, Recovered, SetWorkerError, ReleaseClaim, MarkHold,
     Typed, TypeOK, JobInHand
<1>1. /\ ~run.execError /\ run.why # "exec_error"
      /\ \A j \in Jobs : OneOutcome(disk[j])
      /\ pc # "executed" => OneOutcome(mem) /\ Live(mem)
  BY <1>0 DEF AliveInv, OutcomeInHand, AnswerInv, Shapes
\* The common end of the cases: the file is as before or the record in hand.
<1>2. ASSUME disk' \in {disk, [disk EXCEPT ![job] = mem']}, OneOutcome(mem'),
             run' = run \/ \E w \in Whys \ {"exec_error"} : run' = [run EXCEPT !.why = w],
             OutcomeInHand', pc' = "hold_check" => disk'[job].hold # "none", pc' # "exited"
      PROVE  AliveInv'
  <2>1. ~run'.execError /\ run'.why # "exec_error"
    BY <1>0, <1>1, <1>2 DEF RunLocals
  <2>2. \A j \in Jobs : OneOutcome(disk'[j])
    BY <1>0, <1>1, <1>2
  <2> QED
    BY <1>0, <1>2, <2>1, <2>2 DEF AliveInv
<1>3. CASE CreateRecord
  <2>1. /\ pc = "create" /\ pc' = "unsupported" /\ UNCHANGED <<mem, run>>
        /\ disk' = [disk EXCEPT ![job] = mem]
    BY <1>0, <1>3 DEF CreateRecord, Save, Saved
  <2>2. OutcomeInHand'
    BY <1>0, <2>1 DEF AliveInv, OutcomeInHand, OneOutcome, NoneYet
  <2> QED
    BY <1>0, <1>1, <1>2, <2>1, <2>2
<1>4. CASE CheckSupported
  <2>1. /\ pc = "unsupported" /\ pc' \in {"start", "worker_error"} /\ UNCHANGED <<mem, disk>>
        /\ run' = run \/ \E w \in Whys \ {"exec_error"} : run' = [run EXCEPT !.why = w]
    BY <1>4 DEF CheckSupported, Because, Whys
  <2>2. OutcomeInHand'
    BY <1>0, <2>1 DEF AliveInv, OutcomeInHand, OneOutcome, NoneYet
  <2> QED
    BY <1>0, <1>1, <1>2, <2>1, <2>2
<1>5. CASE ReloadRecord
  <2>1. /\ pc = "executed" /\ pc' = "settle" /\ mem' = disk[job] /\ UNCHANGED <<disk, run>>
    BY <1>0, <1>1, <1>5 DEF ReloadRecord
  <2>2. HasResult(mem')
    BY <2>1 DEF AliveInv, OutcomeInHand
  <2>3. OutcomeInHand'
    BY <2>1, <2>2 DEF OutcomeInHand, HasResult, OneOutcome
  <2> QED
    BY <1>0, <1>1, <1>2, <2>1, <2>3
<1>6. CASE Settle
  <2>1. /\ pc = "settle" /\ pc' \in {"recover_target", "mark_hold", "deliver"}
        /\ UNCHANGED <<mem, disk>>
        /\ run' = run \/ \E w \in Whys \ {"exec_error"} : run' = [run EXCEPT !.why = w]
    BY <1>6 DEF Settle, Because, Whys
  <2>2. CanPrepareCompletion(mem)
    BY <1>1, <2>1 DEF AliveInv, OutcomeInHand, HasResult, CanPrepareCompletion, Live
  <2>3. OutcomeInHand'
    <3>1. CanPrepareCompletion(mem')
      BY <2>1, <2>2
    <3> QED
      BY <1>1, <2>1, <3>1 DEF OutcomeInHand, OneOutcome
  <2> QED
    BY <1>0, <1>1, <1>2, <2>1, <2>3
<1>7. CASE RecoverTarget \/ RecoverReconcile \/ RecoverSave
  <2>1. /\ pc' \in {"recover_reconcile", "recover_save", "recovered", "mark_hold"}
        /\ mem' = mem \/ \E c \in Cleanups : mem' = [mem EXCEPT !.cleanup = c]
        /\ UNCHANGED run /\ pc # "executed"
        /\ disk' \in {disk, [disk EXCEPT ![job] = mem']}
    BY <1>0, <1>7 DEF RecoverTarget, RecoverReconcile, RecoverSave, Reconcile, Save, Saved, Cleanups
  <2>2. OneOutcome(mem')
    <3>1. CASE mem' = mem
      BY <1>1, <2>1, <3>1
    <3>2. ASSUME NEW c \in Cleanups, mem' = [mem EXCEPT !.cleanup = c] PROVE OneOutcome(mem')
      <4>1. SameOutcome(mem', mem)
        BY <1>0, <3>2, OutcomeEdits
      <4> QED
        BY <1>1, <2>1, <4>1 DEF SameOutcome, OneOutcome
    <3> QED
      BY <2>1, <3>1, <3>2
  <2>3. OutcomeInHand'
    BY <2>1, <2>2 DEF OutcomeInHand
  <2> QED
    BY <1>2, <2>1, <2>2, <2>3
<1>8. CASE Recovered
  <2>1. /\ pc = "recovered" /\ pc' \in {"release", "mark_hold", "worker_error"}
        /\ UNCHANGED <<mem, run, disk>>
        /\ pc' = "worker_error" => run.why = "interrupted"
    BY <1>1, <1>8 DEF Recovered
  <2>2. pc' = "worker_error" => mem.result = NoOutcome
    BY <2>1 DEF DecisionInv, UndecidedUntilDelivery, Recovering
  <2>3. OutcomeInHand'
    BY <1>1, <2>1, <2>2 DEF OutcomeInHand, OneOutcome
  <2> QED
    BY <1>0, <1>1, <1>2, <2>1, <2>3
<1>9. CASE SetWorkerError
  <2> DEFINE rec == WithWorkerError(mem, WorkerErrorCode)
  <2>1. /\ pc = "worker_error" /\ pc' = "deliver" /\ mem' = rec
        /\ disk' = [disk EXCEPT ![job] = rec] /\ UNCHANGED run
    BY <1>0, <1>1, <1>9 DEF SetWorkerError, SaveMem, Save, Saved
  <2>2. WorkerErrorCode \in ErrorCodes
    BY <2>1 DEF Typed, CauseKnown, WorkerErrorCode, ErrorCodes
  <2>3. mem.result = NoOutcome
    BY <2>1 DEF AliveInv, OutcomeInHand
  <2>4. rec.result = NoOutcome /\ rec.error # NoOutcome /\ rec.token
    <3>1. rec.result = mem.result /\ rec.error # NoOutcome
      BY <1>0, <2>2, OutcomeEdits
    <3>2. rec.token = mem.token
      BY <1>0, <2>2, ClaimEdits DEF SameClaim
    <3> QED
      BY <1>1, <2>1, <2>3, <3>1, <3>2 DEF Live
  <2>5. CanPrepareCompletion(mem') /\ OneOutcome(mem')
    BY <2>1, <2>4 DEF CanPrepareCompletion, OneOutcome
  <2>6. OutcomeInHand'
    BY <2>1, <2>5 DEF OutcomeInHand
  <2> QED
    BY <1>2, <2>1, <2>5, <2>6
<1>10. CASE ReleaseClaim
  <2>1. /\ pc = "release" /\ pc' = "return_ok" /\ mem' = WithReleasedClaim(mem)
        /\ disk' = [disk EXCEPT ![job] = mem'] /\ UNCHANGED run
    BY <1>0, <1>10 DEF ReleaseClaim, SaveMem, Save, Saved
  <2>2. OneOutcome(mem')
    BY <1>0, <1>1, <2>1, OutcomeEdits DEF SameOutcome, OneOutcome
  <2>3. OutcomeInHand'
    BY <2>1 DEF OutcomeInHand
  <2> QED
    BY <1>2, <2>1, <2>2, <2>3
<1>11. CASE MarkHold
  <2>1. /\ pc = "mark_hold" /\ pc' = "hold_check"
        /\ \E h \in Holds \ {"none"} : mem' = [mem EXCEPT !.hold = h]
        /\ disk' = [disk EXCEPT ![job] = mem'] /\ UNCHANGED run
    BY <1>0, <1>11 DEF MarkHold, SaveMem, Save, Saved, Holds
  <2>2. OneOutcome(mem')
    BY <1>0, <1>1, <2>1, OutcomeEdits DEF SameOutcome, OneOutcome
  <2>3. disk'[job].hold # "none"
    BY <1>0, <2>1 DEF RunRecords
  <2>4. OutcomeInHand'
    BY <2>1 DEF OutcomeInHand
  <2> QED
    BY <1>2, <2>1, <2>2, <2>3, <2>4
<1> QED
  BY <1>3, <1>4, <1>5, <1>6, <1>7, <1>8, <1>9, <1>10, <1>11 DEF Settlement

\* A delivery ends with an acknowledgement or a conflict to be held.
LEMMA DeliveryAlive ==
    ASSUME ServicesWork, Typed, MarkInv, AnswerInv, AliveInv, Delivery
    PROVE  AliveInv'
<1> USE DEF Step, ControllerPcs, SettlePcs, InHand, Worked, Undisturbed
<1>0. /\ pc \in {"deliver", "send", "ack"} /\ job \in Jobs /\ mem \in RunRecords
      /\ disk \in [Jobs -> RunRecords] /\ run \in RunLocals
      /\ \A rec : ~SaveFails(rec)
      /\ "auth" \notin Faults
  BY SavesSucceed DEF ServicesWork, Delivery, PrepareCompletion, SendAcknowledged, SendAnswerLost,
     SendConflict, SendRejected, PersistAcknowledgement, Typed, TypeOK, JobInHand
<1>1. /\ ~run.execError /\ run.why # "exec_error" /\ OneOutcome(mem)
      /\ \A j \in Jobs : OneOutcome(disk[j])
      /\ pc = "deliver" /\ mem.pending = NoOutcome => CanPrepareCompletion(mem)
  BY <1>0 DEF AliveInv, OutcomeInHand
<1>2. /\ pc' \in {"return_ok", "send", "ack", "mark_hold"}
      /\ \/ mem' = mem
         \/ CanPrepareCompletion(mem) /\ mem' = [mem EXCEPT !.pending = CompletionBody(mem)]
         \/ mem' = WithAcknowledgement(mem)
      /\ disk' \in {disk, [disk EXCEPT ![job] = mem']}
      /\ run' = run \/ run' = [run EXCEPT !.why = "completion_conflict"]
  <2>1. CASE PrepareCompletion \/ PersistAcknowledgement
    BY <1>0, <1>1, <2>1 DEF PrepareCompletion, PersistAcknowledgement, SaveMem, Save, Saved
  <2>2. CASE SendAcknowledged \/ SendAnswerLost \/ SendConflict
    BY <2>2 DEF SendAcknowledged, SendAnswerLost, SendConflict, Because, local
  <2>3. ~SendRejected
    BY <1>0 DEF SendRejected
  <2> QED
    BY <2>1, <2>2, <2>3 DEF Delivery
<1>3. OneOutcome(mem')
  <2>1. ASSUME CanPrepareCompletion(mem), mem' = [mem EXCEPT !.pending = CompletionBody(mem)]
        PROVE  SameOutcome(mem', mem)
    <3>1. CompletionBody(mem) \in Bodies
      BY <1>0, <2>1, CompletionBodyType
    <3> QED
      BY <1>0, <2>1, <3>1, OutcomeEdits
  <2>2. ASSUME mem' = WithAcknowledgement(mem) PROVE SameOutcome(mem', mem)
    BY <1>0, <2>2, OutcomeEdits
  <2> QED
    BY <1>1, <1>2, <2>1, <2>2 DEF SameOutcome, OneOutcome
<1>4. ~run'.execError /\ run'.why # "exec_error"
  BY <1>0, <1>1, <1>2 DEF RunLocals
<1>5. \A j \in Jobs : OneOutcome(disk'[j])
  BY <1>0, <1>1, <1>2, <1>3
<1>6. OutcomeInHand'
  BY <1>2, <1>3 DEF OutcomeInHand
<1> QED
  BY <1>2, <1>4, <1>5, <1>6 DEF AliveInv

\* Recovery has one file to decide about, and finds a hold where it looks for
\* one.
LEMMA RunLoopAlive ==
    ASSUME ServicesWork, Typed, MarkInv, AnswerInv, TurnsInv, AliveInv, RunLoop
    PROVE  AliveInv'
<1> USE DEF Step, ControllerPcs, SettlePcs, InHand, Worked, Undisturbed
<1>0. /\ disk \in [Jobs -> RunRecords] /\ UNCHANGED disk
      /\ \A j \in Jobs : OneOutcome(disk[j])
      /\ ~run.execError /\ run.why # "exec_error"
      /\ {"read_error", "auth"} \cap Faults = {}
  BY DEF ServicesWork, RunLoop, ClaimJob, ClaimAnswerLost, ClaimUnresolved, ClaimRejected, ReturnOk,
     Recover, CheckForHold, WakeUp, Typed, TypeOK, AliveInv
<1>1. ~NoRun.execError /\ NoRun.why # "exec_error"
  BY DEF NoRun
<1>2. CASE /\ pc' \in {"claim", "recover", "op_wait", "coord_wait"}
           /\ run' \in {run, NoRun}
  <2>1. OutcomeInHand'
    BY <1>2 DEF OutcomeInHand
  <2> QED
    BY <1>0, <1>1, <1>2, <2>1 DEF AliveInv
<1>3. ASSUME NEW j \in Jobs, ClaimJob(j) PROVE AliveInv'
  <2>1. /\ pc' = "create" /\ mem' = Claimed /\ UNCHANGED run
    BY <1>3 DEF ClaimJob
  <2>2. Claimed.status = "queued" /\ NoneYet(Claimed)
    BY DEF Claimed, NoRecord, NoneYet
  <2>3. OutcomeInHand'
    BY <2>1, <2>2 DEF OutcomeInHand, NoneYet, OneOutcome
  <2> QED
    BY <1>0, <2>1, <2>3 DEF AliveInv
<1>4. ASSUME NEW j \in Jobs, ClaimAnswerLost(j) PROVE AliveInv'
  BY <1>2, <1>4 DEF ClaimAnswerLost, local
<1>5. CASE ClaimUnresolved \/ ReturnOk \/ WakeUp
  BY <1>2, <1>5 DEF ClaimUnresolved, ReturnOk, WakeUp, ForgetJob
<1>6. ~ClaimRejected
  BY <1>0 DEF ClaimRejected
<1>7. CASE CheckForHold
  <2>1. \E j \in Jobs : disk[j].hold # "none"
    BY <1>7 DEF CheckForHold, AliveInv
  <2>2. pc' = "op_wait" /\ run' = NoRun
    BY <1>0, <1>7, <2>1 DEF CheckForHold, ForgetJob
  <2> QED
    BY <1>2, <2>2
<1>8. ASSUME NEW j \in Unresolved, RecoverWith(j) PROVE AliveInv'
  <2>1. j \in Jobs /\ job' = j /\ disk[j] \in RunRecords /\ OneOutcome(disk[j]) /\ Live(disk[j])
    <3>1. j \in Jobs /\ RequiresWorkerAttention(disk[j]) /\ job' = j
      BY <1>8 DEF Unresolved, RecoverWith
    <3> QED
      BY <1>0, <3>1, ShapeFacts DEF AnswerInv, Shapes
  <2>2. CASE pc' = "hold_check"
    <3>1. disk[j].hold # "none" /\ run' = NoRun
      BY <1>8, <2>2 DEF RecoverWith
    <3>2. OutcomeInHand'
      BY <2>2 DEF OutcomeInHand
    <3> QED
      BY <1>0, <1>1, <2>1, <2>2, <3>1, <3>2 DEF AliveInv
  <2>3. CASE pc' # "hold_check" /\ HasCompletion(disk[j])
    <3>1. pc' = "deliver" /\ mem' = disk[j] /\ run' = NoRun
      BY <1>8, <2>3 DEF RecoverWith
    <3>2. mem'.pending = NoOutcome => CanPrepareCompletion(mem')
      BY <2>1, <2>3, <3>1 DEF HasCompletion, OneOutcome, Live, CanPrepareCompletion
    <3>3. OutcomeInHand'
      BY <2>1, <3>1, <3>2 DEF OutcomeInHand
    <3> QED
      BY <1>0, <1>1, <3>1, <3>3 DEF AliveInv
  <2>4. CASE pc' # "hold_check" /\ ~HasCompletion(disk[j])
    <3>1. /\ pc' = "recover_target" /\ mem' = [disk[j] EXCEPT !.status = "interrupted"]
          /\ run' = [NoRun EXCEPT !.why = "interrupted"]
      BY <1>8, <2>4 DEF RecoverWith
    <3>2. OneOutcome(mem')
      BY <2>1, <3>1, OutcomeEdits DEF Statuses, SameOutcome, OneOutcome
    <3>3. OutcomeInHand'
      BY <3>1, <3>2 DEF OutcomeInHand
    <3>4. ~run'.execError /\ run'.why # "exec_error"
      BY <3>1 DEF NoRun
    <3> QED
      BY <1>0, <3>1, <3>3, <3>4 DEF AliveInv
  <2> QED
    BY <2>2, <2>3, <2>4
<1>9. CASE Recover
  <2>1. ~(Cardinality(Unresolved) > 1)
    <3>1. CASE Unresolved = {}
      BY <3>1, FS_EmptySet
    <3>2. CASE Unresolved # {}
      <4>1. PICK j : Unresolved = {j}
        BY <3>2 DEF TurnsInv, OneOpen
      <4> QED
        BY <4>1, FS_Singleton
    <3> QED
      BY <3>1, <3>2
  <2> QED
    BY <1>0, <1>2, <1>8, <1>9, <2>1 DEF Recover
<1> QED
  BY <1>3, <1>4, <1>5, <1>6, <1>7, <1>9 DEF RunLoop

\* An operator edits files while the worker waits, and no outcome in them.
LEMMA OthersAlive ==
    ASSUME Typed, MarkInv, Turns, AliveInv,
           \/ Heartbeat \/ Operator \/ Restart
           \/ \E j \in Jobs : CoordinatorReleases(j) \/ CoordinatorReinstates(j)
    PROVE  AliveInv'
<1> USE DEF ControllerPcs, SettlePcs, InHand, Worked, Undisturbed
<1>0. /\ disk \in [Jobs -> RunRecords] /\ op \in [Operators -> Requests]
      /\ \A j \in Jobs : OneOutcome(disk[j])
      /\ ~run.execError /\ run.why # "exec_error"
  BY DEF Typed, TypeOK, AliveInv
<1>1. ASSUME NEW o \in Operators, RecoverySave(o) PROVE AliveInv'
  <2> DEFINE rec == RecoveryEdit(op[o].action, op[o].snap)
  <2>1. /\ Recovery(o) /\ pc = "op_wait" /\ UNCHANGED <<pc, run>> /\ op[o].job \in Jobs
        /\ op[o].snap = disk[op[o].job]
        /\ disk' \in {disk, [disk EXCEPT ![op[o].job] = rec]}
    BY <1>1 DEF RecoverySave, Recovery, Turns, local, MarkInv, RequestsCurrent
  <2>2. OneOutcome(rec)
    <3>1. SameOutcome(rec, op[o].snap)
      BY <1>0, <2>1, OutcomeEdits DEF Recovery
    <3> QED
      BY <1>0, <2>1, <3>1 DEF SameOutcome, OneOutcome
  <2>3. \A j \in Jobs : OneOutcome(disk'[j])
    BY <1>0, <2>1, <2>2
  <2>4. OutcomeInHand'
    BY <2>1 DEF OutcomeInHand
  <2> QED
    BY <1>0, <2>1, <2>3, <2>4 DEF AliveInv
<1>2. CASE Restart
  <2>1. pc' = "recover" /\ run' = NoRun /\ UNCHANGED disk
    BY <1>2 DEF Restart, ForgetJob
  <2>2. OutcomeInHand'
    BY <2>1 DEF OutcomeInHand
  <2> QED
    BY <1>0, <2>1, <2>2 DEF AliveInv, NoRun
<1>3. CASE UNCHANGED <<pc, job, mem, run, disk>>
  <2>1. OutcomeInHand'
    BY <1>3 DEF AliveInv, OutcomeInHand, CanPrepareCompletion
  <2> QED
    BY <1>3, <2>1 DEF AliveInv
<1>4. CASE \/ Heartbeat
           \/ \E j \in Jobs : CoordinatorReleases(j) \/ CoordinatorReinstates(j)
  BY <1>3, <1>4 DEF Heartbeat, HeartbeatClaimLost, HeartbeatCancel, CoordinatorReleases,
     CoordinatorReinstates, local
<1>5. ASSUME NEW o \in Operators, ~RecoverySave(o),
             \/ \E j \in Jobs : ReadyRequest(o, j) \/ \E a \in RecoveryActions : RecoveryRequest(o, a, j)
             \/ ReadyCall(o)
      PROVE  AliveInv'
  BY <1>3, <1>5 DEF ReadyRequest, RecoveryRequest, ReadyCall, local
<1> QED
  BY <1>1, <1>2, <1>4, <1>5 DEF Operator

(***************************************************************************)
(* Where saves and reads work and the coordinator knows the worker, the    *)
(* task ends only in a behaviour in which an operator's request came out   *)
(* of turn.  While requests take turns it settles the job it has or waits  *)
(* for the operator with a hold on disk, whatever the workflow, the        *)
(* cleanup, the connection, restarts and the coordinator do.  A request    *)
(* out of turn can end it: the hold is saved, cleared by the operator, and *)
(* then looked for (wait_for_operator_recovery).                           *)
(***************************************************************************)
THEOREM StaysAlive ==
    ASSUME ServicesWork
    PROVE  Spec /\ TurnTaking => []WorkerStaysAlive
<1>1. Init => AliveInv
  BY DEF Init, AliveInv, OutcomeInHand, OneOutcome, NoRecord, NoRun, InHand, Worked, Undisturbed,
     ControllerPcs, SettlePcs
<1>2. /\ Typed /\ MarkInv /\ (MarkInv)' /\ AnswerInv /\ DecisionInv /\ TurnsInv /\ AliveInv
      /\ [Next]_vars
      => AliveInv'
  <2>1. CASE UNCHANGED vars
    BY <2>1 DEF AliveInv, OutcomeInHand, CanPrepareCompletion, vars, local
  <2> QED
    BY <2>1, ControllerAlive, SettlementAlive, DeliveryAlive, RunLoopAlive, OthersAlive
    DEF Next, Worker, TurnsInv
<1>3. AliveInv => WorkerStaysAlive
  BY DEF AliveInv, WorkerStaysAlive
<1> QED
  BY <1>1, <1>2, <1>3, ContractInvariant, PTL DEF Spec, ContractInv
================================================================================
