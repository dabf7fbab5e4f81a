------------------------ MODULE TargetMutationsProofs ------------------------
(***************************************************************************)
(* Theorems about TargetMutations, for every number of attempts and        *)
(* restarts.  The argument is about which mutation Dappmanager can still   *)
(* be working on at each step of the run: a mutation whose answer is being *)
(* waited for is the running one, and during the baseline steps nothing    *)
(* but those two steps can be running.                                     *)
(***************************************************************************)
EXTENDS TargetMutations, TLAPS

(***************************************************************************)
(* There is a first sample, and the intervals before the last one fit into *)
(* the timeout, with less than one of them to spare (cleanup_target).      *)
(***************************************************************************)
LEMMA SamplesFit ==
    /\ RemovalSamples \in Nat \ {0}
    /\ RemovalSamples # RemovalCap => CleanupTimeout - (RemovalSamples - 1) * RemovalPoll < RemovalPoll
  <1> DEFINE Q == CleanupTimeout \div RemovalPoll
  <1>1. Q \in Nat /\ CleanupTimeout < (Q + 1) * RemovalPoll
    BY MutationsAssumption, Z3 DEF MutationsAssumption
  <1>2. RemovalSamples \in Nat \ {0}
    BY <1>1, MutationsAssumption DEF MutationsAssumption, RemovalSamples, Least
  <1>3. ASSUME RemovalSamples # RemovalCap
        PROVE  CleanupTimeout - (RemovalSamples - 1) * RemovalPoll < RemovalPoll
    <2>1. RemovalSamples = Q + 1
      BY <1>3 DEF RemovalSamples, Least
    <2> HIDE DEF Q
    <2>2. (Q + 1) * RemovalPoll = Q * RemovalPoll + RemovalPoll
      BY <1>1, MutationsAssumption DEF MutationsAssumption
    <2>3. Q * RemovalPoll \in Nat
      BY <1>1, MutationsAssumption DEF MutationsAssumption
    <2>4. RemovalSamples - 1 = Q
      BY <2>1, <1>1
    <2> QED
      BY <1>1, <2>2, <2>3, <2>4, MutationsAssumption DEF MutationsAssumption
  <1> QED
    BY <1>2, <1>3

\* The answer retry_mutation waits for is that of the running mutation.
SentIsRunning == call = "sent" => running = step /\ step \in Mutations

\* While the old version is removed.
RemovingInitial ==
    step = "base_remove" => running \in {"none", "base_remove"} /\ target # "baseline"

\* While the baseline is installed; a repeated removal may still be running.
InstallingBaseline ==
    step = "base_install" =>
        /\ running \in {"none", "base_install", "base_remove"}
        /\ running = "base_remove" => target # "baseline"
        /\ call = "ok" => target = "baseline" /\ running # "base_remove"

IInv ==
    /\ TypeOK
    /\ SentIsRunning
    /\ RemovingInitial
    /\ InstallingBaseline
    /\ UpgradeStartsFromBaseline

LEMMA InitIInv == Init => IInv
  <1> SUFFICES ASSUME Init PROVE IInv
    OBVIOUS
  <1> USE DEF Init
  <1>1. attempt \in 1 .. MutationAttempts /\ restarts \in 0 .. MaxRestarts
    BY MutationsAssumption DEF MutationsAssumption
  <1>1a. sample \in 0 .. RemovalSamples - 1 /\ left \in 0 .. CleanupTimeout
    BY SamplesFit, MutationsAssumption DEF MutationsAssumption
  <1>2. TypeOK
    BY <1>1, <1>1a DEF TypeOK, Steps, Mutations, Calls, Builds
  <1>3. SentIsRunning /\ RemovingInitial /\ InstallingBaseline
    BY DEF SentIsRunning, RemovingInitial, InstallingBaseline
  <1>4. UpgradeStartsFromBaseline
    BY DEF UpgradeStartsFromBaseline
  <1> QED
    BY <1>2, <1>3, <1>4 DEF IInv

LEMMA TypeStep == TypeOK /\ [Next]_vars => TypeOK'
  <1> SUFFICES ASSUME TypeOK, [Next]_vars PROVE TypeOK'
    OBVIOUS
  <1> USE MutationsAssumption, SamplesFit
      DEF MutationsAssumption, TypeOK, Steps, Mutations, Calls, Builds, removal
  <1>1. CASE MutationDone
    BY <1>1 DEF MutationDone, Wanted
  <1>2. CASE MutationFails
    BY <1>2 DEF MutationFails
  <1>3. CASE SendMutation
    BY <1>3 DEF SendMutation, Unfinished
  <1>4. CASE AnswerTimesOut \/ ConnectionLost \/ AwaitInProgress
    BY <1>4 DEF AnswerTimesOut, ConnectionLost, AwaitInProgress, nodeVars
  <1>5. CASE RetryTransient
    <2>1. attempt' \in 1 .. MutationAttempts
      BY <1>5 DEF RetryTransient
    <2>2. call' \in Calls
      BY <1>5 DEF RetryTransient
    <2>3. UNCHANGED <<initial, step, bypassed, outcome, restarts, removal, nodeVars>>
      BY <1>5 DEF RetryTransient
    <2> QED
      BY <2>1, <2>2, <2>3 DEF nodeVars
  <1>6. CASE BaselineRemoved
    BY <1>6 DEF BaselineRemoved, AtStep, nodeVars
  <1>6a. CASE BaselineInstalled
    <2>1. /\ step' \in Steps /\ call' \in Calls /\ attempt' \in 1 .. MutationAttempts
          /\ sample' = 0 /\ left' = CleanupTimeout
      BY <1>6a DEF BaselineInstalled, AtStep
    <2>2. bypassed' \in BOOLEAN
      BY <1>6a, Zenon DEF BaselineInstalled
    <2>3. UNCHANGED <<initial, outcome, restarts, nodeVars>>
      BY <1>6a DEF BaselineInstalled
    <2> QED
      BY <2>1, <2>2, <2>3 DEF nodeVars
  <1>7. CASE StopBeforeUpdate \/ CandidateInstalled \/ EvidenceGathered
    BY <1>7 DEF StopBeforeUpdate, CandidateInstalled, EvidenceGathered, AtStep, nodeVars
  <1>8. CASE TargetRemoved \/ LatestInstalled
    BY <1>8 DEF TargetRemoved, LatestInstalled, CleanupFails, AtStep, nodeVars
  <1>9. CASE VerifyRestored
    BY <1>9 DEF VerifyRestored, CleanupFails, AtStep, nodeVars
  <1>9a. CASE VerifyRemoved
    <2>1. sample' \in 0 .. RemovalSamples - 1
      BY <1>9a DEF VerifyRemoved, EndWait
    <2>2. left' \in 0 .. CleanupTimeout
      BY <1>9a DEF VerifyRemoved, EndWait, Least
    <2>3. step' \in Steps /\ outcome' \in {"pending", "passed", "failed", "timed_out"}
      BY <1>9a DEF VerifyRemoved, EndWait
    <2> QED
      BY <1>9a, <2>1, <2>2, <2>3 DEF VerifyRemoved, nodeVars
  <1>10. CASE VerifyInventory
    BY <1>10 DEF VerifyInventory, nodeVars
  <1>11. CASE Restart
    BY <1>11 DEF Restart, AtStep, nodeVars
  <1>12. CASE UNCHANGED vars
    BY <1>12 DEF vars, harness, nodeVars
  <1> QED
    BY <1>1, <1>2, <1>3, <1>4, <1>5, <1>6, <1>6a, <1>7, <1>8, <1>9, <1>9a, <1>10,
       <1>11, <1>12 DEF Next, Dappmanager, Adapter, Workflow

LEMMA IInvStep == IInv /\ [Next]_vars => IInv'
  <1> SUFFICES ASSUME IInv, [Next]_vars PROVE IInv'
    OBVIOUS
  <1>0. TypeOK'
    BY TypeStep DEF IInv
  <1> DEFINE Rest == SentIsRunning /\ RemovingInitial /\ InstallingBaseline
                        /\ UpgradeStartsFromBaseline
  <1> SUFFICES Rest'
    BY <1>0 DEF IInv
  <1> USE MutationsAssumption
      DEF MutationsAssumption, IInv, TypeOK, SentIsRunning, RemovingInitial, InstallingBaseline,
          UpgradeStartsFromBaseline, Steps, Mutations, Calls, Builds
  <1>1. CASE MutationDone
    BY <1>1 DEF MutationDone, Wanted
  <1>2. CASE MutationFails
    BY <1>2 DEF MutationFails
  <1>3. CASE SendMutation
    BY <1>3 DEF SendMutation, Unfinished
  <1>4. CASE AnswerTimesOut \/ ConnectionLost
    BY <1>4 DEF AnswerTimesOut, ConnectionLost, nodeVars
  <1>5. CASE AwaitInProgress
    BY <1>5 DEF AwaitInProgress, Reached, Wanted, nodeVars
  <1>6. CASE RetryTransient
    BY <1>6 DEF RetryTransient, Reached, Wanted, nodeVars
  <1>7. CASE BaselineRemoved
    BY <1>7 DEF BaselineRemoved, AtStep, nodeVars
  <1>8. CASE BaselineInstalled
    BY <1>8 DEF BaselineInstalled, AtStep, Failed, nodeVars
  <1>9. CASE StopBeforeUpdate \/ CandidateInstalled \/ EvidenceGathered
    BY <1>9 DEF StopBeforeUpdate, CandidateInstalled, EvidenceGathered, AtStep, nodeVars
  <1>10. CASE TargetRemoved \/ LatestInstalled
    BY <1>10 DEF TargetRemoved, LatestInstalled, CleanupFails, AtStep, nodeVars
  <1>11. CASE VerifyRestored \/ VerifyRemoved \/ VerifyInventory
    BY <1>11 DEF VerifyRestored, VerifyRemoved, EndWait, VerifyInventory, CleanupFails, AtStep,
                 nodeVars
  <1>12. CASE Restart
    BY <1>12 DEF Restart, AtStep, nodeVars
  <1>13. CASE UNCHANGED vars
    BY <1>13 DEF vars, harness, nodeVars
  <1> QED
    BY <1>1, <1>2, <1>3, <1>4, <1>5, <1>6, <1>7, <1>8, <1>9, <1>10, <1>11, <1>12,
       <1>13 DEF Next, Dappmanager, Adapter, Workflow

LEMMA IInvHolds == Spec => []IInv
  BY InitIInv, IInvStep, PTL DEF Spec

\* Every variable stays in its range, whatever Dappmanager answers.
THEOREM TypesHold == Spec => []TypeOK
  <1>1. IInv => TypeOK
    BY DEF IInv
  <1> QED
    BY IInvHolds, <1>1, PTL

(***************************************************************************)
(* The candidate is only applied to the requested baseline, with no other  *)
(* mutation of the run under way (run_algorithm with retry_mutation).      *)
(***************************************************************************)
THEOREM BaselineBeforeUpgrade == Spec => []UpgradeStartsFromBaseline
  <1>1. IInv => UpgradeStartsFromBaseline
    BY DEF IInv
  <1> QED
    BY IInvHolds, <1>1, PTL

(***************************************************************************)
(* A mutation is reported as done only in a state that shows its effect    *)
(* (retry_mutation, await_in_progress, installed_as_requested).            *)
(***************************************************************************)
THEOREM SuccessWasObserved == Spec => SuccessIsObserved
  <1> DEFINE Observed == (call # "ok" /\ call' = "ok") => target' = Wanted(step)
  <1>1. ASSUME IInv, [Next]_vars PROVE [Observed]_vars
    <2> USE <1>1 DEF IInv, SentIsRunning
    <2> SUFFICES ASSUME call # "ok", call' = "ok" PROVE target' = Wanted(step)
      OBVIOUS
    <2>1. CASE MutationDone
      BY <2>1 DEF MutationDone
    <2>2. CASE AwaitInProgress \/ RetryTransient
      BY <2>2 DEF AwaitInProgress, RetryTransient, Reached, nodeVars
    <2>3. CASE ~(MutationDone \/ AwaitInProgress \/ RetryTransient)
      BY <2>3 DEF Next, Dappmanager, Adapter, Workflow, MutationFails, SendMutation,
                  AnswerTimesOut, ConnectionLost, BaselineRemoved, BaselineInstalled,
                  StopBeforeUpdate, CandidateInstalled, EvidenceGathered, TargetRemoved,
                  LatestInstalled, VerifyRestored, VerifyRemoved, VerifyInventory, Restart,
                  CleanupFails, AtStep, vars, harness
    <2> QED
      BY <2>1, <2>2, <2>3
  <1> QED
    BY IInvHolds, <1>1, PTL DEF Spec, SuccessIsObserved

--------------------------------------------------------------------------------
(***************************************************************************)
(* What a passed cleanup was based on: once the latest release was seen in *)
(* the restoring step, nothing but a second copy of its install can be     *)
(* running, so the target stays what the plan wants.                       *)
(***************************************************************************)
Reinstalled ==
    \/ step = "clean_install" /\ call = "ok"
    \/ step = "verify"
    \/ step = "inventory" /\ outcome = "passed"

RestoredKept ==
    /\ ((step = "clean_install" \/ (step = "clean_remove" /\ call = "ok")) /\ target = "latest")
            => running \in {"none", "clean_install"}
    /\ (initial # "none" /\ Reinstalled)
            => target = "latest" /\ running \in {"none", "clean_install"}

LEMMA RestoredKeptStep == IInv /\ RestoredKept /\ [Next]_vars => RestoredKept'
  <1> SUFFICES ASSUME IInv, RestoredKept, [Next]_vars PROVE RestoredKept'
    OBVIOUS
  <1> USE DEF IInv, SentIsRunning, RestoredKept, Reinstalled
  <1>1. CASE MutationDone
    BY <1>1 DEF MutationDone, Wanted, Mutations
  <1>2. CASE MutationFails
    BY <1>2 DEF MutationFails
  <1>3. CASE SendMutation
    BY <1>3 DEF SendMutation, Unfinished, Mutations
  <1>4. CASE AnswerTimesOut \/ ConnectionLost
    BY <1>4 DEF AnswerTimesOut, ConnectionLost, nodeVars
  <1>5. CASE RetryTransient \/ AwaitInProgress
    BY <1>5 DEF RetryTransient, AwaitInProgress, Reached, Wanted, nodeVars
  <1>6. CASE BaselineRemoved \/ BaselineInstalled
    BY <1>6 DEF BaselineRemoved, BaselineInstalled, AtStep, nodeVars
  <1>7. CASE StopBeforeUpdate \/ CandidateInstalled \/ EvidenceGathered
    BY <1>7 DEF StopBeforeUpdate, CandidateInstalled, EvidenceGathered, AtStep, nodeVars
  <1>8. CASE TargetRemoved
    BY <1>8 DEF TargetRemoved, Removed, CleanupFails, AtStep, nodeVars
  <1>9. CASE LatestInstalled
    BY <1>9 DEF LatestInstalled, CleanupFails, AtStep, nodeVars
  <1>10. CASE VerifyRestored
    BY <1>10 DEF VerifyRestored, CleanupFails, AtStep, nodeVars
  <1>11. CASE VerifyRemoved
    BY <1>11 DEF VerifyRemoved, EndWait, nodeVars
  <1>12. CASE VerifyInventory
    BY <1>12 DEF VerifyInventory, nodeVars
  <1>13. CASE Restart
    BY <1>13 DEF Restart, AtStep, nodeVars
  <1>14. CASE UNCHANGED vars
    BY <1>14 DEF vars, harness, nodeVars
  <1> QED
    BY <1>1, <1>2, <1>3, <1>4, <1>5, <1>6, <1>7, <1>8, <1>9, <1>10, <1>11, <1>12, <1>13,
       <1>14 DEF Next, Dappmanager, Adapter, Workflow

LEMMA RestoredKeptHolds == Spec => []RestoredKept
  <1>1. Init => RestoredKept
    BY DEF Init, RestoredKept, Reinstalled
  <1> QED
    BY <1>1, RestoredKeptStep, IInvHolds, PTL DEF Spec

(***************************************************************************)
(* A cleanup is recorded as passed only on a node that shows exactly what  *)
(* the plan wants, although mutations of the run whose answers were lost   *)
(* may have completed at any time (reconcile_target).                      *)
(***************************************************************************)
THEOREM PassedVerified == Spec => PassedWasVerified
  <1> DEFINE Verified == (step = "inventory" /\ step' = "done" /\ outcome' = "passed")
                            => target = Planned /\ ~extras
  <1>1. ASSUME IInv, RestoredKept, [Next]_vars PROVE [Verified]_vars
    <2> SUFFICES ASSUME step = "inventory", step' = "done", outcome' = "passed"
                 PROVE  target = Planned /\ ~extras
      OBVIOUS
    <2>1. VerifyInventory
      BY <1>1 DEF Next, Dappmanager, Adapter, Workflow, MutationDone, MutationFails, SendMutation,
                  AnswerTimesOut, ConnectionLost, RetryTransient, AwaitInProgress,
                  BaselineRemoved, BaselineInstalled, StopBeforeUpdate, CandidateInstalled,
                  EvidenceGathered, TargetRemoved, LatestInstalled, VerifyRestored,
                  VerifyRemoved, EndWait, Restart, CleanupFails, AtStep, vars, harness
    <2>2. ~Leftover /\ outcome = "passed"
      BY <2>1 DEF VerifyInventory
    <2> QED
      BY <1>1, <2>2 DEF Leftover, Planned, RestoredKept, Reinstalled
  <1> QED
    BY <1>1, IInvHolds, RestoredKeptHolds, PTL DEF Spec, PassedWasVerified

--------------------------------------------------------------------------------
\* Each sample that is not the first was preceded by a whole poll interval,
\* or the time is used up.
RemovalClock == left = 0 \/ sample * RemovalPoll + left <= CleanupTimeout

LEMMA RemovalClockStep == TypeOK /\ RemovalClock /\ [Next]_vars => RemovalClock'
  <1> SUFFICES ASSUME TypeOK, RemovalClock, [Next]_vars PROVE RemovalClock'
    OBVIOUS
  <1> USE MutationsAssumption DEF MutationsAssumption, RemovalClock
  <1>1. sample \in Nat /\ left \in Nat /\ sample * RemovalPoll \in Nat
    BY SamplesFit DEF TypeOK
  <1>2. CASE VerifyRemoved
    <2>1. CASE \E rest \in 0 .. left : UNCHANGED sample /\ left' = rest
      BY <1>1, <2>1
    <2>2. CASE sample' = sample + 1
      <3>0. PICK time \in 0 .. left - 1 :
                \E nap \in Least(RemovalPoll, left - time) .. left - time :
                    left' = left - time - nap
        BY <1>1, <1>2, <2>2 DEF VerifyRemoved, EndWait
      <3>1. PICK nap \in Least(RemovalPoll, left - time) .. left - time :
                left' = left - time - nap
        BY <3>0
      <3>1a. nap >= left - time \/ nap >= RemovalPoll
        BY <1>1, <3>0, <3>1 DEF Least
      <3>1b. nap \in Int /\ nap <= left - time
        BY <1>1, <3>0, <3>1 DEF Least
      <3>2. sample' * RemovalPoll = sample * RemovalPoll + RemovalPoll
        BY <1>1, <2>2
      <3> QED
        BY <1>1, <3>1, <3>1a, <3>1b, <3>2
    <2>3. (\E rest \in 0 .. left : UNCHANGED sample /\ left' = rest) \/ sample' = sample + 1
      BY <1>1, <1>2 DEF VerifyRemoved, EndWait
    <2> QED
      BY <2>1, <2>2, <2>3
  <1>3. CASE sample' = 0 /\ left' = CleanupTimeout
    BY <1>3
  <1>4. CASE UNCHANGED removal
    BY <1>4 DEF removal
  <1>5. VerifyRemoved \/ (sample' = 0 /\ left' = CleanupTimeout) \/ UNCHANGED removal
    BY DEF Next, Dappmanager, Adapter, Workflow, MutationDone, MutationFails, SendMutation,
           AnswerTimesOut, ConnectionLost, RetryTransient, AwaitInProgress, BaselineRemoved,
           BaselineInstalled, StopBeforeUpdate, CandidateInstalled, EvidenceGathered,
           TargetRemoved, LatestInstalled, VerifyRestored, VerifyInventory, Restart,
           CleanupFails, AtStep, vars, harness
  <1> QED
    BY <1>2, <1>3, <1>4, <1>5

(***************************************************************************)
(* A removal is not given up while a whole poll interval is left, for any  *)
(* timeout, poll interval and duration of the reads, unless the samples    *)
(* are capped (cleanup_target).                                            *)
(***************************************************************************)
THEOREM RemovalIsAwaited == Spec => RemovalAwaited
  <1> DEFINE Awaited ==
        (step = "verify" /\ initial = "none" /\ step' = "inventory" /\ outcome' # "passed")
            => left' < RemovalPoll \/ sample + 1 = RemovalCap
  <1>1. ASSUME TypeOK, RemovalClock, [Next]_vars PROVE [Awaited]_vars
    <2> SUFFICES ASSUME step = "verify", initial = "none", step' = "inventory",
                        outcome' # "passed", sample + 1 # RemovalCap
                 PROVE  left' < RemovalPoll
      OBVIOUS
    <2> USE MutationsAssumption DEF MutationsAssumption
    <2>1. VerifyRemoved
      BY <1>1 DEF Next, Dappmanager, Adapter, Workflow, MutationDone, MutationFails, SendMutation,
                  AnswerTimesOut, ConnectionLost, RetryTransient, AwaitInProgress,
                  BaselineRemoved, BaselineInstalled, StopBeforeUpdate, CandidateInstalled,
                  EvidenceGathered, TargetRemoved, LatestInstalled, VerifyRestored,
                  VerifyInventory, Restart, CleanupFails, AtStep, vars, harness
    <2>2. sample \in 0 .. RemovalSamples - 1 /\ left \in Nat
      BY <1>1 DEF TypeOK
    <2>3. CASE left' = 0
      BY <2>3
    <2>4. CASE left' \in Nat /\ left' <= left /\ left > 0 /\ sample + 1 >= RemovalSamples
      <3>1. sample = RemovalSamples - 1
        BY <2>2, <2>4, SamplesFit
      <3>2. sample * RemovalPoll \in Nat /\ sample \in Nat
        BY <2>2, SamplesFit
      <3>3. CleanupTimeout - sample * RemovalPoll < RemovalPoll
        BY <3>1, SamplesFit
      <3> QED
        BY <1>1, <2>2, <2>4, <3>2, <3>3 DEF RemovalClock
    <2>5. \/ left' = 0
          \/ left' \in Nat /\ left' <= left /\ left > 0 /\ sample + 1 >= RemovalSamples
      BY <2>1, <2>2 DEF VerifyRemoved, EndWait
    <2> QED
      BY <2>3, <2>4, <2>5
  <1>2. Init => RemovalClock
    BY MutationsAssumption DEF MutationsAssumption, Init, RemovalClock
  <1>3. IInv => TypeOK
    BY DEF IInv
  <1> QED
    BY <1>1, <1>2, <1>3, RemovalClockStep, IInvHolds, PTL DEF Spec, RemovalAwaited
================================================================================
