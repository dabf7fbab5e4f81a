# Package harness: TLA+ models and proofs

The harness claims package jobs from Tropibot (the coordinator), installs a
baseline and a candidate of a package on a Dappnode through Dappmanager,
compares what it sees, restores the node and delivers one completion per job.
This directory models the parts of it that are hard to test: what is on disk
when something fails, who may still be working on the node, and which of two
concurrent tasks acts first.

Paths below are relative to the repository, which is `src/` here: `src/src/` is its Rust code.

## Inventory

| Component | State it keeps | Operations | Interacts with |
|---|---|---|---|
| Worker (`worker/mod.rs`) | one task: the record in hand, attempt counters | recover, claim, process, settle, deliver, hold, wait | store, controller, coordinator, operator (Notify), drain (watch), readiness |
| Heartbeat, progress (`worker/heartbeat.rs`, `progress.rs`) | cancel and claim-lost flags, published phase and cleanup flag | periodic heartbeat, publish, control | coordinator; read by the controller and the worker |
| Controller (`runner/controller.rs`) | record of the running job, `cleanup_authorized` | execute, phase, authorize_cleanup, capture | store, Dappmanager adapter, progress |
| Cleanup (`runner/cleanup.rs`) | none | remove or restore, verify, leftovers | Dappmanager adapter |
| Stabilization, comparison, result (`runner/`) | streak of equal samples; pure data | stabilize, compare, verdict | Dappmanager adapter |
| Dappmanager adapter (`package_manager/`) | attempt counter, timeouts | retry_mutation, await_in_progress, reads | Dappmanager over MCP |
| Run record (`model/run.rs`) | the persisted record | claimed, start, interrupt, requires_worker_attention | everything above |
| File store (`storage/file.rs`) | one JSON file per run | create, save, get, load_all | disk |
| Coordinator client (`coordinator/`) | none | claim, heartbeat, complete, ready | Tropibot over HTTPS |
| Endpoints, dashboard (`api/`) | none | recovery actions, coordinator ready, drain, resume, probes | store, worker controls, coordinator |
| Process (`main.rs`, `config.rs`) | accepting flag | start, signal, graceful stop, join | worker, server |
| Analysis (`analysis/`) | none | heuristic, Nexus, redaction | advisory only |

What is hard, by component:

* **Worker.** Every step between two awaits can be the last one before a
  restart, every save can fail (before or after the rename), the heartbeat sets
  flags at any point, and the operator edits the same files. Correct means: the
  file tells what cleanup is owed before the node is touched; a job is run once;
  one completion body is ever sent; no claim is dropped that Tropibot still
  holds; the next job is taken only when the last is settled and its target
  clean; every hold can be resolved; every claim is settled in the end.
* **Drain and shutdown.** The worker, the endpoints and main act on three
  shared cells (a watch channel, a flag, a permit). Correct means: drained is
  quiescent, at most one in-flight claim crosses a drain, drains and shutdowns
  end, ready is not shown by a worker that waits.
* **Mutations and cleanup.** Dappmanager keeps working on a mutation whose
  caller gave up. Correct means: success is what the node shows, the candidate
  is applied to the baseline, a passed cleanup left what the plan wants, and the
  cleanup ends although Dappmanager may hang.
  A removal is verified in samples against a deadline and a cap.
* **Stabilization and verdict.** The wait reads a set of containers that changes
  under it and may be told to stop; what it found is kept as a sliding window.
  Correct means: the verdict about the candidate is earned by evidence about the
  builds that were asked for, an early stop is never taken for instability, a
  bypassed signature stays visible, and every run ends.

The individual hazards, at their lines, are in `PROJECT.json`.

## Modules

| Module | Models | Runs |
|---|---|---|
| `RunRecord` | the record's fields and the pure edits of worker, controller and endpoints (no variables) | through `HarnessWorker` |
| `HarnessWorker` | worker + controller + heartbeat + store + recovery endpoints, with the coordinator as environment | `MCHarnessWorker_*.cfg` |
| `JobContract` | what the harness promises Tropibot about each job; abstract | refined by `WorkerContract` |
| `WorkerContract` | the refinement mapping from `HarnessWorker` to `JobContract` | `MCHarnessWorker_restarts.cfg` |
| `MCHarnessWorker` | declares model values only | |
| `WorkerLifecycle` | run loop, drain state machine, permit, readiness, signal and join | `WorkerLifecycle_*.cfg` |
| `TargetMutations` | inside of one job's mutations and cleanup: adapter, recovery plans, verification, Dappmanager | `TargetMutations_*.cfg` |
| `Stabilization` | `stabilize`: streak, attempts, sample window, stop requests | through `PackageRun` |
| `PackageRun` | `execute` from the first phase to the verdict, with `Stabilization` inside (INSTANCE) | `MCPackageRun.cfg` |
| `MCPackageRun` | the builds of the instance | |
| `*Proofs` | theorems about the module they extend | tlapm |

**HarnessWorker.** `pc` is the point of the worker task between two awaits;
`mem` is the record in memory, `disk` the files, `run` the locals of `execute`
and of a recovery, `progress` the flags shared with the heartbeat. One action is
the code from one await to the next. `Save` has the outcomes of
`FileRunStore::atomic_write`: done, failed with the old file (`save_lost`),
failed with the new file (`save_unsynced`: the directory sync after the rename).
`op` holds requests the endpoints have begun: `RecoveryRequest` reads the record
and checks it, `RecoverySave` writes the edited snapshot, and other tasks run in
between. `node`, `coord`, `accepted`, `sent` are the world: what was done to each
target, Tropibot's view of each job, the body it recorded, the bodies it saw.
`runs` counts starts of the workflow. Restart clears what is in memory.
`Faults` selects what the environment may do in a run.

**WorkerLifecycle.** Every action reads or writes one shared cell. A job is one
state (`working`), which ends well or in an error.

**TargetMutations.** `step` is the mutation or inspection of the job, `call`
the point inside `retry_mutation`/`await_in_progress`, `running` what
Dappmanager works on, `target` the build it shows.

`sample` and `left` are the polling of `cleanup_target`: the attempt and what
remains of the timeout.

**Stabilization.** `poll` is the point of `stabilize`; `consecutive`, `expected`,
`samples` are its locals. A sample is the set of names it showed all running, or
`{}`; the code treats a failed read, an empty list and a stopped container alike.
Containers change while a read is under way, the heartbeat may ask for a stop at
any time, and a read takes up to `ReadTimeout`.

**PackageRun.** `step` is the execution phase; `evidence`, `failure`, `cleanup`,
`result` are the record. A mutation reported as applied may leave any build on
the node, since Dappmanager answers success for what it did not change; a phase
boundary saves and then looks at the stop request (`Enter`). The two waits are the
steps of `Stabilization` over the run's own variables, so the composition includes
the steps in which the run calls `stabilize` and takes its result.

**JobContract** has no records, saves or processes: per job Tropibot's status,
whether the workflow was started, the one outcome offered, and whether the harness
has let go of it. `WorkerContract` reads these off `HarnessWorker`: started is
`runs > 0`, offered the body in `sent`, settled a file that asks for no attention.
`Disputed` is part of the contract because the code allows it: after a conflict
Tropibot may reinstate the claim and the local operator may then still accept the
coordinator's result, which lets go of a claim Tropibot counts as open.

HarnessWorker takes a mutation and `reconcile_target` as single steps that
succeed or fail; TargetMutations is the inside of those steps. HarnessWorker
thereby assumes that nothing changes the target after a reconciliation; run
`late_install` shows the case in which that is not so. WorkerLifecycle abstracts
what HarnessWorker's job steps do; both have the run loop, each with the guards
it needs. PackageRun takes the mutations and the cleanup as steps with the
outcomes that TargetMutations takes apart, and leaves recovery to HarnessWorker.

## Environment assumptions

* **Coordinator** (external; contract in `PRODUCTION_REFACTOR_PROMPT.md`,
  lines 68-187). A claim is answered with a queued job when none is claimed by
  this worker, else with 409. It records the first body of a claimed job,
  answers `duplicate` to the same body and 409 to another body or a released
  claim. It may release a claim at any time (`claim_lost`), and an operator may
  reinstate one after a conflict (`reinstate`). A job id is assigned once.
* **No-work and transient answers** of the coordinator repeat a state, so they
  are stutters and no action.
* **Operator.** Has restored the target when saying so; in `worker_races` (and
  `stale_operator_save`) a request may come at any time, else only when the worker
  waits for one (`OperatorTurn`).
* **Dappmanager** (external). Works on one mutation of a package at a time and
  refuses another (what `operation_in_progress_error` expects); finishes, fails
  or never answers.
  `PackageRun` lets an accepted mutation leave any build, or none.
* **Versions.** A build behind a CID is one build, a release is known by its
  version. `VersionsOmitted` says whether previews and details may lack a version;
  `PassIsEarned` and `BlameIsEarned` need that they do not. With it an update to
  another published release that changed nothing passes: `applied_version`
  compares nothing when a version is missing, and the origin of two releases is the same.
* **Containers** come, stop and go at any time. They are told apart by name: one
  replaced under its name between two samples is not noticed, although the comment
  at `runner/stabilization.rs:86` speaks of replacements (`created` is not looked at).
* **Disk.** A rename is atomic and survives a process restart. A host power loss
  that undoes an unsynced rename is not modelled.

## Runs

Passing runs, deadlock checking off where the system may stop (the worker task
can end, all jobs can be done, the harness of one job ends):

| Run | Shows | Bounds | Distinct states |
|---|---|---|---|
| `worker_races` | the mark precedes the mutation; heartbeats report it; no rerun; one completion body, kept until acknowledged; no claim dropped; no work on a target already cleaned | all local faults, operator at any time, one target installed before, one protected | 553 k |
| `worker_restarts` | the harness implements `JobContract`; one job at a time; an acknowledged record is final; a target left dirty is on record as such when polling resumes | failed saves, restart, lost and reinstated claims, lost answers, failed cleanups, orderly operator | 800 k |
| `worker_progress` | no dead worker task, no hold without a remedy, every claim is settled or held | disk works; restart, lost claims, failed cleanups, lost answers, cancellation | 156 k |
| `worker_lifecycle` | drained is quiescent; one job crosses; ready is polling; drains and shutdowns end | crossing jobs counted to two | 931 |
| `target_mutations` | success is observed; the candidate meets the baseline; a passed cleanup was verified; a removal is awaited for its whole timeout; the cleanup ends | three attempts, two restarts, three kinds of initial target; timeout 5, poll 2 (three samples, the last interval cut), cap not reached | 10.2 k |
| `package_run` | a pass or a blame is earned; instability is observed in full; a bypass is reported; the wait agrees with its evidence and its bounds; a stop ends the run at the next boundary; every run ends | three builds, either of two as candidate; two containers; timeout 2, interval 1 (three attempts), two samples required, window of two, reads of 0 or 1 | 1.17 M |

Two jobs are enough because the worker holds one at a time: the second is the
next claim. One operator request at a time is enough to race the worker's saves.
One restart already separates any two steps; recovery itself is interrupted by
the failed saves, and by a second restart in `target_mutations`. `crossed` stops
at two because one more than the bound is a violation. Three attempts have a
first, a middle and a last. In `package_run` three attempts against two required
samples leave room for a streak that starts late and for one that is broken, and
the window of two makes the oldest sample drop out; the two candidates are an IPFS
build with the baseline's version, which only the origin tells apart, and another
release, which only the version does. The cap on the removal samples (1 000 of
half a second, below the 600 s a configuration may ask for) and the 10 000
attempts of `stabilize` are covered by the theorems, not by the runs. With a
timeout that is a multiple of half a second the branch for a failed last read
(`cleanup.rs`, "Final package-removal verification failed") is never reached,
because the deadline comes first.

`ImplementsContract` is checked with an orderly operator. With racing requests it
does not hold: a `MarkHold` of the worker overwrites an acceptance the operator
saved in between, the mirror image of `stale_operator_save`.

Runs that end in a counterexample, each a disagreement between a document and
the code (`findings` has the quotations):

| Run | What happens |
|---|---|
| `lost_claim_dirty` | claim lost + failed cleanup: `settle_claim` looks at the claim first, releases it and polls on |
| `result_and_error` | the last save reports a failed directory sync; its result is on disk and a worker error joins it, which `prepare_completion` then refuses after every restart |
| `hold_without_remedy` | a save fails when nothing needs cleaning: a cleanup hold with `cleanup_required` false, which no recovery action accepts |
| `stale_operator_save` | a recovery request read the record before the worker acknowledged it and writes it back |
| `sigterm_when_drained` | the worker is drained (or becomes so before the flag is cleared) when the signal comes: main joins a sleeping worker |
| `late_install` | a timed-out baseline install is still running; removal of the absent target passes; then the install lands |

`lost_claim_dirty` has a variant: a restart after the result of a failed cleanup
is saved and before its hold is; the result is delivered and polling goes on.

Because of these, `PollsOnlyWithCleanTargets` is not a property of the passing
runs; `DirtyTargetIsOnRecord`, the strongest form that holds, is.
`UndrainedShutdownCompletes` and `DrainCompletes` exclude by name the two known
windows: a worker already drained, and `Overslept` (a resume and a drain between
`state()` and the subscription in `changed_from`).
`worker_progress` leaves out failed saves: with them the task may end and a hold
may lack a remedy, as the code does by design (`?` on a failed save) or as
`hold_without_remedy` shows. It also leaves out racing requests: one that arrives
between `mark_manual_recovery` and the look for holds ends the task
(`worker/mod.rs:394`) while the supervision server runs on, although
`docs/architecture.md:23` says that holds "keep the worker task alive". TLC finds
that behaviour of 13 states for `WorkerStaysAlive` when `Faults` is
`{"claim_lost", "operator_race"}`: the claim is withdrawn, the completion conflicts,
the hold is saved, an operator clears it, and the worker finds none.

## Fairness

`HarnessWorker`: weak fairness of the worker task as a whole and of a request
already begun, since tokio schedules runnable tasks. Weak fairness of the task
also says that the coordinator in the end gives a definite answer, because its
transient answers are stutters; without that delivery is retried for ever, as
intended. Nobody has to send an operator request, so a held job may stay held:
`ClaimsSettle` accepts a hold. `WorkerLifecycle`: weak fairness of the worker and
of main's shutdown steps; requests and the signal need not come.
`TargetMutations`: weak fairness of the harness only; its timers fire, and
Dappmanager may hang for ever. `PackageRun`: weak fairness of the run as a whole:
the runtime schedules the task, every awaited call has a timeout and every sleep
ends; containers and heartbeats are never obliged to do anything.

## Proofs

All theorems are for every value of the constants, under the modules' `ASSUME`s
(names differ, sets are sets, bounds are naturals); TLC evaluates those in the
passing runs.

* `HarnessWorkerProofs`. `TypesHold`, and `CleanupBeforeMutation`:
  `Spec => []CleanupPersistedBeforeMutation`. The property says what is on disk
  once a node is changed, but the mutation happens after the save, and later
  saves, recoveries and operators rewrite the record from copies. The inductive
  invariant (`CleanupMarkInvariant`) therefore follows every copy: the files (a
  file with the mark has the right plan, and a changed target has a marked file),
  the record in memory at each control point (marked wherever a mutation or a save
  can follow; equal in mark and plan to the file it will replace) and the
  snapshots operator requests hold.
* `CompletionProofs`, in two layers on the same invariant. `PassedCleanupStays`:
  an operator request can still be in flight when a recovery starts, namely when a
  second operator was faster (`Overtaken`); but then that operator has either
  confirmed the cleanup, kept the bytes pending or closed the claim, so that a
  recovery which can be overtaken has nothing to reconcile (`RecoveredAlone`).
  `OneBody`: a body is decided when some copy of the record has it pending or the
  coordinator has received it. A copy read before the decision may be written back
  after it; the invariant says that every copy then leads to the same body again
  (`DecisionKept`), because it has the same result (`ResultsAgree`) or because the
  job was interrupted and that write confirms its cleanup. `PrepareDecides` is the
  one step that decides.
* `WorkerSafetyProofs`, on top of both, one invariant per concern.
  * `NeverRunAgain` from `RunsCounted`: a job not handed out, or at a control point
    from which a start follows, was not started, and no recovery enters such a point.
  * `HeartbeatsReport` from `Reported`: while heartbeats say that no cleanup is
    required, the target is untouched and no copy of the record (the file, the
    worker's, one read for an operator) has both a hold and a required cleanup, so
    that no operator can claim to have restored the target before the flag is
    published.
  * `SettledAfterAnswer` from `AnswerInv`: a record is live or retired; a conflict
    is on record only after an outcome was sent; what the worker takes for a reason
    to give a job up (the acknowledgement, the lost claim) was an answer of the
    coordinator. `SettledRemotely` (`SettledLocallyMeansSettledRemotely`) follows
    where no claim is reinstated; with a reinstatement the operator may accept a
    result the coordinator waits for again.
  * `DirtyTargetsRecorded` from `TargetInv`: every copy with an outcome or bytes
    states what became of the target, and a live record that does not say so is in
    hand or waits for recovery; at `claim` nothing is in hand and no file is open.
  * `HoldsHaveRemedies` from `RemedyInv`: at `mark_hold`, and in every copy with a
    hold, a cleanup hold has the mark and a conflict has its bytes and a cleanup an
    operator can confirm. It assumes that saves do not fail: `hold_without_remedy`
    is the counterexample otherwise.
  * `PendingBytesStay` from `PendingInv` and `OneBody`'s invariant: as long as the
    worker has no bytes in hand nobody else can write the file, and once it has,
    every copy that may be written back has bytes too, the same ones. It assumes one
    operator request at a time. Of two racing ones the older may write a copy from
    before the bytes were prepared.
  * `RecordIsComplete`: the recorded outcome is the only one ever sent.
* `WorkerContractProofs`, under `TurnTaking`: in every step of the behaviour a request
  begins only while the worker waits for one and no other is being served
  (`OperatorsTakeTurns`). That is a condition on behaviours, so any number of
  operators may race in the others; with one operator who acts on a waiting worker,
  as in the runs, all behaviours meet it (`OrderlyTakeTurns`). The invariant
  (`TurnsInv`) says that requests edit files as they are (`Turns`) and that at most
  one file is open, that of the job in hand (`OneOpen`). `OneAtATime` and
  `AcknowledgedStays` follow.
  `ContractImplemented` maps every step: claims, starts, sends and withdrawals to the
  step of the contract of that name (`StartMaps`, `SendMaps`, `CoordinatorMaps`), and
  all others, which leave the coordinator and the starts alone, to `Settle` or a
  stutter (`QuietStep`), because one file at most is written and a file that was
  retired was answered. `stale_operator_save` shows why turns are assumed; failed
  saves, restarts and reinstated claims are not excluded.
  `StaysAlive` assumes besides that saves and reads work and the coordinator knows
  the worker (`ServicesWork`), for each of these faults ends the task by design
  (`?` on a failed save, the exit on 401/403). So with these services the task ends
  only after a request out of turn; that one can end it is said under "Runs". `AliveInv` says what has become of the job at each control point, so
  that `prepare_completion` always finds exactly one outcome and wherever the worker
  looks for a hold there is one.
* `WorkerLifecycleProofs`. `TypesHold`; `DrainedMeansQuiescent`, which is
  inductive with types because only `MarkDrained` sets the state and every way out
  of a quiescent point passes an `Observe` that reads accepting; `OneJobCrosses`,
  strengthened by: once a job has crossed, no claim can be in flight until a
  resume; `ReadyWorkerPolls`, strengthened by the order of `set_not_ready` and
  each wait or return.
* `TargetMutationsProofs`. `TypesHold`, `SuccessWasObserved`,
  `BaselineBeforeUpgrade`. Strengthened by: the mutation whose answer is awaited
  is the running one, and during the two baseline steps only those two can be
  running, the removal only while the baseline is not there. `PassedVerified`
  needs that a reinstalled target, once listed, stays on the node until the last
  inventory (`RestoredKept`); `RemovalIsAwaited` relates the sample counter to
  what is left of the timeout (`RemovalClock`: each sample but the last has used
  up a whole interval), for any timeout, interval and cap.
* `StabilizationProofs`. `WaitIsSound`, under what `Config::from_env` checks:
  result and samples agree, instability only after all attempts, the wait is
  bounded. The inductive invariant ties the locals to the window (the last
  `consecutive` samples show `expected` and the one before them, if it is still
  kept, does not), counts the samples while nothing cut the wait short, and
  accounts for the time of every sleep and read.
* `PackageRunProofs`. `WaitsAreSound` lifts that through the instance (every step
  of a run is a step or a stutter of `Stabilization`). `TypesHold`,
  `InstabilityIsObserved`, `BypassHolds`, `StopsHold`, and `PassHolds`,
  `BlameHolds` under `~VersionsOmitted`. The invariant says, per phase, what
  is known of evidence, preview and failure: a preview is of the build wanted, a
  capture that did not fail shows that build, a run with a failure has left the
  workflow, and whatever an unstable capture holds was sampled in full.

`PackageRunProofs` further has `UnstableWaitIsFull` and `WaitBounded`, which lift
the bounds of `StabilizationProofs` to every wait of a run.

The conditions on `Faults` and `Operators` in a theorem, and `TurnTaking`, are those
under which its run checks the property, or weaker: `DirtyTargetsRecorded` has none,
although its run has no races. `hold_without_remedy` and `stale_operator_save`
are behaviours that two of them exclude.

Only model-checked: the liveness properties `ClaimsSettle`, `DrainCompletes`,
`UndrainedShutdownCompletes`, `CleanupEnds` and `RunEnds`. They rest on fairness and
ENABLED, which are beyond the prover. Every other property of a passing run is
stated by a theorem.

## Not modelled, or abstracted

Texts, durations and timestamps of evidence and errors; `timed_out` cleanups are
taken with `failed` ones in `HarnessWorker` (every reader in the worker treats them
alike). Back-off delays: `retry_delay` caps its exponent at five and its delay at
30 s with saturating operations, and nothing depends on its value. HTTP and JSON
validation, size bounds, authentication details beyond "rejected". Versions in
`TargetMutations` are abstract and distinct: a baseline that is also the latest
release is a special case with fewer distinct builds. A create that meets an
existing file: the model's coordinator assigns a job id once.

Log analysis is four statuses and their combination. Two things of it are seen in
no model because they are about text: the heuristic stops at twenty findings, so a
later critical one may be dropped (`analysis/heuristic.rs:66`), and candidate logs
that could not be read count as clean. Redaction, prompts, truncation and the
parsing of configuration are pure functions on text without state. The dashboard
only presents the endpoints. The test doubles are not part of the running program
(`unavailable.rs` refuses every call, which is the "failed" branch of each model).

The comment at `runner/stabilization.rs:15` calls the timeout the maximum
wall-clock time; `WaitIsBounded` is the bound that holds: the reads come on top.

## Plan

Done: the worker with its contract, the lifecycle, the mutations and the cleanup,
the run to its verdict, and the proofs above. What is left, in order of worth:

1. weaker conditions: `OneAtATime` and the refinement with requests that may come at
   any time but are served before the worker's next save, and `PendingBytesStay`
   with several operators up to the first confirmed cleanup;
2. the safety half of the liveness properties: the step of each that makes progress,
   and what it decreases;
3. `truncate_utf8` and the redaction of secrets against reference definitions,
   which need sequences of characters.
