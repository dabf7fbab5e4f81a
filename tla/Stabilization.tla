----------------------------- MODULE Stabilization -----------------------------
(***************************************************************************)
(* Waiting for a stable package (src/runner/stabilization.rs): `stabilize` *)
(* samples the containers of the target until enough consecutive samples   *)
(* show the same non-empty, all-running set of names, its attempts are     *)
(* used up, or the heartbeat has asked the run to stop.                    *)
(*                                                                         *)
(* A sample is abstracted to the set of names it showed all running, and   *)
(* to {} when the read failed, the list was empty or a container was not   *)
(* running: the code resets its streak alike in these three cases, and     *)
(* `expected_names` is None exactly when the last sample was such a one.   *)
(* Containers are told apart by name only, as in the code: one that was    *)
(* replaced under its name between two samples looks the same.             *)
(***************************************************************************)
EXTENDS Integers, Sequences

CONSTANTS
    Containers,         \* the names a container of the package may have
    Timeout,            \* StabilizationConfig.timeout
    PollInterval,       \* StabilizationConfig.poll_interval
    RequiredSamples,    \* StabilizationConfig.required_samples
    ReadTimeout,        \* the longest one read of the details may take
    AttemptCap,         \* 10 000 in the code
    MaxHistory          \* 100 in the code

\* What Config::from_env checks before the process starts.
StabilizationAssumption ==
    /\ Timeout \in Nat /\ PollInterval \in Nat \ {0} /\ ReadTimeout \in Nat
    /\ RequiredSamples \in Nat \ {0}
    /\ AttemptCap \in Nat /\ MaxHistory \in Nat
    /\ RequiredSamples <= AttemptCap /\ RequiredSamples <= MaxHistory
    /\ PollInterval * (RequiredSamples - 1) <= Timeout

VARIABLES
    poll,           \* where stabilize is: not running, before a control check,
                    \* reading, asleep, or returned
    attempt,
    consecutive,
    expected,       \* expected_names; {} stands for None
    samples,
    passed,         \* StabilizationResult.passed
    elapsed,        \* time since `started`
    \* the environment
    control,        \* RunProgress::control, set by the heartbeat
    node            \* the containers Dappmanager lists

local == <<poll, attempt, consecutive, expected, samples, passed, elapsed>>
vars == <<local, control, node>>

\* MUTANT of MaxAttempts: rounded up.
BugMaxAttempts == Timeout \div PollInterval + 2

MaxAttempts ==
    LET intervals == Timeout \div PollInterval
    IN  IF intervals + 1 <= AttemptCap THEN intervals + 1 ELSE AttemptCap

\* What the next read would show.
Listed == {c \in Containers : node[c] # "absent"}
Healthy ==
    IF Listed # {} /\ \A c \in Listed : node[c] = "running" THEN Listed ELSE {}

--------------------------------------------------------------------------------
\* The locals at the head of stabilize, and after it has returned.
Fresh(at) ==
    /\ poll' = at /\ attempt' = 0
    /\ consecutive' = 0 /\ expected' = {}
    /\ samples' = <<>> /\ passed' = FALSE /\ elapsed' = 0

Begin ==
    /\ poll = "idle"
    /\ Fresh("check")
    /\ UNCHANGED <<control, node>>

\* The caller has taken the result and may call again.
Return ==
    /\ poll = "done"
    /\ Fresh("idle")
    /\ UNCHANGED <<control, node>>

\* Before each sample; the same check after a sleep leads here at once.
CheckControl ==
    /\ poll = "check"
    /\ poll' = IF control = "Continue" THEN "reading" ELSE "done"
    /\ UNCHANGED <<attempt, consecutive, expected, samples, passed, elapsed, control, node>>

\* MUTANT of Streak: any all-running sample counts, whatever its names.
BugStreak(names) == IF names = {} THEN 0 ELSE consecutive + 1

Streak(names) ==
    CASE names = {} -> 0
      [] names # {} /\ names = expected -> consecutive + 1
      [] OTHER -> 1

\* MUTANT of Pushed: the history grows.
BugPushed(names) == Append(samples, names)

\* push_sample: the oldest sample makes room.
Pushed(names) ==
    Append(IF Len(samples) = MaxHistory THEN Tail(samples) ELSE samples, names)

\* MUTANT of Sampled: the last attempt is given away.
BugSampled(names, time) ==
    /\ poll = "reading"
    /\ consecutive' = Streak(names)
    /\ expected' = names
    /\ samples' = Pushed(names)
    /\ elapsed' = elapsed + time
    /\ passed' = (Streak(names) >= RequiredSamples)
    /\ poll' = IF passed' \/ attempt + 2 >= MaxAttempts THEN "done" ELSE "asleep"
    /\ UNCHANGED <<attempt, control, node>>

Sampled(names, time) ==
    /\ poll = "reading"
    /\ consecutive' = Streak(names)
    /\ expected' = names
    /\ samples' = Pushed(names)
    /\ elapsed' = elapsed + time
    /\ passed' = (Streak(names) >= RequiredSamples)
    /\ poll' = IF passed' \/ attempt + 1 >= MaxAttempts THEN "done" ELSE "asleep"
    /\ UNCHANGED <<attempt, control, node>>

DetailsRead == \E time \in 0 .. ReadTimeout : Sampled(Healthy, time)
DetailsFail == \E time \in 0 .. ReadTimeout : Sampled({}, time)

Wake ==
    /\ poll = "asleep"
    /\ poll' = "check"
    /\ attempt' = attempt + 1
    /\ elapsed' = elapsed + PollInterval
    /\ UNCHANGED <<consecutive, expected, samples, passed, control, node>>

--------------------------------------------------------------------------------
(* The environment *)

\* Containers come, stop, start and go at any time; only what the next read
\* finds matters.
ContainerChanges ==
    /\ poll = "reading"
    /\ \E c \in Containers, state \in {"absent", "running", "exited"} :
            node' = [node EXCEPT ![c] = state]
    /\ UNCHANGED <<local, control>>

\* A heartbeat's answer; a lost claim hides a cancellation (WorkerProgress).
StopRequested ==
    /\ control' \in {"CancelRequested", "ClaimLost"}
    /\ control # "ClaimLost"
    /\ UNCHANGED <<local, node>>

--------------------------------------------------------------------------------
Init ==
    /\ poll = "idle" /\ attempt = 0
    /\ consecutive = 0 /\ expected = {}
    /\ samples = <<>> /\ passed = FALSE /\ elapsed = 0
    /\ control = "Continue"
    /\ node \in [Containers -> {"absent", "running", "exited"}]

Poll == CheckControl \/ DetailsRead \/ DetailsFail \/ Wake

Next == Begin \/ Poll \/ Return \/ ContainerChanges \/ StopRequested

Spec == Init /\ [][Next]_vars

--------------------------------------------------------------------------------
\* Every variable stays in its range.
TypeOK ==
    /\ poll \in {"idle", "check", "reading", "asleep", "done"}
    /\ attempt \in 0 .. MaxAttempts - 1
    /\ consecutive \in 0 .. RequiredSamples
    /\ expected \in SUBSET Containers
    /\ samples \in Seq(SUBSET Containers) /\ Len(samples) <= MaxHistory
    /\ passed \in BOOLEAN
    /\ elapsed \in Nat
    /\ control \in {"Continue", "CancelRequested", "ClaimLost"}
    /\ node \in [Containers -> {"absent", "running", "exited"}]

\* The `n` samples up to the `i`th show one non-empty set of running names.
StreakEndsAt(i, n) ==
    /\ samples[i] # {}
    /\ \A k \in i - n + 1 .. i : samples[k] = samples[i]

(***************************************************************************)
(* The result agrees with the evidence kept beside it, although that       *)
(* evidence is a sliding window and `consecutive` and `expected_names` are *)
(* kept apart from it: a pass ends in the required number of equal healthy *)
(* samples, and without a pass no such streak is anywhere in the history.  *)
(***************************************************************************)
ResultMatchesEvidence ==
    /\ passed => /\ Len(samples) >= RequiredSamples
                 /\ StreakEndsAt(Len(samples), RequiredSamples)
    /\ ~passed => \A i \in RequiredSamples .. Len(samples) : ~StreakEndsAt(i, RequiredSamples)

(***************************************************************************)
(* A package is only found unstable after every attempt the configuration  *)
(* allows, and these are enough for a stable one to pass; a wait that ends *)
(* earlier was asked to stop (Config::from_env with the attempt bound).    *)
(***************************************************************************)
UnstableAfterFullWait ==
    (poll = "done" /\ ~passed /\ control = "Continue")
        => attempt + 1 = MaxAttempts /\ MaxAttempts >= RequiredSamples

(***************************************************************************)
(* The wait lasts the configured timeout and the reads on top of it: the   *)
(* attempts bound the sleeps, nothing bounds the sum.                      *)
(***************************************************************************)
WaitIsBounded == elapsed <= Timeout + (attempt + 1) * ReadTimeout
================================================================================
