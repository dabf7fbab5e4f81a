------------------------------- MODULE PackageRun -------------------------------
(***************************************************************************)
(* One run of RunController::execute up to its verdict                     *)
(* (src/runner/controller.rs, comparison.rs, result.rs and the analyzers): *)
(* which evidence a run gathers, where it stops, and what it then says of  *)
(* the candidate.  The two waits for stable containers are the steps of    *)
(* Stabilization; the cleanup is one step with the outcomes that           *)
(* TargetMutations takes apart.                                            *)
(*                                                                         *)
(* A build is the version and the install origin that Dappmanager reports. *)
(* A mutation may be reported as applied and leave any build on the node.  *)
(* What an analyzer says of the logs is any of its statuses; texts and      *)
(* times are left out.                                                     *)
(***************************************************************************)
EXTENDS Integers, Sequences

CONSTANTS
    Builds,             \* every build Dappmanager may show, as records
    Baseline,           \* the build the requested baselineRef resolves to
    Candidates,         \* the builds a candidateRef may resolve to
    VersionsOmitted,    \* previews and details may lack a version
    Containers, Timeout, PollInterval, RequiredSamples, ReadTimeout, AttemptCap,
    MaxHistory          \* of Stabilization

Registry == "registry"      \* no install origin: a published release
Unknown == "unknown"        \* no semantic version
NoBuild == [version |-> Unknown, origin |-> "nowhere"]
None == [none |-> TRUE]

\* A build behind a CID is one build, and a release is known by its version.
ASSUME BuildsAssumption ==
    /\ \A b \in Builds : b = [version |-> b.version, origin |-> b.origin]
    /\ \A b \in Builds : b.version # Unknown /\ b.origin # "nowhere"
    /\ \A b, c \in Builds : (b.origin = c.origin /\ b.origin # Registry) => b = c
    /\ Baseline \in Builds /\ Candidates \subseteq Builds \ {Baseline}
    /\ VersionsOmitted \in BOOLEAN

VARIABLES
    step,           \* what execute is at: an ExecutionPhase, or verdict and after
    side,           \* of the phases that both builds go through
    candidate,      \* what the requested candidateRef resolves to
    target,         \* the build of the target on the node
    preview,        \* PreviewSummary of this side
    reused,         \* reuse_installed_baseline
    authorized,     \* cleanup_authorized
    bypassed,       \* BaselineSignatureInvalid is among record.errors
    evidence,       \* record.evidence.baseline and .candidate
    analysis,       \* the status of record.evidence.log_analysis
    failure,        \* what run_algorithm returned
    cleanup,        \* record.cleanup.status
    result,         \* verdict and reason of record.result
    poll, attempt, consecutive, expected, samples, passed, elapsed, control, node

stabVars == <<poll, attempt, consecutive, expected, samples, passed, elapsed, node>>
runVars == <<side, candidate, target, preview, reused, authorized, bypassed, evidence,
             analysis, cleanup, result>>
vars == <<step, failure, runVars, stabVars, control>>

S == INSTANCE Stabilization

ASSUME WaitAssumption == S!StabilizationAssumption

Sides == {"baseline", "candidate"}
Wanted(s) == IF s = "baseline" THEN Baseline ELSE candidate

\* The reason that stands for the operation at hand in a Failure.
Unavailable == IF side = "baseline" THEN "baseline_unavailable" ELSE "candidate_install_failed"
InstallFailed ==
    IF side = "baseline" THEN "baseline_install_failed" ELSE "candidate_install_failed"

Outcome(verdict, reason) == [verdict |-> verdict, reason |-> reason]
Infrastructure(reason) == Outcome("infrastructure_error", reason)

--------------------------------------------------------------------------------
(* Failures and phase boundaries *)

\* execute goes on with the cleanup only when a mutation was authorised.
Fail(f) ==
    /\ failure' = f
    /\ step' = IF authorized' THEN "cleanup" ELSE "verdict"

\* package_failure
PackageFailure(operation) ==
    \E reason \in {"mcp_unavailable", "unexpected_error", operation} :
        Fail(Infrastructure(reason))

PersistenceFailure == Fail(Infrastructure("persistence_failed"))

\* control_failure
ControlFailure ==
    /\ control # "Continue"
    /\ Fail(IF control = "ClaimLost" THEN Infrastructure("claim_lost")
            ELSE Outcome("inconclusive", "cancellation_requested"))

\* MUTANT of Enter: a phase starts whatever the heartbeat asked for.
BugEnter(phase) == (step' = phase /\ UNCHANGED failure) \/ PersistenceFailure

\* phase_failure: the transition is saved, then the control is looked at.
Enter(phase) ==
    \/ control = "Continue" /\ step' = phase /\ UNCHANGED failure
    \/ ControlFailure
    \/ PersistenceFailure

--------------------------------------------------------------------------------
(* run_algorithm *)

\* The first boundary of a run that was queued.
Start ==
    /\ step = "queued"
    /\ UNCHANGED <<runVars, stabVars, control>>
    /\ Enter("preflight")

\* Tools, self-test and core refusals, inventory and recovery plan.
Preflight ==
    /\ step = "preflight"
    /\ UNCHANGED <<runVars, stabVars, control>>
    /\ \/ Enter("preview")
       \/ PackageFailure("mcp_unavailable")
       \/ \E reason \in {"required_mcp_tools_missing", "harness_package_refused",
                         "core_package_refused"} : Fail(Infrastructure(reason))

\* semantic_version of a preview: the reference of an IPFS build is none.
PreviewsOf(build) ==
    {[version |-> v, origin |-> build.origin] :
        v \in {build.version}
              \cup IF VersionsOmitted \/ build.origin # Registry THEN {Unknown} ELSE {}}

\* installed_version_matches, where the requested version stands in for one
\* that the preview omits, and installed_origin_matches, which counts a failed
\* read as no match.
ReuseOf(shown) ==
    LET version == IF shown.version = Unknown /\ shown.origin = Registry
                   THEN Baseline.version ELSE shown.version
    IN  IF target.version = version /\ target.origin = shown.origin THEN BOOLEAN ELSE {FALSE}

PreviewInstall ==
    /\ step = "preview"
    /\ UNCHANGED <<side, candidate, target, authorized, bypassed, evidence, analysis, cleanup,
                   result, stabVars, control>>
    /\ \/ /\ preview' \in PreviewsOf(Wanted(side))
          /\ reused' \in IF side = "baseline" THEN ReuseOf(preview') ELSE {FALSE}
          /\ Enter("install")
       \/ UNCHANGED <<preview, reused>> /\ PackageFailure(Unavailable)

\* Nothing is installed when the installed build is reused.
ReuseBaseline ==
    /\ step = "install" /\ reused
    /\ UNCHANGED <<runVars, stabVars, control>>
    /\ Enter("stabilization")

\* authorize_cleanup, then the removal of an installed version, the install
\* and its repetition with the signature bypass.
InstallBaseline ==
    /\ step = "install" /\ side = "baseline" /\ ~reused
    /\ authorized' = TRUE
    /\ target' \in Builds \cup {NoBuild}
    /\ bypassed' \in BOOLEAN
    /\ UNCHANGED <<side, candidate, preview, reused, evidence, analysis, cleanup, result,
                   stabVars, control>>
    /\ \/ Enter("stabilization")
       \/ ~bypassed' /\ Fail(Infrastructure("baseline_install_failed"))
       \/ ~bypassed' /\ Fail(Outcome("inconclusive", "unsupported_required_setup"))

\* The candidate is an update; a transient failure is not held against it.
UpdateToCandidate ==
    /\ step = "install" /\ side = "candidate"
    /\ authorized' = TRUE
    /\ target' \in Builds \cup {NoBuild}
    /\ UNCHANGED <<side, candidate, preview, reused, bypassed, evidence, analysis, cleanup,
                   result, stabVars, control>>
    /\ \/ Enter("stabilization")
       \/ Fail(Infrastructure("candidate_install_failed"))
       \/ Fail(Outcome("failed", "candidate_install_failed"))

\* One step of stabilize; a package that is gone shows no details.
Stabilize ==
    /\ step = "stabilization"
    /\ \/ S!Begin \/ S!CheckControl \/ S!DetailsFail \/ S!Wake
       \/ target # NoBuild /\ S!DetailsRead
    /\ UNCHANGED <<step, failure, runVars>>

\* MUTANT of Stabilized: control_failure and the next boundary are skipped.
BugStabilized ==
    /\ step = "stabilization" /\ poll = "done"
    /\ step' = "capture" /\ UNCHANGED failure
    /\ UNCHANGED <<runVars, stabVars, control>>

\* control_failure, then the next phase boundary.
Stabilized ==
    /\ step = "stabilization" /\ poll = "done"
    /\ UNCHANGED <<runVars, stabVars, control>>
    /\ Enter("capture")

\* MUTANT of AppliedVersion: only the version is compared.
BugAppliedVersion(shown) ==
    preview.version = Unknown \/ shown.version = Unknown \/ preview.version = shown.version

\* applied_version: an unknown version is not compared, the origin always is.
AppliedVersion(shown) ==
    /\ preview.version # Unknown /\ shown.version # Unknown => preview.version = shown.version
    /\ preview.origin = shown.origin

DetailsOf(build) ==
    {[version |-> v, origin |-> build.origin] :
        v \in {build.version} \cup IF VersionsOmitted THEN {Unknown} ELSE {}}

NextSide == IF side = "baseline" THEN "preview" ELSE "analysis"

\* capture and the check of what it found; the evidence is kept either way.
Capture ==
    /\ step = "capture"
    /\ S!Return
    /\ UNCHANGED <<candidate, target, preview, reused, authorized, bypassed, analysis, cleanup,
                   result>>
    /\ \/ /\ target # NoBuild
          /\ evidence' = [evidence EXCEPT ![side] =
                [stable |-> passed, samples |-> Len(samples), build |-> target]]
          /\ side' = "candidate"
          /\ \E shown \in DetailsOf(target) :
                IF AppliedVersion(shown) THEN Enter(NextSide)
                ELSE Fail(Infrastructure(InstallFailed)) \/ PersistenceFailure
       \/ UNCHANGED <<evidence, side>> /\ PackageFailure(Unavailable)

Statuses == {"clean", "suspicious", "critical", "inconclusive"}

\* strongest
Strongest(left, right) ==
    CASE "critical" \in {left, right} -> "critical"
      [] "suspicious" \in {left, right} /\ "critical" \notin {left, right} -> "suspicious"
      [] left = "clean" /\ right = "clean" -> "clean"
      [] OTHER -> "inconclusive"

\* compare, and analyze: the heuristic alone when there is no Nexus or it
\* fails, else the strongest of what the two say.
Analyze ==
    /\ step = "analysis"
    /\ UNCHANGED <<side, candidate, target, preview, reused, authorized, bypassed, evidence,
                   cleanup, result, stabVars, control>>
    /\ \E heuristic \in Statuses \ {"inconclusive"}, nexus \in Statuses :
            analysis' \in {heuristic, Strongest(heuristic, nexus)}
    /\ (step' = "cleanup" /\ UNCHANGED failure) \/ PersistenceFailure

--------------------------------------------------------------------------------
(* execute after run_algorithm *)

\* MUTANT of Cleanup: repeated until it passes.
BugCleanup ==
    /\ step = "cleanup"
    /\ cleanup' \in {"passed", "failed", "timed_out"}
    /\ step' = IF cleanup' = "passed" THEN "verdict" ELSE "cleanup"
    /\ UNCHANGED <<side, candidate, target, preview, reused, authorized, bypassed, evidence,
                   analysis, failure, result, stabVars, control>>

\* reconcile_target between the transition to Cleanup and the save of its
\* outcome; when either cannot be saved, execute returns the error.
Cleanup ==
    /\ step = "cleanup"
    /\ \/ cleanup' \in {"passed", "failed", "timed_out"} /\ step' = "verdict"
       \/ cleanup' \in {"pending", "passed", "failed", "timed_out"} /\ step' = "aborted"
    /\ UNCHANGED <<side, candidate, target, preview, reused, authorized, bypassed, evidence,
                   analysis, failure, result, stabVars, control>>

\* comparison_from_partial
HardCheck(s) == evidence[s] # None /\ evidence[s].stable

\* MUTANT of DeterministicVerdict: an unhealthy control is no obstacle.
BugDeterministicVerdict ==
    CASE ~HardCheck("candidate") -> Outcome("failed", "candidate_containers_unstable")
      [] HardCheck("candidate") /\ analysis = "critical" ->
            Outcome("warning", "candidate_containers_stable")
      [] OTHER -> Outcome("passed", "candidate_containers_stable")

\* deterministic_verdict
DeterministicVerdict ==
    CASE HardCheck("baseline") /\ ~HardCheck("candidate") ->
            Outcome("failed", "candidate_containers_unstable")
      [] HardCheck("baseline") /\ HardCheck("candidate") /\ analysis = "critical" ->
            Outcome("warning", "candidate_containers_stable")
      [] HardCheck("baseline") /\ HardCheck("candidate") /\ analysis # "critical" ->
            Outcome("passed", "candidate_containers_stable")
      [] ~HardCheck("baseline") /\ HardCheck("candidate") ->
            Outcome("warning", "baseline_containers_unstable")
      [] OTHER -> Outcome("inconclusive", "baseline_containers_unstable")

CleanupFailed == cleanup \in {"failed", "timed_out"}

\* MUTANT of Downgraded: only the cleanup takes a pass back.
BugDowngraded(o) ==
    IF o.verdict = "passed" /\ CleanupFailed THEN Outcome("warning", "cleanup_failed") ELSE o

\* A failed cleanup, then a bypassed signature, take a pass back.
Downgraded(o) ==
    CASE o.verdict = "passed" /\ CleanupFailed -> Outcome("warning", "cleanup_failed")
      [] o.verdict = "passed" /\ ~CleanupFailed /\ bypassed ->
            Outcome("warning", "baseline_signature_invalid")
      [] OTHER -> o

\* build_result and the last save, after which the run is Completed.
Finish ==
    /\ step = "verdict"
    /\ cleanup' = IF authorized THEN cleanup ELSE "skipped"
    /\ \/ /\ result' = Downgraded(IF failure # None THEN failure ELSE DeterministicVerdict)
          /\ step' = "finished"
       \/ step' = "aborted" /\ UNCHANGED result
    /\ UNCHANGED <<side, candidate, target, preview, reused, authorized, bypassed, evidence,
                   analysis, failure, stabVars, control>>

ContainersChange ==
    /\ step = "stabilization"
    /\ S!ContainerChanges
    /\ UNCHANGED <<step, failure, runVars>>

Ended == step \in {"finished", "aborted"}

Heartbeat ==
    /\ ~Ended
    /\ S!StopRequested
    /\ UNCHANGED <<step, failure, runVars>>

--------------------------------------------------------------------------------
Init ==
    /\ step = "queued" /\ side = "baseline"
    /\ candidate \in Candidates
    /\ target \in Builds \cup {NoBuild}
    /\ preview = NoBuild /\ reused = FALSE
    /\ authorized = FALSE /\ bypassed = FALSE
    /\ evidence = [s \in Sides |-> None]
    /\ analysis = "none" /\ failure = None
    /\ cleanup = "pending" /\ result = None
    /\ S!Init

RunController ==
    \/ Start \/ Preflight \/ PreviewInstall \/ ReuseBaseline \/ InstallBaseline
    \/ UpdateToCandidate \/ Stabilize \/ Stabilized \/ Capture \/ Analyze
    \/ Cleanup \/ Finish

Next == RunController \/ ContainersChange \/ Heartbeat

Spec == Init /\ [][Next]_vars

\* The runtime runs the task, every call it awaits has a timeout and every
\* sleep ends.
FairSpec == Spec /\ WF_vars(RunController)

--------------------------------------------------------------------------------
Reasons ==
    {"mcp_unavailable", "unexpected_error", "persistence_failed", "claim_lost",
     "cancellation_requested", "required_mcp_tools_missing", "harness_package_refused",
     "core_package_refused", "unsupported_required_setup", "baseline_unavailable",
     "baseline_install_failed", "candidate_install_failed", "candidate_containers_stable",
     "candidate_containers_unstable", "baseline_containers_unstable", "cleanup_failed",
     "baseline_signature_invalid"}
Outcomes ==
    [verdict : {"passed", "failed", "warning", "inconclusive", "infrastructure_error"},
     reason : Reasons]
Captures ==
    [stable : BOOLEAN, samples : Nat, build : Builds]

RunTypes ==
    /\ step \in {"queued", "preflight", "preview", "install", "stabilization", "capture", "analysis",
                 "cleanup", "verdict", "finished", "aborted"}
    /\ side \in Sides /\ candidate \in Candidates
    /\ target \in Builds \cup {NoBuild}
    /\ preview \in (UNION {PreviewsOf(b) : b \in Builds}) \cup {NoBuild}
    /\ reused \in BOOLEAN /\ authorized \in BOOLEAN /\ bypassed \in BOOLEAN
    /\ evidence \in [Sides -> Captures \cup {None}]
    /\ analysis \in Statuses \cup {"none"}
    /\ failure \in Outcomes \cup {None} /\ result \in Outcomes \cup {None}
    /\ cleanup \in {"pending", "skipped", "passed", "failed", "timed_out"}

\* Every variable stays in its range.
TypeOK == RunTypes /\ S!TypeOK

\* The samples that a wait leaves behind when nothing cuts it short.
FullWait == IF S!MaxAttempts <= MaxHistory THEN S!MaxAttempts ELSE MaxHistory

Verdict == IF result = None THEN "none" ELSE result.verdict

(***************************************************************************)
(* A pass is about the requested upgrade: both captures show exactly the   *)
(* requested builds, both were stable, and the node was cleaned up, with   *)
(* no signature bypassed and no critical finding (run_algorithm with       *)
(* applied_version, deterministic_verdict and the downgrades of execute).  *)
(***************************************************************************)
PassIsEarned ==
    Verdict = "passed" =>
        /\ \A s \in Sides : HardCheck(s) /\ evidence[s].build = Wanted(s)
        /\ cleanup = "passed" /\ ~bypassed /\ analysis # "critical"

(***************************************************************************)
(* The candidate is only blamed for what it did: its update was refused    *)
(* for good, or the baseline was stable and the candidate, seen through    *)
(* a full wait, was not.  A wait cut short by a cancellation or a lost     *)
(* claim is never taken for instability (stabilize, control_failure).      *)
(***************************************************************************)
BlameIsEarned ==
    Verdict = "failed" =>
        \/ result.reason = "candidate_install_failed" /\ evidence["candidate"] = None
        \/ /\ result.reason = "candidate_containers_unstable"
           /\ HardCheck("baseline") /\ ~HardCheck("candidate")
           /\ evidence["candidate"].build = candidate
           /\ evidence["candidate"].samples = FullWait

(***************************************************************************)
(* A run that had to stop says so: a verdict about stability is only given *)
(* on waits that ran their course on both sides.                           *)
(***************************************************************************)
UnstableWasFullyObserved ==
    \A s \in Sides :
        (evidence[s] # None /\ ~evidence[s].stable)
            => evidence[s].samples = FullWait

(***************************************************************************)
(* A bypassed baseline signature "changes an otherwise passing verdict to  *)
(* warning with reason code baseline_signature_invalid" (result-schema),   *)
(* and never hides a failure.                                              *)
(***************************************************************************)
BypassIsReported ==
    (result # None /\ bypassed) =>
        /\ result.verdict # "passed"
        /\ (failure = None /\ HardCheck("baseline") /\ HardCheck("candidate")
                /\ analysis # "critical" /\ cleanup = "passed")
              => result = Outcome("warning", "baseline_signature_invalid")
        /\ failure # None => result = failure

(***************************************************************************)
(* Once the heartbeat has asked the run to stop, the phase at hand is the  *)
(* last: the next boundary leads to the cleanup or the verdict.            *)
(***************************************************************************)
StopsAtNextBoundary ==
    [][(control # "Continue" /\ step' # step)
            => step' \in {"cleanup", "verdict", "finished", "aborted"}]_vars

\* The invariants of the waits, in the runs that contain them.
WaitMatchesEvidence == S!ResultMatchesEvidence
UnstableAfterFullWait == step = "stabilization" => S!UnstableAfterFullWait
WaitIsBounded == S!WaitIsBounded

(***************************************************************************)
(* Every run ends, whatever the containers do and whatever fails.          *)
(***************************************************************************)
RunEnds == <>Ended
================================================================================
