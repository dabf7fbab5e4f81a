---------------------------- MODULE PackageRunProofs ----------------------------
(***************************************************************************)
(* Proofs about PackageRun: what a verdict says is earned by the evidence, *)
(* for every set of builds and every configuration that is accepted.       *)
(***************************************************************************)
EXTENDS PackageRun, TLAPS

SP == INSTANCE StabilizationProofs

LiveSteps ==
    {"queued", "preflight", "preview", "install", "stabilization", "capture", "analysis"}

\* run_algorithm has returned at most once, and what it returned may blame
\* the candidate only when no evidence about it was kept.
FailureIsFinal ==
    /\ step \in LiveSteps => failure = None
    /\ failure # None =>
        \/ failure.verdict \in {"infrastructure_error", "inconclusive"}
        \/ failure = Outcome("failed", "candidate_install_failed") /\ evidence["candidate"] = None

\* Which captures there are at which step.
EvidenceFollowsSteps ==
    /\ step \in {"queued", "preflight"} => side = "baseline"
    /\ side = "baseline" => evidence["baseline"] = None
    /\ step \in LiveSteps \ {"analysis"} => evidence["candidate"] = None
    /\ step \in LiveSteps /\ side = "candidate" => evidence["baseline"] # None
    /\ step = "analysis" => side = "candidate"
    /\ failure = None /\ step \notin LiveSteps \ {"analysis"} =>
            evidence["baseline"] # None /\ evidence["candidate"] # None

\* The builds behind the captures, as long as nothing was found wrong.
EvidenceMatches ==
    ~VersionsOmitted =>
        /\ step \in {"install", "stabilization", "capture"} =>
                preview \in PreviewsOf(Wanted(side))
        /\ failure = None => \A s \in Sides : evidence[s] # None => evidence[s].build = Wanted(s)

\* A candidate is only reached through an authorised mutation, so that a run
\* without a failure has been cleaned up.
CleanupIsDone ==
    /\ step = "install" /\ side = "candidate" => ~reused
    /\ step \in {"stabilization", "capture"} /\ side = "candidate" => authorized
    /\ step = "analysis" => authorized
    /\ step = "cleanup" => authorized
    /\ failure = None /\ step \in {"verdict", "finished"} => authorized
    /\ ~authorized => ~CleanupFailed
    /\ failure = None /\ step \in {"verdict", "finished"} =>
            cleanup \in {"passed", "failed", "timed_out"}

\* A wait that leads to a capture ran its course.
WaitIsOver ==
    step = "capture" => poll = "done" /\ (~passed => Len(samples) = FullWait)

ResultIsDerived ==
    result # None =>
        /\ step = "finished"
        /\ result = Downgraded(IF failure # None THEN failure ELSE DeterministicVerdict)

IInv ==
    /\ RunTypes
    /\ FailureIsFinal /\ EvidenceFollowsSteps /\ EvidenceMatches
    /\ CleanupIsDone /\ WaitIsOver /\ UnstableWasFullyObserved /\ ResultIsDerived

--------------------------------------------------------------------------------
(* The waits are those of Stabilization *)

LEMMA WaitInit == Init => SP!Init
BY DEF Init, S!Init, SP!Init

LEMMA WaitStep == [Next]_vars => [SP!Next]_(SP!vars)
<1>1. Stabilize => SP!Next
  <2>1. S!Begin => SP!Begin
    BY DEF S!Begin, SP!Begin, S!Fresh, SP!Fresh
  <2>2. S!CheckControl => SP!CheckControl
    BY DEF S!CheckControl, SP!CheckControl
  <2>3. S!Wake => SP!Wake
    BY DEF S!Wake, SP!Wake
  <2>4. S!DetailsFail => SP!DetailsFail
    BY DEF S!DetailsFail, SP!DetailsFail, S!Sampled, SP!Sampled, S!Streak, SP!Streak,
           S!Pushed, SP!Pushed, S!MaxAttempts, SP!MaxAttempts
  <2>5. S!DetailsRead => SP!DetailsRead
    BY DEF S!DetailsRead, SP!DetailsRead, S!Sampled, SP!Sampled, S!Streak, SP!Streak,
           S!Pushed, SP!Pushed, S!MaxAttempts, SP!MaxAttempts, S!Healthy, SP!Healthy,
           S!Listed, SP!Listed
  <2> QED
    BY <2>1, <2>2, <2>3, <2>4, <2>5 DEF Stabilize, SP!Next, SP!Poll
<1>2. Capture => SP!Next
  BY DEF Capture, S!Return, SP!Return, S!Fresh, SP!Fresh, SP!Next
<1>3. ContainersChange => SP!Next
  BY DEF ContainersChange, S!ContainerChanges, SP!ContainerChanges, SP!Next, S!local, SP!local
<1>4. Heartbeat => SP!Next
  BY DEF Heartbeat, S!StopRequested, SP!StopRequested, SP!Next, S!local, SP!local
<1>5. Start \/ Preflight \/ PreviewInstall \/ ReuseBaseline \/ InstallBaseline
        \/ UpdateToCandidate \/ Stabilized \/ Analyze \/ Cleanup \/ Finish
      => UNCHANGED <<stabVars, control>>
  BY DEF Start, Preflight, PreviewInstall, ReuseBaseline, InstallBaseline,
         UpdateToCandidate, Stabilized, Analyze, Cleanup, Finish
<1>6. UNCHANGED <<stabVars, control>> => UNCHANGED SP!vars
  BY DEF stabVars, SP!vars, SP!local
<1> QED
  BY <1>1, <1>2, <1>3, <1>4, <1>5, <1>6 DEF Next, RunController, vars

(***************************************************************************)
(* Both waits of a run, for every accepted configuration: they pass on the *)
(* evidence they keep, give up only after their last attempt, and last no  *)
(* longer than the timeout and the reads (stabilize in execute).           *)
(***************************************************************************)
THEOREM WaitsAreSound ==
    Spec => [](S!TypeOK /\ WaitMatchesEvidence /\ UnstableAfterFullWait /\ WaitIsBounded)
<1>1. SP!StabilizationAssumption
  BY WaitAssumption DEF S!StabilizationAssumption, SP!StabilizationAssumption
<1>2. Init => SP!IInv
  BY <1>1, WaitInit, SP!InitIInv
<1>3. SP!IInv /\ [Next]_vars => SP!IInv'
  BY <1>1, WaitStep, SP!StepIInv
<1>4. SP!IInv => S!TypeOK /\ WaitMatchesEvidence /\ UnstableAfterFullWait /\ WaitIsBounded
  <2>1. SP!IInv => SP!TypeOK /\ SP!ResultMatchesEvidence /\ SP!UnstableAfterFullWait
                    /\ SP!WaitIsBounded
    BY <1>1, SP!Consequences DEF SP!IInv
  <2>2. SP!TypeOK => S!TypeOK
    BY DEF SP!TypeOK, S!TypeOK, SP!MaxAttempts, S!MaxAttempts
  <2>3. SP!ResultMatchesEvidence => WaitMatchesEvidence
    BY DEF SP!ResultMatchesEvidence, WaitMatchesEvidence, S!ResultMatchesEvidence,
           SP!StreakEndsAt, S!StreakEndsAt
  <2>4. SP!UnstableAfterFullWait => UnstableAfterFullWait
    BY DEF SP!UnstableAfterFullWait, UnstableAfterFullWait, S!UnstableAfterFullWait,
           SP!MaxAttempts, S!MaxAttempts
  <2>5. SP!WaitIsBounded => WaitIsBounded
    BY DEF SP!WaitIsBounded, WaitIsBounded, S!WaitIsBounded
  <2> QED
    BY <2>1, <2>2, <2>3, <2>4, <2>5
<1> QED
  BY <1>2, <1>3, <1>4, PTL DEF Spec

\* A run that gives up on stability has waited in full: no attempt was left
\* when the wait ended without a stable window.
THEOREM UnstableWaitIsFull == Spec => []UnstableAfterFullWait
BY WaitsAreSound, PTL

\* A wait of a run lasts at most the timeout and one read for each attempt.
THEOREM WaitBounded == Spec => []WaitIsBounded
BY WaitsAreSound, PTL

--------------------------------------------------------------------------------
(* Going on or stopping *)

LEMMA SomeIsNotNone ==
    /\ \A c \in Captures : c # None
    /\ \A o \in Outcomes : o # None
<1>1. DOMAIN None = {"none"}
  BY DEF None
<1>2. \A c \in Captures : DOMAIN c = {"stable", "samples", "build"}
  BY DEF Captures
<1>3. \A o \in Outcomes : DOMAIN o = {"verdict", "reason"}
  BY DEF Outcomes
<1> QED
  BY <1>1, <1>2, <1>3

Stopped ==
    /\ failure' \in Outcomes /\ failure' # None
    /\ failure'.verdict \in {"infrastructure_error", "inconclusive"}
    /\ step' \in {"cleanup", "verdict"}
    /\ step' = "cleanup" => authorized'

LEMMA InfrastructureStops ==
    ASSUME NEW reason \in Reasons, Fail(Infrastructure(reason)) PROVE Stopped
BY SomeIsNotNone DEF Fail, Stopped, Infrastructure, Outcome, Outcomes

LEMMA InconclusiveStops ==
    ASSUME NEW reason \in Reasons, Fail(Outcome("inconclusive", reason)) PROVE Stopped
BY SomeIsNotNone DEF Fail, Stopped, Outcome, Outcomes

LEMMA PackageFailureStops ==
    ASSUME NEW operation \in Reasons, PackageFailure(operation) PROVE Stopped
BY InfrastructureStops DEF PackageFailure, Reasons

LEMMA PersistenceFailureStops == PersistenceFailure => Stopped
BY InfrastructureStops DEF PersistenceFailure, Reasons

LEMMA EnterOrStop ==
    ASSUME NEW phase, Enter(phase)
    PROVE  \/ control = "Continue" /\ step' = phase /\ failure' = failure
           \/ Stopped
<1>1. ControlFailure => Stopped
  BY InfrastructureStops, InconclusiveStops DEF ControlFailure, Reasons
<1> QED
  BY <1>1, PersistenceFailureStops DEF Enter

LEMMA LiveIsUndecided == IInv /\ step \in LiveSteps => failure = None /\ result = None
BY DEF IInv, FailureIsFinal, ResultIsDerived, LiveSteps

\* After a stop nothing is claimed that a later step could break.
LEMMA StopStep ==
    ASSUME IInv, step \in LiveSteps, Stopped, result' = result, RunTypes',
           cleanup' = cleanup, authorized => authorized',
           side' = "baseline" => evidence'["baseline"] = None,
           UnstableWasFullyObserved'
    PROVE  IInv'
<1>1. result' = None /\ failure' # None /\ step' \notin LiveSteps
  BY LiveIsUndecided DEF Stopped, LiveSteps
<1>2. FailureIsFinal' /\ EvidenceFollowsSteps' /\ EvidenceMatches'
      /\ WaitIsOver' /\ ResultIsDerived'
  BY <1>1 DEF Stopped, FailureIsFinal, EvidenceFollowsSteps, EvidenceMatches,
              WaitIsOver, ResultIsDerived, LiveSteps
<1>3. CleanupIsDone'
  BY <1>1 DEF IInv, Stopped, CleanupIsDone, CleanupFailed, LiveSteps
<1> QED
  BY <1>2, <1>3 DEF IInv

--------------------------------------------------------------------------------
(* The steps *)

LEMMA InitIInv == Init => IInv
<1> SUFFICES ASSUME Init PROVE IInv
  OBVIOUS
<1>1. RunTypes
  <2>1. evidence \in [Sides -> Captures \cup {None}]
    BY DEF Init
  <2>2. side \in Sides
    BY DEF Init, Sides
  <2>3. /\ step = "queued" /\ analysis = "none" /\ cleanup = "pending"
        /\ failure \in Outcomes \cup {None} /\ result \in Outcomes \cup {None}
        /\ reused \in BOOLEAN /\ authorized \in BOOLEAN /\ bypassed \in BOOLEAN
    BY DEF Init
  <2>4. /\ candidate \in Candidates /\ target \in Builds \cup {NoBuild}
        /\ preview \in (UNION {PreviewsOf(b) : b \in Builds}) \cup {NoBuild}
    BY DEF Init
  <2> QED
    BY <2>1, <2>2, <2>3, <2>4 DEF RunTypes
<1>2. FailureIsFinal /\ EvidenceFollowsSteps /\ EvidenceMatches /\ CleanupIsDone
      /\ WaitIsOver /\ UnstableWasFullyObserved /\ ResultIsDerived
  BY DEF Init, FailureIsFinal, EvidenceFollowsSteps, EvidenceMatches, CleanupIsDone, CleanupFailed,
         WaitIsOver, UnstableWasFullyObserved, ResultIsDerived, LiveSteps, Sides
<1> QED
  BY <1>1, <1>2 DEF IInv

\* Steps that change nothing but the step and the failure.
LEMMA BoundaryStep ==
    ASSUME IInv, UNCHANGED runVars,
           NEW phase \in {"preflight", "preview", "stabilization", "capture"}, Enter(phase),
           \/ step = "queued" /\ phase = "preflight"
           \/ step = "preflight" /\ phase = "preview"
           \/ step = "install" /\ reused /\ phase = "stabilization"
           \/ step = "stabilization" /\ phase = "capture" /\ UNCHANGED stabVars /\ poll = "done"
                /\ (control = "Continue" /\ ~passed => Len(samples) = FullWait)
    PROVE  IInv'
<1>1. RunTypes /\ step \in LiveSteps /\ failure = None /\ result = None
  BY LiveIsUndecided DEF IInv, LiveSteps
<1>2. CASE Stopped
  <2>1. RunTypes'
    BY <1>1, <1>2 DEF RunTypes, Stopped, runVars
  <2>2. UnstableWasFullyObserved' /\ (side' = "baseline" => evidence'["baseline"] = None)
    BY DEF IInv, UnstableWasFullyObserved, EvidenceFollowsSteps, runVars
  <2> QED
    BY <1>1, <1>2, <2>1, <2>2, StopStep DEF runVars
<1>3. CASE control = "Continue" /\ step' = phase /\ failure' = failure
  <2>1. RunTypes'
    BY <1>1, <1>3 DEF RunTypes, runVars
  <2>2. FailureIsFinal' /\ EvidenceFollowsSteps' /\ UnstableWasFullyObserved' /\ ResultIsDerived'
    BY <1>1, <1>3 DEF IInv, FailureIsFinal, EvidenceFollowsSteps, UnstableWasFullyObserved,
                      ResultIsDerived, LiveSteps, runVars
  <2>3. EvidenceMatches'
    BY <1>1, <1>3 DEF IInv, EvidenceMatches, runVars, Wanted, PreviewsOf
  <2>4. CleanupIsDone'
    BY <1>1, <1>3 DEF IInv, CleanupIsDone, CleanupFailed, runVars
  <2>5. WaitIsOver'
    BY <1>3 DEF WaitIsOver, stabVars
  <2> QED
    BY <2>1, <2>2, <2>3, <2>4, <2>5 DEF IInv
<1> QED
  BY <1>2, <1>3, EnterOrStop

LEMMA StabilizationAssumed == SP!StabilizationAssumption
BY WaitAssumption DEF S!StabilizationAssumption, SP!StabilizationAssumption

\* A wait that is over and was not asked to stop took all its samples.
LEMMA UnstableIsFullyObserved ==
    ASSUME SP!IInv, poll = "done", control = "Continue", ~passed
    PROVE  Len(samples) = FullWait
<1>1. SP!MaxAttempts = S!MaxAttempts
  BY DEF SP!MaxAttempts, S!MaxAttempts
<1>2. attempt + 1 = SP!MaxAttempts
  BY DEF SP!IInv, SP!PollMatchesLocals
<1>3. Len(samples) = IF attempt + 1 <= MaxHistory THEN attempt + 1 ELSE MaxHistory
  BY DEF SP!IInv, SP!SamplesAreCounted
<1> QED
  BY <1>1, <1>2, <1>3 DEF FullWait

LEMMA StartStep == IInv /\ Start => IInv'
BY BoundaryStep DEF Start

LEMMA PreflightStep == ASSUME IInv, Preflight PROVE IInv'
<1>1. CASE Enter("preview")
  BY <1>1, BoundaryStep DEF Preflight
<1>2. CASE ~Enter("preview")
  <2>1. Stopped
    BY <1>2, PackageFailureStops, InfrastructureStops DEF Preflight, Reasons
  <2>2. RunTypes' /\ UnstableWasFullyObserved' /\ (side' = "baseline" => evidence'["baseline"] = None)
    BY <2>1 DEF IInv, RunTypes, Stopped, Preflight, runVars, UnstableWasFullyObserved,
                EvidenceFollowsSteps
  <2> QED
    BY <2>1, <2>2, StopStep DEF Preflight, runVars, LiveSteps
<1> QED
  BY <1>1, <1>2

LEMMA ReuseBaselineStep == IInv /\ ReuseBaseline => IInv'
BY BoundaryStep DEF ReuseBaseline

LEMMA StabilizedStep == IInv /\ SP!IInv /\ Stabilized => IInv'
BY BoundaryStep, UnstableIsFullyObserved DEF Stabilized

LEMMA PreviewInstallStep == ASSUME IInv, PreviewInstall PROVE IInv'
<1>1. /\ RunTypes /\ step \in LiveSteps /\ failure = None /\ result = None /\ step = "preview"
      /\ UNCHANGED <<side, candidate, target, authorized, bypassed, evidence, analysis, cleanup,
                     result, stabVars, control>>
  BY LiveIsUndecided DEF IInv, LiveSteps, PreviewInstall
<1>2. Baseline \in Builds /\ candidate \in Builds
  BY <1>1, BuildsAssumption DEF RunTypes
<1>3. /\ preview' \in (UNION {PreviewsOf(b) : b \in Builds}) \cup {NoBuild}
      /\ reused' \in BOOLEAN
  BY <1>1, <1>2 DEF PreviewInstall, RunTypes, ReuseOf, Wanted
<1>4. UnstableWasFullyObserved' /\ (side' = "baseline" => evidence'["baseline"] = None)
  BY <1>1 DEF IInv, UnstableWasFullyObserved, EvidenceFollowsSteps
<1>5. CASE Stopped
  <2>1. RunTypes'
    BY <1>1, <1>3, <1>5 DEF RunTypes, Stopped
  <2> QED
    BY <1>1, <1>4, <1>5, <2>1, StopStep
<1>6. CASE step' = "install" /\ failure' = failure
           /\ preview' \in PreviewsOf(Wanted(side)) /\ (side = "candidate" => ~reused')
  <2>1. RunTypes'
    BY <1>1, <1>3, <1>6 DEF RunTypes
  <2>2. FailureIsFinal' /\ EvidenceFollowsSteps' /\ ResultIsDerived'
    BY <1>1, <1>6 DEF IInv, FailureIsFinal, EvidenceFollowsSteps, ResultIsDerived, LiveSteps
  <2>3. EvidenceMatches'
    BY <1>1, <1>6 DEF IInv, EvidenceMatches, Wanted, PreviewsOf
  <2>4. CleanupIsDone' /\ WaitIsOver'
    BY <1>1, <1>6 DEF IInv, CleanupIsDone, CleanupFailed, WaitIsOver
  <2> QED
    BY <1>4, <2>1, <2>2, <2>3, <2>4 DEF IInv
<1>7. \/ Stopped
      \/ /\ step' = "install" /\ failure' = failure /\ preview' \in PreviewsOf(Wanted(side))
         /\ side = "candidate" => ~reused'
  <2>1. Unavailable \in Reasons
    BY DEF Unavailable, Reasons
  <2> QED
    BY <2>1, EnterOrStop, PackageFailureStops DEF PreviewInstall
<1> QED
  BY <1>5, <1>6, <1>7

\* Both mutations leave a target that only capture will look at.
LEMMA MutationStep ==
    ASSUME IInv, step = "install", authorized' = TRUE, target' \in Builds \cup {NoBuild},
           bypassed' \in BOOLEAN,
           UNCHANGED <<side, candidate, preview, reused, evidence, analysis, cleanup, result>>,
           \/ step' = "stabilization" /\ failure' = failure
           \/ Stopped
           \/ /\ failure' = Outcome("failed", "candidate_install_failed")
              /\ step' = "cleanup"
    PROVE  IInv'
<1>1. /\ RunTypes /\ step \in LiveSteps /\ failure = None /\ result = None
  BY LiveIsUndecided DEF IInv, LiveSteps
<1>2. UnstableWasFullyObserved' /\ (side' = "baseline" => evidence'["baseline"] = None)
  BY DEF IInv, UnstableWasFullyObserved, EvidenceFollowsSteps
<1>3. CASE Stopped
  <2>1. RunTypes'
    BY <1>1, <1>3 DEF RunTypes, Stopped
  <2> QED
    BY <1>1, <1>2, <1>3, <2>1, StopStep
<1>4. CASE step' = "stabilization" /\ failure' = failure
  <2>1. RunTypes'
    BY <1>1, <1>4 DEF RunTypes
  <2>2. FailureIsFinal' /\ EvidenceFollowsSteps' /\ ResultIsDerived'
    BY <1>1, <1>4 DEF IInv, FailureIsFinal, EvidenceFollowsSteps, ResultIsDerived, LiveSteps
  <2>3. EvidenceMatches'
    BY <1>1, <1>4 DEF IInv, EvidenceMatches, Wanted, PreviewsOf
  <2>4. CleanupIsDone' /\ WaitIsOver'
    BY <1>1, <1>4 DEF IInv, CleanupIsDone, CleanupFailed, WaitIsOver
  <2> QED
    BY <1>2, <2>1, <2>2, <2>3, <2>4 DEF IInv
<1>5. CASE failure' = Outcome("failed", "candidate_install_failed") /\ step' = "cleanup"
  <2>1. failure' \in Outcomes /\ failure' # None
    BY <1>5, SomeIsNotNone DEF Outcome, Outcomes, Reasons
  <2>2. RunTypes'
    BY <1>1, <1>5, <2>1 DEF RunTypes
  <2>3. evidence["candidate"] = None
    BY <1>1 DEF IInv, EvidenceFollowsSteps, LiveSteps
  <2>4. FailureIsFinal' /\ EvidenceFollowsSteps' /\ EvidenceMatches' /\ CleanupIsDone'
        /\ WaitIsOver' /\ ResultIsDerived'
    BY <1>1, <1>2, <1>5, <2>1, <2>3
       DEF FailureIsFinal, EvidenceFollowsSteps, EvidenceMatches, CleanupIsDone, CleanupFailed, WaitIsOver,
           ResultIsDerived, LiveSteps
  <2> QED
    BY <1>2, <2>2, <2>4 DEF IInv
<1> QED
  BY <1>3, <1>4, <1>5

LEMMA InstallBaselineStep == ASSUME IInv, InstallBaseline PROVE IInv'
<1>1. \/ step' = "stabilization" /\ failure' = failure
      \/ Stopped
  BY EnterOrStop, InfrastructureStops, InconclusiveStops DEF InstallBaseline, Reasons
<1> QED
  BY <1>1, MutationStep DEF InstallBaseline

LEMMA UpdateToCandidateStep == ASSUME IInv, UpdateToCandidate PROVE IInv'
<1>1. \/ step' = "stabilization" /\ failure' = failure
      \/ Stopped
      \/ failure' = Outcome("failed", "candidate_install_failed") /\ step' = "cleanup"
  BY EnterOrStop, InfrastructureStops DEF UpdateToCandidate, Reasons, Fail
<1>2. bypassed' \in BOOLEAN
  BY DEF IInv, RunTypes, UpdateToCandidate
<1> QED
  BY <1>1, <1>2, MutationStep DEF UpdateToCandidate

\* What was applied is what was previewed, when versions are reported.
LEMMA AppliedIsWanted ==
    ASSUME ~VersionsOmitted, NEW wanted \in Builds, target \in Builds,
           preview \in PreviewsOf(wanted), NEW shown \in DetailsOf(target), AppliedVersion(shown)
    PROVE  target = wanted
<1>1. shown.origin = target.origin /\ shown.version = target.version
  BY DEF DetailsOf
<1>2. /\ preview.origin = wanted.origin
      /\ wanted.origin = Registry => preview.version = wanted.version
  BY DEF PreviewsOf
<1>3. target.origin = wanted.origin
  BY <1>1, <1>2 DEF AppliedVersion
<1>4. CASE wanted.origin # Registry
  BY <1>3, <1>4, BuildsAssumption
<1>5. CASE wanted.origin = Registry
  <2>1. target.version = wanted.version
    BY <1>1, <1>2, <1>5, BuildsAssumption DEF AppliedVersion
  <2> QED
    BY <1>3, <2>1, BuildsAssumption
<1> QED
  BY <1>4, <1>5

LEMMA CaptureStep == ASSUME IInv, SP!IInv, Capture PROVE IInv'
<1>1. /\ RunTypes /\ step \in LiveSteps /\ step = "capture" /\ failure = None /\ result = None
      /\ UNCHANGED <<candidate, target, preview, reused, authorized, bypassed, analysis, cleanup,
                     result>>
  BY LiveIsUndecided DEF IInv, LiveSteps, Capture
<1>2. CASE UNCHANGED <<evidence, side>> /\ PackageFailure(Unavailable)
  <2>1. Stopped
    BY <1>2, PackageFailureStops DEF Unavailable, Reasons
  <2>2. RunTypes'
    BY <1>1, <1>2, <2>1 DEF RunTypes, Stopped
  <2>3. UnstableWasFullyObserved' /\ (side' = "baseline" => evidence'["baseline"] = None)
    BY <1>2 DEF IInv, UnstableWasFullyObserved, EvidenceFollowsSteps
  <2> QED
    BY <1>1, <2>1, <2>2, <2>3, StopStep
<1>3. CASE ~(UNCHANGED <<evidence, side>> /\ PackageFailure(Unavailable))
  <2> DEFINE c == [stable |-> passed, samples |-> Len(samples), build |-> target]
  <2>1. /\ target # NoBuild /\ side' = "candidate"
        /\ evidence' = [evidence EXCEPT ![side] = c]
    BY <1>3 DEF Capture
  <2>2. c \in Captures /\ c # None /\ target \in Builds
    <3>1. passed \in BOOLEAN /\ Len(samples) \in Nat
      BY DEF SP!IInv, SP!TypeOK
    <3>2. target \in Builds
      BY <1>1, <2>1 DEF RunTypes
    <3> QED
      BY <3>1, <3>2, SomeIsNotNone DEF Captures
  <2>3. /\ evidence' \in [Sides -> Captures \cup {None}] /\ side \in Sides
        /\ \A s \in Sides : evidence'[s] = IF s = side THEN c ELSE evidence[s]
    BY <1>1, <2>1, <2>2 DEF RunTypes
  <2>4. UnstableWasFullyObserved'
    <3>1. ~passed => Len(samples) = FullWait
      BY <1>1 DEF IInv, WaitIsOver
    <3>2. FullWait' = FullWait
      BY DEF FullWait, S!MaxAttempts
    <3>3. \A s \in Sides : (evidence[s] # None /\ ~evidence[s].stable)
                                => evidence[s].samples = FullWait
      BY DEF IInv, UnstableWasFullyObserved
    <3> HIDE DEF FullWait
    <3> QED
      BY <2>2, <2>3, <3>1, <3>2, <3>3 DEF UnstableWasFullyObserved
  <2>5. CASE Stopped
    <3>1. RunTypes'
      BY <1>1, <2>1, <2>3, <2>5 DEF RunTypes, Stopped, Sides
    <3> QED
      BY <1>1, <2>1, <2>4, <2>5, <3>1, StopStep
  <2>6. CASE /\ step' = NextSide /\ failure' = failure
             /\ \E shown \in DetailsOf(target) : AppliedVersion(shown)
    <3>0. step' = IF side = "baseline" THEN "preview" ELSE "analysis"
      BY <2>6 DEF NextSide
    <3>1. RunTypes'
      BY <1>1, <2>1, <2>3, <2>6, <3>0 DEF RunTypes, Sides
    <3>2. FailureIsFinal' /\ ResultIsDerived'
      BY <1>1, <2>6, <3>0 DEF FailureIsFinal, ResultIsDerived, LiveSteps
    <3>3. EvidenceFollowsSteps'
      <4>1. evidence["candidate"] = None
        BY <1>1 DEF IInv, EvidenceFollowsSteps, LiveSteps
      <4>2. side = "candidate" => evidence["baseline"] # None
        BY <1>1 DEF IInv, EvidenceFollowsSteps, LiveSteps
      <4>3. /\ side = "baseline" => evidence'["baseline"] # None /\ evidence'["candidate"] = None
            /\ side = "candidate" => evidence'["baseline"] # None /\ evidence'["candidate"] # None
        BY <2>2, <2>3, <4>1, <4>2 DEF Sides
      <4> HIDE DEF c
      <4> QED
        BY <1>1, <2>1, <2>3, <2>6, <3>0, <4>3 DEF EvidenceFollowsSteps, LiveSteps, Sides
    <3>4. EvidenceMatches'
      <4>1. SUFFICES ASSUME ~VersionsOmitted, NEW s \in Sides, evidence'[s] # None
                     PROVE  evidence'[s].build = Wanted(s)
        BY <1>1, <3>0 DEF EvidenceMatches, Wanted
      <4>2. Wanted(side) \in Builds
        BY <1>1, BuildsAssumption DEF RunTypes, Wanted
      <4>3. preview \in PreviewsOf(Wanted(side))
        BY <1>1, <4>1 DEF IInv, EvidenceMatches
      <4>4. target = Wanted(side)
        BY <2>2, <2>6, <4>1, <4>2, <4>3, AppliedIsWanted
      <4>5. evidence[s] # None => evidence[s].build = Wanted(s)
        BY <1>1, <4>1 DEF IInv, EvidenceMatches
      <4> QED
        BY <2>3, <4>1, <4>4, <4>5
    <3>5. CleanupIsDone' /\ WaitIsOver'
      BY <1>1, <2>1, <2>3, <3>0 DEF IInv, CleanupIsDone, CleanupFailed, WaitIsOver, Sides
    <3> QED
      BY <2>4, <3>1, <3>2, <3>3, <3>4, <3>5 DEF IInv
  <2>7. \/ Stopped
        \/ /\ step' = NextSide /\ failure' = failure
           /\ \E shown \in DetailsOf(target) : AppliedVersion(shown)
    <3>1. PICK shown \in DetailsOf(target) :
            IF AppliedVersion(shown) THEN Enter(NextSide)
            ELSE Fail(Infrastructure(InstallFailed)) \/ PersistenceFailure
      BY <1>3 DEF Capture
    <3>2. InstallFailed \in Reasons
      BY DEF InstallFailed, Reasons
    <3> QED
      BY <3>1, <3>2, EnterOrStop, InfrastructureStops, PersistenceFailureStops
  <2> QED
    BY <2>5, <2>6, <2>7
<1> QED
  BY <1>2, <1>3

LEMMA AnalyzeStep == ASSUME IInv, Analyze PROVE IInv'
<1>1. /\ RunTypes /\ step \in LiveSteps /\ step = "analysis" /\ failure = None /\ result = None
      /\ UNCHANGED <<side, candidate, target, preview, reused, authorized, bypassed, evidence,
                     cleanup, result>>
  BY LiveIsUndecided DEF IInv, LiveSteps, Analyze
<1>2. analysis' \in Statuses
  <2>1. PICK heuristic \in Statuses \ {"inconclusive"}, nexus \in Statuses :
            analysis' \in {heuristic, Strongest(heuristic, nexus)}
    BY DEF Analyze
  <2>2. Strongest(heuristic, nexus) \in Statuses
    BY Zenon DEF Strongest, Statuses
  <2> QED
    BY <2>1, <2>2
<1>3. UnstableWasFullyObserved' /\ (side' = "baseline" => evidence'["baseline"] = None)
  BY <1>1 DEF IInv, UnstableWasFullyObserved, EvidenceFollowsSteps
<1>4. CASE Stopped
  <2>1. RunTypes'
    BY <1>1, <1>2, <1>4 DEF RunTypes, Stopped
  <2> QED
    BY <1>1, <1>3, <1>4, <2>1, StopStep
<1>5. CASE step' = "cleanup" /\ failure' = failure
  <2>1. RunTypes'
    BY <1>1, <1>2, <1>5 DEF RunTypes
  <2>2. FailureIsFinal' /\ ResultIsDerived' /\ EvidenceFollowsSteps' /\ EvidenceMatches'
        /\ CleanupIsDone' /\ WaitIsOver'
    BY <1>1, <1>5 DEF IInv, FailureIsFinal, ResultIsDerived, EvidenceFollowsSteps,
                      EvidenceMatches, CleanupIsDone, CleanupFailed, WaitIsOver,
                      LiveSteps, Wanted
  <2> QED
    BY <1>3, <2>1, <2>2 DEF IInv
<1> QED
  BY <1>4, <1>5, PersistenceFailureStops DEF Analyze

LEMMA CleanupStep == ASSUME IInv, Cleanup PROVE IInv'
<1>1. /\ step = "cleanup" /\ RunTypes
      /\ UNCHANGED <<side, candidate, target, preview, reused, authorized, bypassed, evidence,
                     analysis, failure, result>>
      /\ step' \in {"verdict", "aborted"}
      /\ cleanup' \in {"pending", "passed", "failed", "timed_out"}
      /\ step' = "verdict" => cleanup' \in {"passed", "failed", "timed_out"}
  BY DEF IInv, Cleanup
<1>2. RunTypes'
  BY <1>1 DEF RunTypes
<1>3. FailureIsFinal' /\ ResultIsDerived' /\ EvidenceFollowsSteps' /\ EvidenceMatches'
  BY <1>1 DEF IInv, FailureIsFinal, ResultIsDerived, EvidenceFollowsSteps, EvidenceMatches,
              LiveSteps, Wanted
<1>4. CleanupIsDone' /\ WaitIsOver' /\ UnstableWasFullyObserved'
  BY <1>1 DEF IInv, CleanupIsDone, CleanupFailed, WaitIsOver, UnstableWasFullyObserved
<1> QED
  BY <1>2, <1>3, <1>4 DEF IInv

LEMMA VerdictIsOutcome ==
    /\ DeterministicVerdict \in Outcomes
    /\ \A o \in Outcomes : Downgraded(o) \in Outcomes
<1>1. DeterministicVerdict \in
        {Outcome("failed", "candidate_containers_unstable"),
         Outcome("warning", "candidate_containers_stable"),
         Outcome("passed", "candidate_containers_stable"),
         Outcome("warning", "baseline_containers_unstable"),
         Outcome("inconclusive", "baseline_containers_unstable")}
  BY Zenon DEF DeterministicVerdict
<1>2. \A o \in Outcomes : Downgraded(o) \in
        {o, Outcome("warning", "cleanup_failed"),
         Outcome("warning", "baseline_signature_invalid")}
  BY Zenon DEF Downgraded
<1> QED
  BY <1>1, <1>2 DEF Outcome, Outcomes, Reasons

LEMMA FinishStep == ASSUME IInv, Finish PROVE IInv'
<1>1. /\ step = "verdict" /\ RunTypes /\ result = None
      /\ UNCHANGED <<side, candidate, target, preview, reused, authorized, bypassed, evidence,
                     analysis, failure>>
      /\ step' \in {"finished", "aborted"}
      /\ cleanup' = IF authorized THEN cleanup ELSE "skipped"
  BY DEF IInv, Finish, ResultIsDerived
<1>2. \/ /\ step' = "finished"
         /\ result' = Downgraded(IF failure # None THEN failure ELSE DeterministicVerdict)
      \/ step' = "aborted" /\ result' = None
  BY <1>1 DEF Finish
<1>3. result' \in Outcomes \cup {None}
  BY <1>1, <1>2, VerdictIsOutcome DEF RunTypes
<1>4. RunTypes'
  BY <1>1, <1>3 DEF RunTypes
<1>5. FailureIsFinal' /\ EvidenceFollowsSteps' /\ EvidenceMatches'
  BY <1>1 DEF IInv, FailureIsFinal, EvidenceFollowsSteps, EvidenceMatches, LiveSteps, Wanted
<1>6. CleanupIsDone' /\ WaitIsOver' /\ UnstableWasFullyObserved'
  BY <1>1 DEF IInv, CleanupIsDone, CleanupFailed, WaitIsOver, UnstableWasFullyObserved
<1>7. ResultIsDerived'
  <2>1. DeterministicVerdict' = DeterministicVerdict
    BY <1>1 DEF DeterministicVerdict, HardCheck
  <2>2. CleanupFailed' <=> CleanupFailed
    <3>1. CASE authorized
      BY <1>1, <3>1 DEF CleanupFailed
    <3>2. CASE ~authorized
      BY <1>1, <3>2 DEF IInv, CleanupIsDone, CleanupFailed
    <3> QED
      BY <3>1, <3>2
  <2> QED
    BY <1>1, <1>2, <2>1, <2>2 DEF ResultIsDerived, Downgraded
<1> QED
  BY <1>4, <1>5, <1>6, <1>7 DEF IInv

\* While stabilize runs, execute waits for it.
LEMMA WaitingStep ==
    ASSUME IInv, UNCHANGED <<step, failure, runVars>>,
           step = "capture" => UNCHANGED <<poll, passed, samples>>
    PROVE  IInv'
<1>1. RunTypes' /\ FailureIsFinal' /\ EvidenceFollowsSteps'
  BY DEF IInv, runVars, RunTypes, FailureIsFinal, EvidenceFollowsSteps
<1>2. EvidenceMatches' /\ CleanupIsDone' /\ UnstableWasFullyObserved'
  BY DEF IInv, runVars, EvidenceMatches, CleanupIsDone, CleanupFailed, UnstableWasFullyObserved,
         Wanted
<1>3. WaitIsOver'
  BY DEF IInv, WaitIsOver
<1>4. ResultIsDerived'
  BY DEF IInv, runVars, ResultIsDerived, Downgraded, DeterministicVerdict, HardCheck,
         CleanupFailed
<1> QED
  BY <1>1, <1>2, <1>3, <1>4 DEF IInv

LEMMA StepIInv == ASSUME IInv, SP!IInv, [Next]_vars PROVE IInv'
<1>1. CASE RunController
  BY <1>1, StartStep, PreflightStep, PreviewInstallStep, ReuseBaselineStep, InstallBaselineStep,
     UpdateToCandidateStep, WaitingStep, StabilizedStep, CaptureStep, AnalyzeStep, CleanupStep,
     FinishStep DEF RunController, Stabilize
<1>2. CASE ContainersChange
  BY <1>2, WaitingStep DEF ContainersChange
<1>3. CASE Heartbeat
  BY <1>3, WaitingStep DEF Heartbeat, S!StopRequested, S!local
<1>4. CASE UNCHANGED vars
  BY <1>4, WaitingStep DEF vars, stabVars
<1> QED
  BY <1>1, <1>2, <1>3, <1>4 DEF Next

LEMMA Invariance == Spec => [](IInv /\ SP!IInv)
<1>1. Init => IInv /\ SP!IInv
  BY InitIInv, WaitInit, StabilizationAssumed, SP!InitIInv
<1>2. IInv /\ SP!IInv /\ [Next]_vars => IInv' /\ SP!IInv'
  BY StepIInv, StabilizationAssumed, WaitStep, SP!StepIInv
<1> QED
  BY <1>1, <1>2, PTL DEF Spec

--------------------------------------------------------------------------------
(* The verdict *)

\* Every variable of a run stays in its range.
THEOREM TypesHold == Spec => []TypeOK
<1>1. IInv => RunTypes
  BY DEF IInv
<1> QED
  BY <1>1, Invariance, WaitsAreSound, PTL DEF TypeOK

\* Instability is only ever recorded after a full wait, however the run,
\* its containers and the coordinator interleave.
THEOREM InstabilityIsObserved == Spec => []UnstableWasFullyObserved
<1>1. IInv => UnstableWasFullyObserved
  BY DEF IInv
<1> QED
  BY <1>1, Invariance, PTL

\* A result is what run_algorithm failed with, or the verdict on two captures.
LEMMA ResultCases ==
    ASSUME IInv, result # None
    PROVE  \/ failure # None /\ result = failure /\ result.verdict # "passed"
           \/ /\ failure = None /\ evidence["baseline"] # None /\ evidence["candidate"] # None
              /\ cleanup \in {"passed", "failed", "timed_out"}
              /\ result = Downgraded(DeterministicVerdict)
<1>1. /\ step = "finished"
      /\ result = Downgraded(IF failure # None THEN failure ELSE DeterministicVerdict)
  BY DEF IInv, ResultIsDerived
<1>2. CASE failure # None
  <2>1. failure.verdict # "passed"
    BY <1>2 DEF IInv, FailureIsFinal, Outcome
  <2>2. Downgraded(failure) = failure
    BY <2>1, Zenon DEF Downgraded
  <2> QED
    BY <1>1, <1>2, <2>1, <2>2
<1>3. CASE failure = None
  BY <1>1, <1>3 DEF IInv, EvidenceFollowsSteps, CleanupIsDone, LiveSteps
<1> QED
  BY <1>2, <1>3

LEMMA PassCase ==
    ASSUME Downgraded(DeterministicVerdict).verdict = "passed"
    PROVE  /\ HardCheck("baseline") /\ HardCheck("candidate")
           /\ analysis # "critical" /\ ~CleanupFailed /\ ~bypassed
<1>1. /\ Outcome("warning", "cleanup_failed").verdict # "passed"
      /\ Outcome("warning", "baseline_signature_invalid").verdict # "passed"
      /\ Outcome("failed", "candidate_containers_unstable").verdict # "passed"
      /\ Outcome("warning", "candidate_containers_stable").verdict # "passed"
      /\ Outcome("warning", "baseline_containers_unstable").verdict # "passed"
      /\ Outcome("inconclusive", "baseline_containers_unstable").verdict # "passed"
  BY DEF Outcome
<1>2. DeterministicVerdict.verdict = "passed" /\ ~CleanupFailed /\ ~bypassed
  BY <1>1, Zenon DEF Downgraded
<1> QED
  BY <1>1, <1>2, Zenon DEF DeterministicVerdict

LEMMA BlameCase ==
    ASSUME Downgraded(DeterministicVerdict).verdict = "failed"
    PROVE  /\ HardCheck("baseline") /\ ~HardCheck("candidate")
           /\ Downgraded(DeterministicVerdict)
                = Outcome("failed", "candidate_containers_unstable")
<1>1. /\ Outcome("warning", "cleanup_failed").verdict # "failed"
      /\ Outcome("warning", "baseline_signature_invalid").verdict # "failed"
      /\ Outcome("passed", "candidate_containers_stable").verdict # "failed"
      /\ Outcome("warning", "candidate_containers_stable").verdict # "failed"
      /\ Outcome("warning", "baseline_containers_unstable").verdict # "failed"
      /\ Outcome("inconclusive", "baseline_containers_unstable").verdict # "failed"
  BY DEF Outcome
<1>2. Downgraded(DeterministicVerdict) = DeterministicVerdict
  BY <1>1, Zenon DEF Downgraded
<1> QED
  BY <1>1, <1>2, Zenon DEF DeterministicVerdict

(***************************************************************************)
(* When Dappmanager reports versions, a pass is about the requested        *)
(* upgrade, seen stable on both sides, on a node that was cleaned up, with *)
(* no signature bypassed (run_algorithm, deterministic_verdict, execute).  *)
(***************************************************************************)
THEOREM PassHolds == ASSUME ~VersionsOmitted PROVE Spec => []PassIsEarned
<1>1. ASSUME IInv PROVE PassIsEarned
  <2>1. SUFFICES ASSUME Verdict = "passed"
                 PROVE  /\ \A s \in Sides : HardCheck(s) /\ evidence[s].build = Wanted(s)
                        /\ cleanup = "passed" /\ ~bypassed /\ analysis # "critical"
    BY DEF PassIsEarned
  <2>2. result # None /\ result.verdict = "passed"
    BY <2>1 DEF Verdict
  <2>3. /\ failure = None /\ evidence["baseline"] # None /\ evidence["candidate"] # None
        /\ cleanup \in {"passed", "failed", "timed_out"}
        /\ result = Downgraded(DeterministicVerdict)
    BY <1>1, <2>2, ResultCases
  <2>4. /\ HardCheck("baseline") /\ HardCheck("candidate")
        /\ analysis # "critical" /\ ~CleanupFailed /\ ~bypassed
    BY <2>2, <2>3, PassCase
  <2>5. \A s \in Sides : evidence[s].build = Wanted(s)
    BY <1>1, <2>3 DEF IInv, EvidenceMatches, Sides
  <2> QED
    BY <2>3, <2>4, <2>5 DEF CleanupFailed, Sides
<1> QED
  BY <1>1, Invariance, PTL

(***************************************************************************)
(* The candidate is only blamed for a refused update or for instability of *)
(* the requested build, seen through a full wait after a stable baseline.  *)
(***************************************************************************)
THEOREM BlameHolds == ASSUME ~VersionsOmitted PROVE Spec => []BlameIsEarned
<1>1. ASSUME IInv PROVE BlameIsEarned
  <2>1. SUFFICES ASSUME Verdict = "failed"
                 PROVE  BlameIsEarned
    BY DEF BlameIsEarned
  <2>2. result # None /\ result.verdict = "failed"
    BY <2>1 DEF Verdict
  <2>3. CASE failure # None /\ result = failure
    <3>1. result.reason = "candidate_install_failed" /\ evidence["candidate"] = None
      BY <1>1, <2>2, <2>3 DEF IInv, FailureIsFinal, Outcome
    <3> QED
      BY <3>1 DEF BlameIsEarned
  <2>4. CASE /\ failure = None /\ evidence["baseline"] # None /\ evidence["candidate"] # None
             /\ result = Downgraded(DeterministicVerdict)
    <3>1. /\ HardCheck("baseline") /\ ~HardCheck("candidate")
          /\ result.reason = "candidate_containers_unstable"
      BY <2>2, <2>4, BlameCase DEF Outcome
    <3>2. evidence["candidate"].build = candidate
      BY <1>1, <2>4 DEF IInv, EvidenceMatches, Sides, Wanted
    <3>3. evidence["candidate"].samples = FullWait
      BY <1>1, <2>4, <3>1 DEF IInv, UnstableWasFullyObserved, HardCheck, Sides
    <3> QED
      BY <3>1, <3>2, <3>3 DEF BlameIsEarned
  <2> QED
    BY <1>1, <2>2, <2>3, <2>4, ResultCases
<1> QED
  BY <1>1, Invariance, PTL

(***************************************************************************)
(* A bypassed baseline signature takes a pass back and hides no failure.   *)
(***************************************************************************)
THEOREM BypassHolds == Spec => []BypassIsReported
<1>1. ASSUME IInv PROVE BypassIsReported
  <2>1. SUFFICES ASSUME result # None, bypassed PROVE BypassIsReported
    BY DEF BypassIsReported
  <2>2. CASE failure # None /\ result = failure /\ result.verdict # "passed"
    BY <2>2 DEF BypassIsReported
  <2>3. CASE /\ failure = None
             /\ result = Downgraded(DeterministicVerdict)
    <3>1. result.verdict # "passed"
      BY <2>1, <2>3, PassCase
    <3>2. ASSUME HardCheck("baseline"), HardCheck("candidate"), analysis # "critical",
                 cleanup = "passed"
          PROVE  result = Outcome("warning", "baseline_signature_invalid")
      <4>1. DeterministicVerdict = Outcome("passed", "candidate_containers_stable")
        BY <3>2, Zenon DEF DeterministicVerdict
      <4>2. DeterministicVerdict.verdict = "passed" /\ ~CleanupFailed
        BY <3>2, <4>1 DEF Outcome, CleanupFailed
      <4> QED
        BY <2>1, <2>3, <4>2, Zenon DEF Downgraded
    <3> QED
      BY <2>3, <3>1, <3>2 DEF BypassIsReported
  <2> QED
    BY <1>1, <2>1, <2>2, <2>3, ResultCases
<1> QED
  BY <1>1, Invariance, PTL

(***************************************************************************)
(* Once the heartbeat has asked the run to stop, no further phase starts.  *)
(***************************************************************************)
THEOREM StopsHold == Spec => StopsAtNextBoundary
<1> DEFINE Ends == {"cleanup", "verdict", "finished", "aborted"}
<1>1. ASSUME [Next]_vars, control # "Continue", step' # step PROVE step' \in Ends
  <2>1. ASSUME NEW phase, Enter(phase) PROVE step' \in Ends
    BY <1>1, <2>1, EnterOrStop DEF Stopped
  <2>2. ASSUME Stopped PROVE step' \in Ends
    BY <2>2 DEF Stopped
  <2>3. CASE Start \/ ReuseBaseline \/ Stabilized
    BY <2>1, <2>3 DEF Start, ReuseBaseline, Stabilized
  <2>4. CASE Preflight
    BY <2>1, <2>2, <2>4, PackageFailureStops, InfrastructureStops DEF Preflight, Reasons
  <2>5. CASE PreviewInstall
    <3>1. Unavailable \in Reasons
      BY DEF Unavailable, Reasons
    <3> QED
      BY <2>1, <2>2, <2>5, <3>1, PackageFailureStops DEF PreviewInstall
  <2>6. CASE InstallBaseline
    BY <2>1, <2>2, <2>6, InfrastructureStops, InconclusiveStops DEF InstallBaseline, Reasons
  <2>7. CASE UpdateToCandidate
    BY <2>1, <2>2, <2>7, InfrastructureStops DEF UpdateToCandidate, Reasons, Fail
  <2>8. CASE Capture
    <3>1. Unavailable \in Reasons /\ InstallFailed \in Reasons
      BY DEF Unavailable, InstallFailed, Reasons
    <3> QED
      BY <2>1, <2>2, <2>8, <3>1, PackageFailureStops, InfrastructureStops,
         PersistenceFailureStops DEF Capture
  <2>9. CASE Analyze \/ Cleanup \/ Finish
    BY <2>2, <2>9, PersistenceFailureStops DEF Analyze, Cleanup, Finish
  <2>10. CASE Stabilize \/ ContainersChange \/ Heartbeat \/ UNCHANGED vars
    BY <1>1, <2>10 DEF Stabilize, ContainersChange, Heartbeat, vars
  <2> QED
    BY <1>1, <2>3, <2>4, <2>5, <2>6, <2>7, <2>8, <2>9, <2>10 DEF Next, RunController
<1>2. [Next]_vars => [(control # "Continue" /\ step' # step) => step' \in Ends]_vars
  BY <1>1
<1> QED
  BY <1>2, PTL DEF Spec, StopsAtNextBoundary
================================================================================
