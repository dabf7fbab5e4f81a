-------------------------- MODULE StabilizationProofs --------------------------
(***************************************************************************)
(* Proofs about Stabilization, for every set of names, timeout, interval,  *)
(* number of samples and bound that Config::from_env accepts.              *)
(***************************************************************************)
EXTENDS Stabilization, TLAPS

\* The streak that the locals of stabilize stand for: the last `consecutive`
\* samples show `expected`, the one before them, if it is kept, does not.
StreakIsMaximal ==
    /\ expected = IF samples = <<>> THEN {} ELSE samples[Len(samples)]
    /\ consecutive = 0 <=> expected = {}
    /\ consecutive <= Len(samples)
    /\ \A k \in Len(samples) - consecutive + 1 .. Len(samples) : samples[k] = expected
    /\ (consecutive < Len(samples) /\ consecutive > 0)
            => samples[Len(samples) - consecutive] # expected

\* Where stabilize is tells how far it is.
PollMatchesLocals ==
    /\ passed <=> consecutive >= RequiredSamples
    /\ passed => poll = "done"
    /\ poll = "asleep" => attempt + 1 < MaxAttempts
    /\ (poll = "done" /\ ~passed /\ control = "Continue") => attempt + 1 = MaxAttempts

\* Sleeps and reads so far.
TimeIsAccounted ==
    elapsed <= attempt * PollInterval
                + (IF poll \in {"asleep", "done"} THEN attempt + 1 ELSE attempt) * ReadTimeout

\* Samples so far, while nothing has cut the wait short.
SamplesAreCounted ==
    (poll = "done" => control = "Continue") =>
        LET taken == IF poll \in {"asleep", "done"} THEN attempt + 1 ELSE attempt
        IN  Len(samples) = IF taken <= MaxHistory THEN taken ELSE MaxHistory

IInv ==
    /\ TypeOK
    /\ StreakIsMaximal
    /\ PollMatchesLocals
    /\ ~passed => \A i \in RequiredSamples .. Len(samples) : ~StreakEndsAt(i, RequiredSamples)
    /\ TimeIsAccounted
    /\ SamplesAreCounted

--------------------------------------------------------------------------------
(* Numbers *)

\* The attempts are enough for the required samples, and their intervals fit
\* the timeout (the last check of Config::from_env).
LEMMA AttemptsFit ==
    ASSUME StabilizationAssumption
    PROVE  /\ MaxAttempts \in Nat \ {0}
           /\ MaxAttempts >= RequiredSamples
           /\ \A a \in 0 .. MaxAttempts - 1 : a * PollInterval <= Timeout
<1> DEFINE q == Timeout \div PollInterval
<1>1. /\ q \in Nat
      /\ q * PollInterval <= Timeout
      /\ Timeout < (q + 1) * PollInterval
  BY DEF StabilizationAssumption
<1>2. RequiredSamples - 1 <= q
  <2>1. SUFFICES ASSUME RequiredSamples - 1 >= q + 1 PROVE FALSE
    BY <1>1 DEF StabilizationAssumption
  <2>2. (RequiredSamples - 1) * PollInterval >= (q + 1) * PollInterval
    <3> DEFINE d == RequiredSamples - 1 - (q + 1)
    <3>1. d \in Nat /\ RequiredSamples - 1 = q + 1 + d
      BY <1>1, <2>1 DEF StabilizationAssumption
    <3>2. d * PollInterval >= 0
      BY <3>1 DEF StabilizationAssumption
    <3>3. (q + 1 + d) * PollInterval = (q + 1) * PollInterval + d * PollInterval
      BY <1>1, <3>1 DEF StabilizationAssumption
    <3> QED
      BY <1>1, <3>1, <3>2, <3>3 DEF StabilizationAssumption
  <2> QED
    BY <1>1, <2>2 DEF StabilizationAssumption
<1>3. /\ MaxAttempts \in Nat \ {0}
      /\ MaxAttempts >= RequiredSamples
      /\ MaxAttempts - 1 <= q
  BY <1>1, <1>2 DEF StabilizationAssumption, MaxAttempts
<1>4. ASSUME NEW a \in 0 .. MaxAttempts - 1 PROVE a * PollInterval <= Timeout
  <2> DEFINE d == q - a
  <2>1. a \in Nat /\ d \in Nat /\ q = a + d
    BY <1>1, <1>3
  <2>2. d * PollInterval >= 0
    BY <2>1 DEF StabilizationAssumption
  <2>3. (a + d) * PollInterval = a * PollInterval + d * PollInterval
    BY <2>1 DEF StabilizationAssumption
  <2> QED
    BY <1>1, <2>1, <2>2, <2>3 DEF StabilizationAssumption
<1> QED
  BY <1>3, <1>4

--------------------------------------------------------------------------------
(* push_sample *)

\* The history after a sample: the sample is its last element, the others are
\* the old ones, without the first (d = 1) or all (d = 0).
LEMMA PushedShape ==
    ASSUME StabilizationAssumption, TypeOK, NEW names \in SUBSET Containers
    PROVE  LET s == Pushed(names)
           IN  /\ s \in Seq(SUBSET Containers)
               /\ s # <<>>
               /\ Len(s) <= MaxHistory
               /\ s[Len(s)] = names
               /\ \E d \in {0, 1} :
                    /\ Len(s) = Len(samples) + 1 - d
                    /\ d = 1 => Len(s) = MaxHistory
                    /\ \A k \in 1 .. Len(s) - 1 : s[k] = samples[k + d]
<1>1. CASE Len(samples) = MaxHistory
  <2>1. Pushed(names) = Append(Tail(samples), names)
    BY <1>1 DEF Pushed
  <2>2. Len(samples) \in Nat \ {0} /\ samples # <<>>
    BY <1>1 DEF StabilizationAssumption, TypeOK
  <2>3. /\ Tail(samples) \in Seq(SUBSET Containers)
        /\ Len(Tail(samples)) = Len(samples) - 1
        /\ \A k \in 1 .. Len(samples) - 1 : Tail(samples)[k] = samples[k + 1]
    BY <2>2 DEF TypeOK
  <2>4. /\ Pushed(names) \in Seq(SUBSET Containers)
        /\ Len(Pushed(names)) = Len(samples)
        /\ Pushed(names)[Len(samples)] = names
        /\ \A k \in 1 .. Len(samples) - 1 : Pushed(names)[k] = samples[k + 1]
    BY <2>1, <2>2, <2>3
  <2> QED
    BY <1>1, <2>2, <2>4 DEF StabilizationAssumption
<1>2. CASE Len(samples) # MaxHistory
  <2>1. Pushed(names) = Append(samples, names) /\ Len(samples) \in Nat
    BY <1>2 DEF Pushed, TypeOK
  <2>2. /\ Pushed(names) \in Seq(SUBSET Containers)
        /\ Len(Pushed(names)) = Len(samples) + 1
        /\ Pushed(names)[Len(samples) + 1] = names
        /\ \A k \in 1 .. Len(samples) : Pushed(names)[k] = samples[k]
    BY <2>1 DEF TypeOK
  <2>3. Len(samples) + 1 <= MaxHistory
    BY <1>2, <2>1 DEF TypeOK, StabilizationAssumption
  <2> QED
    BY <2>1, <2>2, <2>3
<1> QED
  BY <1>1, <1>2

\* The streak after a sample is again the maximal one.
LEMMA StreakStep ==
    ASSUME StabilizationAssumption, TypeOK, StreakIsMaximal, consecutive < RequiredSamples,
           NEW names \in SUBSET Containers,
           samples' = Pushed(names), expected' = names, consecutive' = Streak(names)
    PROVE  StreakIsMaximal'
<1> DEFINE s == Pushed(names)
<1>1. /\ s \in Seq(SUBSET Containers)
      /\ s # <<>>
      /\ Len(s) <= MaxHistory
      /\ s[Len(s)] = names
      /\ Len(s) \in Nat \ {0}
  BY PushedShape
<1>2. PICK d \in {0, 1} :
        /\ Len(s) = Len(samples) + 1 - d
        /\ d = 1 => Len(s) = MaxHistory
        /\ \A k \in 1 .. Len(s) - 1 : s[k] = samples[k + d]
  BY PushedShape
<1>3. Len(samples) \in Nat /\ consecutive \in Nat /\ consecutive <= Len(samples)
  BY DEF TypeOK, StreakIsMaximal, StabilizationAssumption
<1>4. CASE names = {}
  <2>1. consecutive' = 0
    BY <1>4 DEF Streak
  <2> QED
    BY <1>1, <1>4, <2>1 DEF StreakIsMaximal
<1>5. CASE names # {} /\ names # expected
  <2>1. consecutive' = 1
    BY <1>5 DEF Streak
  <2>2. Len(s) > 1 => s[Len(s) - 1] = expected
    <3>1. SUFFICES ASSUME Len(s) > 1 PROVE s[Len(s) - 1] = expected
      OBVIOUS
    <3>2. s[Len(s) - 1] = samples[Len(samples)] /\ samples # <<>>
      BY <1>1, <1>2, <1>3, <3>1
    <3> QED
      BY <3>2 DEF StreakIsMaximal
  <2> QED
    BY <1>1, <1>5, <2>1, <2>2 DEF StreakIsMaximal
<1>6. CASE names # {} /\ names = expected
  <2>1. consecutive' = consecutive + 1 /\ consecutive > 0
    BY <1>3, <1>6 DEF Streak, StreakIsMaximal
  <2>2. consecutive + 1 <= Len(s)
    BY <1>2, <1>3 DEF StabilizationAssumption
  <2>3. \A k \in Len(s) - consecutive .. Len(s) : s[k] = names
    <3>1. SUFFICES ASSUME NEW k \in Len(s) - consecutive .. Len(s) - 1 PROVE s[k] = names
      BY <1>1, <1>3, <2>1
    <3>2. k \in 1 .. Len(s) - 1 /\ k + d \in Len(samples) - consecutive + 1 .. Len(samples)
      BY <1>1, <1>2, <1>3, <2>2
    <3>3. s[k] = samples[k + d] /\ samples[k + d] = expected
      BY <1>2, <3>2 DEF StreakIsMaximal
    <3> QED
      BY <1>6, <3>3
  <2>4. consecutive + 1 < Len(s) => s[Len(s) - (consecutive + 1)] # names
    <3>1. SUFFICES ASSUME consecutive + 1 < Len(s)
                   PROVE  s[Len(s) - (consecutive + 1)] # names
      OBVIOUS
    <3>2. /\ Len(s) - (consecutive + 1) \in 1 .. Len(s) - 1
          /\ Len(s) - (consecutive + 1) + d = Len(samples) - consecutive
          /\ consecutive < Len(samples)
      BY <1>1, <1>2, <1>3, <3>1
    <3>3. s[Len(s) - (consecutive + 1)] = samples[Len(samples) - consecutive]
      BY <1>2, <3>2
    <3> QED
      BY <1>6, <2>1, <3>2, <3>3 DEF StreakIsMaximal
  <2> QED
    BY <1>1, <1>3, <1>6, <2>1, <2>2, <2>3, <2>4 DEF StreakIsMaximal
<1> QED
  BY <1>4, <1>5, <1>6

\* The sample that completes a required streak is the one that passes.
LEMMA HistoryStep ==
    ASSUME StabilizationAssumption, TypeOK, IInv, consecutive < RequiredSamples, ~passed,
           StreakIsMaximal', consecutive' \in Nat, consecutive' < RequiredSamples,
           NEW names \in SUBSET Containers, samples' = Pushed(names), expected' = names
    PROVE  \A i \in RequiredSamples .. Len(samples') : ~StreakEndsAt(i, RequiredSamples)'
<1> DEFINE s == Pushed(names)
<1>1. /\ s \in Seq(SUBSET Containers)
      /\ Len(s) \in Nat \ {0}
      /\ s[Len(s)] = names
  BY PushedShape
<1>2. PICK d \in {0, 1} :
        /\ Len(s) = Len(samples) + 1 - d
        /\ d = 1 => Len(s) = MaxHistory
        /\ \A k \in 1 .. Len(s) - 1 : s[k] = samples[k + d]
  BY PushedShape
<1>3. Len(samples) \in Nat /\ RequiredSamples \in Nat \ {0}
  BY DEF TypeOK, StabilizationAssumption
<1>4. SUFFICES ASSUME NEW i \in RequiredSamples .. Len(s), s[i] # {},
                      \A k \in i - RequiredSamples + 1 .. i : s[k] = s[i]
               PROVE  FALSE
  BY DEF StreakEndsAt
<1>s. samples' = s
  OBVIOUS
<1>d. d \in {0, 1}
  OBVIOUS
<1> HIDE DEF s
<1>5. CASE i = Len(s)
  <2>1. consecutive' > 0 /\ expected' = names
    BY <1>1, <1>4, <1>5, <1>s DEF StreakIsMaximal
  <2>2. /\ Len(s) - consecutive' \in i - RequiredSamples + 1 .. i
        /\ consecutive' < Len(s)
    BY <1>1, <1>3, <1>4, <1>5, <2>1
  <2>3. s[Len(s) - consecutive'] # names
    BY <1>s, <2>1, <2>2 DEF StreakIsMaximal
  <2> QED
    BY <1>1, <1>4, <1>5, <2>2, <2>3
<1>6. CASE i # Len(s)
  <2>1. i + d \in RequiredSamples .. Len(samples)
    BY <1>1, <1>2, <1>3, <1>4, <1>6, <1>d
  <2>2. samples[i + d] = s[i]
    BY <1>1, <1>2, <1>3, <1>4, <1>6
  <2>3. \A k \in (i + d) - RequiredSamples + 1 .. i + d : samples[k] = samples[i + d]
    <3>0. SUFFICES ASSUME NEW k \in (i + d) - RequiredSamples + 1 .. i + d
                   PROVE  samples[k] = samples[i + d]
      OBVIOUS
    <3>1. k - d \in i - RequiredSamples + 1 .. i /\ k - d \in 1 .. Len(s) - 1
      BY <1>1, <1>2, <1>3, <1>4, <1>6, <1>d
    <3>2. s[k - d] = samples[k - d + d] /\ k - d + d = k
      BY <1>2, <3>1
    <3>3. s[k - d] = s[i]
      BY <1>4, <3>1
    <3> QED
      BY <2>2, <3>2, <3>3
  <2>4. StreakEndsAt(i + d, RequiredSamples)
    <3>1. samples[i + d] # {}
      BY <1>4, <2>2
    <3> QED
      BY <2>3, <3>1, Zenon DEF StreakEndsAt
  <2> QED
    BY <2>1, <2>4 DEF IInv
<1> QED
  BY <1>5, <1>6

--------------------------------------------------------------------------------
(* The steps *)

\* stabilize starts, and ends, with fresh locals.
LEMMA FreshStep ==
    ASSUME StabilizationAssumption, NEW at \in {"idle", "check"}, Fresh(at),
           control' \in {"Continue", "CancelRequested", "ClaimLost"},
           node' \in [Containers -> {"absent", "running", "exited"}]
    PROVE  IInv'
<1>1. MaxAttempts \in Nat \ {0} /\ MaxAttempts' = MaxAttempts
  BY AttemptsFit DEF MaxAttempts
<1>2. TypeOK'
  <2>1. samples' \in Seq(SUBSET Containers) /\ Len(samples') = 0
    BY DEF Fresh
  <2>2. attempt' \in 0 .. MaxAttempts - 1 /\ elapsed' \in Nat
    BY <1>1 DEF Fresh
  <2>3. passed' \in BOOLEAN /\ expected' \in SUBSET Containers
    BY DEF Fresh
  <2>4. consecutive' \in 0 .. RequiredSamples /\ MaxHistory >= 0
    BY DEF Fresh, StabilizationAssumption
  <2>5. poll' \in {"idle", "check", "reading", "asleep", "done"}
    BY DEF Fresh
  <2> QED
    BY <1>1, <2>1, <2>2, <2>3, <2>4, <2>5 DEF TypeOK
<1>3. StreakIsMaximal'
  BY DEF Fresh, StreakIsMaximal
<1>4. PollMatchesLocals'
  <2>1. /\ ~passed' /\ consecutive' = 0 /\ poll' # "asleep" /\ poll' # "done"
        /\ RequiredSamples \in Nat \ {0}
    BY DEF Fresh, StabilizationAssumption
  <2> QED
    BY <2>1 DEF PollMatchesLocals
<1>5. (~passed => \A i \in RequiredSamples .. Len(samples) : ~StreakEndsAt(i, RequiredSamples))'
  BY DEF Fresh, StabilizationAssumption
<1>6. TimeIsAccounted'
  BY DEF Fresh, TimeIsAccounted, StabilizationAssumption
<1>7. SamplesAreCounted'
  BY DEF Fresh, SamplesAreCounted, StabilizationAssumption
<1> QED
  BY <1>2, <1>3, <1>4, <1>5, <1>6, <1>7 DEF IInv

\* What the steps that leave the samples alone keep.
LEMMA HistoryKept ==
    ASSUME IInv, UNCHANGED <<consecutive, expected, samples, passed>>
    PROVE  /\ StreakIsMaximal'
           /\ (~passed => \A i \in RequiredSamples .. Len(samples) :
                            ~StreakEndsAt(i, RequiredSamples))'
BY DEF IInv, StreakIsMaximal, StreakEndsAt

LEMMA SampledStep ==
    ASSUME StabilizationAssumption, IInv,
           NEW names \in SUBSET Containers, NEW time \in 0 .. ReadTimeout,
           Sampled(names, time)
    PROVE  IInv'
<1>0. /\ poll = "reading" /\ passed' = (consecutive' >= RequiredSamples)
      /\ samples' = Pushed(names) /\ expected' = names /\ consecutive' = Streak(names)
  BY Zenon DEF Sampled
<1>1. /\ ~passed /\ consecutive < RequiredSamples
      /\ passed' \in BOOLEAN /\ (passed' <=> consecutive' >= RequiredSamples)
      /\ TypeOK /\ StreakIsMaximal
      /\ RequiredSamples \in Nat \ {0} /\ consecutive \in Nat
  <2>1. TypeOK /\ StreakIsMaximal /\ PollMatchesLocals
    BY DEF IInv
  <2>2. RequiredSamples \in Nat \ {0} /\ consecutive \in Nat
    BY <2>1 DEF StabilizationAssumption, TypeOK
  <2>3. ~passed /\ consecutive < RequiredSamples
    BY <1>0, <2>1, <2>2 DEF PollMatchesLocals
  <2>4. passed' \in BOOLEAN /\ (passed' <=> consecutive' >= RequiredSamples)
    <3>1. (consecutive' >= RequiredSamples) \in BOOLEAN
      OBVIOUS
    <3>2. passed' \in BOOLEAN
      BY <1>0, <3>1, Zenon
    <3>3. passed' <=> consecutive' >= RequiredSamples
      BY <1>0, Zenon
    <3> QED
      BY <3>2, <3>3
  <2> QED
    BY <2>1, <2>2, <2>3, <2>4
<1>2. consecutive' \in 0 .. RequiredSamples
  <2>1. Streak(names) \in {0, 1, consecutive + 1}
    BY DEF Streak
  <2> QED
    BY <1>0, <1>1, <2>1
<1>3. MaxAttempts \in Nat \ {0} /\ MaxAttempts' = MaxAttempts
  BY AttemptsFit DEF MaxAttempts
<1>4. /\ poll' = IF passed' \/ attempt + 1 >= MaxAttempts THEN "done" ELSE "asleep"
      /\ elapsed' = elapsed + time
      /\ attempt' = attempt /\ control' = control /\ node' = node
      /\ attempt \in 0 .. MaxAttempts - 1 /\ elapsed \in Nat
      /\ control \in {"Continue", "CancelRequested", "ClaimLost"}
      /\ node \in [Containers -> {"absent", "running", "exited"}]
  BY <1>1 DEF Sampled, TypeOK
<1>5. TypeOK'
  <2>1. samples' \in Seq(SUBSET Containers) /\ Len(samples') <= MaxHistory
    BY <1>0, <1>1, PushedShape
  <2>2. passed' \in BOOLEAN /\ poll' \in {"done", "asleep"}
    BY <1>1, <1>4
  <2>3. elapsed' \in Nat
    BY <1>4 DEF StabilizationAssumption
  <2> QED
    BY <1>0, <1>1, <1>2, <1>3, <1>4, <2>1, <2>2, <2>3 DEF TypeOK
<1>6. StreakIsMaximal'
  BY <1>0, <1>1, StreakStep
<1>7. PollMatchesLocals'
  BY <1>0, <1>1, <1>3, <1>4 DEF PollMatchesLocals
<1>8. (~passed => \A i \in RequiredSamples .. Len(samples) : ~StreakEndsAt(i, RequiredSamples))'
  <2>1. SUFFICES ASSUME ~passed'
                 PROVE  \A i \in RequiredSamples .. Len(samples') :
                            ~StreakEndsAt(i, RequiredSamples)'
    OBVIOUS
  <2>2. consecutive' < RequiredSamples /\ consecutive' \in Nat
    BY <1>1, <1>2, <2>1
  <2> QED
    BY <1>0, <1>1, <1>6, <2>2, HistoryStep
<1>9. TimeIsAccounted'
  <2>1. elapsed <= attempt * PollInterval + attempt * ReadTimeout
    BY <1>0 DEF IInv, TimeIsAccounted
  <2>2. (attempt + 1) * ReadTimeout = attempt * ReadTimeout + ReadTimeout
    BY <1>3, <1>4 DEF StabilizationAssumption
  <2>3. attempt * PollInterval \in Nat /\ attempt * ReadTimeout \in Nat
    BY <1>3, <1>4 DEF StabilizationAssumption
  <2>4. elapsed' <= attempt * PollInterval + (attempt + 1) * ReadTimeout
    BY <1>4, <2>1, <2>2, <2>3 DEF StabilizationAssumption
  <2> QED
    BY <1>4, <2>4 DEF TimeIsAccounted
<1>10. SamplesAreCounted'
  <2>0. Len(samples) = IF attempt <= MaxHistory THEN attempt ELSE MaxHistory
    BY <1>0 DEF IInv, SamplesAreCounted
  <2>1. Len(samples) \in Nat /\ Len(samples') \in Nat /\ MaxHistory \in Nat \ {0}
    BY <1>1, <1>5 DEF TypeOK, StabilizationAssumption
  <2>2. Len(samples') = IF Len(samples) = MaxHistory THEN MaxHistory ELSE Len(samples) + 1
    <3>1. PICK d \in {0, 1} :
            /\ Len(samples') = Len(samples) + 1 - d
            /\ d = 1 => Len(samples') = MaxHistory
      BY <1>0, <1>1, PushedShape
    <3>2. Len(samples) <= MaxHistory /\ Len(samples') <= MaxHistory
      BY <1>1, <1>5 DEF TypeOK
    <3> QED
      BY <2>1, <3>1, <3>2
  <2> QED
    BY <1>4, <2>0, <2>1, <2>2 DEF SamplesAreCounted
<1> QED
  BY <1>5, <1>6, <1>7, <1>8, <1>9, <1>10 DEF IInv

\* Steps that leave the samples and the time alone, and move on from where
\* neither matters.
LEMMA OtherStep ==
    ASSUME StabilizationAssumption, IInv,
           UNCHANGED <<attempt, consecutive, expected, samples, passed, elapsed>>,
           poll' \in {"idle", "check", "reading", "asleep", "done"},
           control' \in {"Continue", "CancelRequested", "ClaimLost"},
           node' \in [Containers -> {"absent", "running", "exited"}],
           PollMatchesLocals', TimeIsAccounted', SamplesAreCounted'
    PROVE  IInv'
<1>1. TypeOK'
  BY DEF IInv, TypeOK, MaxAttempts
<1> QED
  BY <1>1, HistoryKept DEF IInv

LEMMA StepIInv == ASSUME StabilizationAssumption, IInv, [Next]_vars PROVE IInv'
<1>0. /\ TypeOK /\ PollMatchesLocals /\ TimeIsAccounted /\ SamplesAreCounted
      /\ MaxAttempts \in Nat \ {0} /\ MaxAttempts' = MaxAttempts
      /\ attempt \in Nat /\ elapsed \in Nat /\ PollInterval \in Nat /\ ReadTimeout \in Nat
  BY AttemptsFit DEF IInv, MaxAttempts, TypeOK, StabilizationAssumption
<1>1. CASE Begin
  BY <1>0, <1>1, FreshStep DEF Begin, TypeOK
<1>2. CASE Return
  BY <1>0, <1>2, FreshStep DEF Return, TypeOK
<1>3. CASE CheckControl
  <2>1. PollMatchesLocals' /\ SamplesAreCounted'
    BY <1>0, <1>3 DEF CheckControl, PollMatchesLocals, SamplesAreCounted
  <2>2. TimeIsAccounted'
    <3>1. (attempt + 1) * ReadTimeout = attempt * ReadTimeout + ReadTimeout
      BY <1>0
    <3>2. attempt * PollInterval \in Nat /\ attempt * ReadTimeout \in Nat
      BY <1>0
    <3> QED
      BY <1>0, <1>3, <3>1, <3>2 DEF CheckControl, TimeIsAccounted
  <2> QED
    BY <1>0, <1>3, <2>1, <2>2, OtherStep DEF CheckControl, TypeOK
<1>4. CASE DetailsRead
  BY <1>0, <1>4, SampledStep DEF DetailsRead, Healthy, Listed
<1>5. CASE DetailsFail
  BY <1>0, <1>5, SampledStep DEF DetailsFail
<1>6. CASE Wake
  <2>1. attempt' \in 0 .. MaxAttempts - 1 /\ elapsed' \in Nat
    BY <1>0, <1>6 DEF Wake, PollMatchesLocals
  <2>2. TypeOK'
    BY <1>0, <1>6, <2>1 DEF Wake, TypeOK
  <2>3. PollMatchesLocals'
    BY <1>0, <1>6 DEF Wake, PollMatchesLocals
  <2>4. TimeIsAccounted'
    <3>1. elapsed <= attempt * PollInterval + (attempt + 1) * ReadTimeout
      BY <1>0, <1>6 DEF Wake, TimeIsAccounted
    <3>2. (attempt + 1) * PollInterval = attempt * PollInterval + PollInterval
      BY <1>0
    <3>3. attempt * PollInterval \in Nat /\ (attempt + 1) * ReadTimeout \in Nat
      BY <1>0
    <3> QED
      BY <1>0, <1>6, <3>1, <3>2, <3>3 DEF Wake, TimeIsAccounted
  <2>5. SamplesAreCounted'
    BY <1>0, <1>6 DEF Wake, SamplesAreCounted
  <2> QED
    BY <1>6, <2>2, <2>3, <2>4, <2>5, HistoryKept DEF IInv, Wake
<1>7. CASE ContainerChanges
  <2>1. PollMatchesLocals' /\ TimeIsAccounted' /\ SamplesAreCounted'
    BY <1>0, <1>7 DEF ContainerChanges, local, PollMatchesLocals, TimeIsAccounted,
                        SamplesAreCounted
  <2>2. node' \in [Containers -> {"absent", "running", "exited"}]
    BY <1>0, <1>7 DEF ContainerChanges, TypeOK
  <2> QED
    BY <1>0, <1>7, <2>1, <2>2, OtherStep DEF ContainerChanges, local, TypeOK
<1>8. CASE StopRequested
  <2>1. PollMatchesLocals' /\ TimeIsAccounted' /\ SamplesAreCounted'
    BY <1>0, <1>8 DEF StopRequested, local, PollMatchesLocals, TimeIsAccounted,
                        SamplesAreCounted
  <2> QED
    BY <1>0, <1>8, <2>1, OtherStep DEF StopRequested, local, TypeOK
<1>9. CASE UNCHANGED vars
  <2>1. PollMatchesLocals' /\ TimeIsAccounted' /\ SamplesAreCounted'
    BY <1>0, <1>9 DEF vars, local, PollMatchesLocals, TimeIsAccounted, SamplesAreCounted
  <2> QED
    BY <1>0, <1>9, <2>1, OtherStep DEF vars, local, TypeOK
<1> QED
  BY <1>1, <1>2, <1>3, <1>4, <1>5, <1>6, <1>7, <1>8, <1>9 DEF Next, Poll

LEMMA InitIInv == ASSUME StabilizationAssumption, Init PROVE IInv
<1>1. MaxAttempts \in Nat \ {0}
  BY AttemptsFit
<1>2. TypeOK
  <2>1. samples \in Seq(SUBSET Containers) /\ Len(samples) = 0
    BY DEF Init
  <2>2. attempt \in 0 .. MaxAttempts - 1 /\ elapsed \in Nat
    BY <1>1 DEF Init
  <2>3. passed \in BOOLEAN /\ expected \in SUBSET Containers
    BY DEF Init
  <2>4. consecutive \in 0 .. RequiredSamples /\ MaxHistory >= 0
    BY DEF Init, StabilizationAssumption
  <2>5. /\ poll = "idle" /\ control = "Continue"
        /\ node \in [Containers -> {"absent", "running", "exited"}]
    BY DEF Init
  <2> QED
    BY <2>1, <2>2, <2>3, <2>4, <2>5 DEF TypeOK
<1>3. StreakIsMaximal /\ TimeIsAccounted /\ SamplesAreCounted
  BY DEF Init, StreakIsMaximal, TimeIsAccounted, SamplesAreCounted, StabilizationAssumption
<1>4. PollMatchesLocals
  <2>1. /\ ~passed /\ consecutive = 0 /\ poll # "asleep" /\ poll # "done"
        /\ RequiredSamples \in Nat \ {0}
    BY DEF Init, StabilizationAssumption
  <2> QED
    BY <2>1 DEF PollMatchesLocals
<1>5. \A i \in RequiredSamples .. Len(samples) : ~StreakEndsAt(i, RequiredSamples)
  BY DEF Init, StabilizationAssumption
<1> QED
  BY <1>2, <1>3, <1>4, <1>5 DEF IInv

\* What the properties follow from.
LEMMA Consequences ==
    ASSUME StabilizationAssumption, IInv
    PROVE  ResultMatchesEvidence /\ UnstableAfterFullWait /\ WaitIsBounded
<1>1. ResultMatchesEvidence
  <2>1. ASSUME passed
        PROVE  Len(samples) >= RequiredSamples /\ StreakEndsAt(Len(samples), RequiredSamples)
    <3>1. /\ consecutive = RequiredSamples /\ RequiredSamples \in Nat \ {0}
          /\ Len(samples) \in Nat
      BY <2>1 DEF IInv, PollMatchesLocals, TypeOK, StabilizationAssumption
    <3>2. /\ Len(samples) >= RequiredSamples
          /\ expected # {}
          /\ samples[Len(samples)] = expected
          /\ \A k \in Len(samples) - RequiredSamples + 1 .. Len(samples) : samples[k] = expected
      BY <3>1 DEF IInv, StreakIsMaximal
    <3> QED
      BY <3>2 DEF StreakEndsAt
  <2> QED
    BY <2>1 DEF IInv, ResultMatchesEvidence
<1>2. UnstableAfterFullWait
  BY AttemptsFit DEF IInv, PollMatchesLocals, UnstableAfterFullWait
<1>3. WaitIsBounded
  <2>1. /\ attempt \in 0 .. MaxAttempts - 1 /\ elapsed \in Nat /\ MaxAttempts \in Nat
        /\ PollInterval \in Nat /\ ReadTimeout \in Nat /\ Timeout \in Nat
    BY AttemptsFit DEF IInv, TypeOK, StabilizationAssumption
  <2>2. attempt * PollInterval <= Timeout
    BY <2>1, AttemptsFit
  <2>3. /\ attempt * ReadTimeout \in Nat
        /\ attempt * PollInterval \in Nat
        /\ (attempt + 1) * ReadTimeout = attempt * ReadTimeout + ReadTimeout
    BY <2>1
  <2>4. elapsed <= attempt * PollInterval + (attempt + 1) * ReadTimeout
    BY <2>1, <2>3 DEF IInv, TimeIsAccounted
  <2> QED
    BY <2>1, <2>2, <2>3, <2>4 DEF WaitIsBounded
<1> QED
  BY <1>1, <1>2, <1>3

(***************************************************************************)
(* For every configuration that Config::from_env accepts, stabilize passes *)
(* exactly on the evidence it keeps, finds a package unstable only after   *)
(* a full wait, and waits no longer than its timeout and reads.            *)
(***************************************************************************)
THEOREM WaitIsSound ==
    ASSUME StabilizationAssumption
    PROVE  Spec => []( /\ TypeOK /\ ResultMatchesEvidence
                       /\ UnstableAfterFullWait /\ WaitIsBounded )
<1>1. Init => IInv
  BY InitIInv
<1>2. IInv /\ [Next]_vars => IInv'
  BY StepIInv
<1>3. IInv => TypeOK /\ ResultMatchesEvidence /\ UnstableAfterFullWait /\ WaitIsBounded
  BY Consequences DEF IInv
<1> QED
  BY <1>1, <1>2, <1>3, PTL DEF Spec
================================================================================
