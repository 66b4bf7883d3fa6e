------------------------- MODULE PageRecoveryProofs -------------------------
(***************************************************************************)
(* PageRecovery, for any authors, pages, delays and windows: the limit of  *)
(* the restarts holds through everything that may end or repeat a          *)
(* recovery, no stage goes on before a page that asks for a person, and an *)
(* author has one outcome.                                                 *)
(*                                                                         *)
(* The limit alone is not inductive.  What makes it so is that a restart   *)
(* is recorded before it is waited for, and that the record loses only     *)
(* what has left the window: so the restarts carried out are among those   *)
(* recorded, and whoever waits for a restart found the record below the    *)
(* limit.                                                                  *)
(***************************************************************************)
EXTENDS PageRecovery, FiniteSetTheorems, TLAPS

Decided == loop.phase \in {"waiting", "trying"} /\ loop.step = RestartStep

IInv ==
  /\ RecoveryTypeOK
  /\ restarted \subseteq recovery.contextRestarts
  /\ RestartsAreLimited
  /\ Decided => Cardinality(recovery.contextRestarts) < RestartLimit
  /\ PeopleComeFirst
  /\ loop.author # Nobody => outcomes[loop.author] = <<>>
  /\ OneOutcomePerAuthor

\* What a step may make of the loop and of the record.
Kept ==
  /\ loop' \in LoopState /\ recovery' \in RecoveryCheckpoint
  /\ recovery.contextRestarts \subseteq recovery'.contextRestarts
  /\ Decided' => Cardinality(recovery'.contextRestarts) < RestartLimit
  /\ PeopleComeFirst'
  /\ loop'.author \in {loop.author, Nobody}

Window == 0..(CircuitWindow - 1)

-----------------------------------------------------------------------------
(* Sets of ages.                                                           *)

LEMMA AgesAreFinite ==
  ASSUME NEW S \in SUBSET Window
  PROVE  IsFiniteSet(S) /\ Cardinality(S) \in Nat
<1>1. IsFiniteSet(Window)
  <2>1. 0 \in Int /\ CircuitWindow - 1 \in Int
    BY RecoveryAssumption
  <2> QED BY <2>1, FS_Interval DEF Window
<1> QED BY <1>1, FS_Subset, FS_CardinalityType

LEMMA FewerAges ==
  ASSUME NEW S \in SUBSET Window, NEW T \in SUBSET S
  PROVE  Cardinality(T) <= Cardinality(S)
BY AgesAreFinite, FS_Subset

\* Growing older loses ages and never adds one.
LEMMA AgedShrinks ==
  ASSUME NEW S \in SUBSET Window
  PROVE  Aged(S) \in SUBSET Window /\ Cardinality(Aged(S)) <= Cardinality(S)
<1> DEFINE f == [n \in Aged(S) |-> n - 1]
<1>1. Aged(S) \in SUBSET Window
  BY DEF Aged, Window
<1>2. \A n \in Aged(S) : n - 1 \in S
  BY DEF Aged, Window
<1>3. f \in [Aged(S) -> S]
  BY <1>2
<1>4. \A m, n \in Aged(S) : f[m] = f[n] => m = n
  BY <1>1 DEF Window
<1>5. f \in Injection(Aged(S), S)
  BY <1>3, <1>4 DEF Injection, IsInjective
<1> QED BY <1>1, <1>5, FS_Injection, AgesAreFinite

LEMMA AgedIsMonotone ==
  ASSUME NEW S, NEW T, S \subseteq T
  PROVE  Aged(S) \subseteq Aged(T)
BY DEF Aged

-----------------------------------------------------------------------------
(* The safety gate.                                                        *)

LEMMA SomethingIsForemost ==
  ASSUME NEW S \in SUBSET Signals, S # {}
  PROVE  Foremost(S) \in S /\ \A t \in S : Rank[Foremost(S)] <= Rank[t]
<1> DEFINE Best(s) == \A t \in S : Rank[s] <= Rank[t]
<1>1. \A t \in S : t \in {"login", "captcha", "restricted", "transient", "odd", "lowConfidence"}
  BY DEF Signals, HumanSignals
<1>2. \E s \in S : Best(s)
  <2>1. CASE "login" \in S
    BY <2>1, <1>1 DEF Rank
  <2>2. CASE "captcha" \in S /\ "login" \notin S
    BY <2>2, <1>1 DEF Rank
  <2>3. CASE "restricted" \in S /\ S \cap {"login", "captcha"} = {}
    BY <2>3, <1>1 DEF Rank
  <2>4. CASE "transient" \in S /\ S \cap {"login", "captcha", "restricted"} = {}
    BY <2>4, <1>1 DEF Rank
  <2>5. CASE "odd" \in S /\ S \subseteq {"odd", "lowConfidence"}
    BY <2>5, <1>1 DEF Rank
  <2>6. CASE S = {"lowConfidence"}
    BY <2>6 DEF Rank
  <2> QED BY <1>1, <2>1, <2>2, <2>3, <2>4, <2>5, <2>6
<1> QED BY <1>2 DEF Foremost

\* A page that counts as a passing fault does not ask for a person.
LEMMA FaultsAskForNobody ==
  ASSUME NEW S \in SUBSET Signals, Transient(S)
  PROVE  S \cap HumanSignals = {}
<1>1. S # {} /\ Foremost(S) = "transient"
  <2>1. S # {}
    BY DEF Transient, detectCollectionSafetyIssue
  <2>2. Foremost(S) \in {"login", "captcha", "restricted", "transient", "odd", "lowConfidence"}
    BY <2>1, SomethingIsForemost DEF Signals, HumanSignals
  <2> QED BY <2>1, <2>2 DEF Transient, detectCollectionSafetyIssue
<1>2. \A t \in S : 4 <= Rank[t]
  BY <1>1, SomethingIsForemost DEF Rank
<1> QED BY <1>2 DEF HumanSignals, Rank

LEMMA PagesAreSignals ==
  /\ Shown \subseteq SUBSET Signals
  /\ Unparsed \subseteq SUBSET Signals
BY RecoveryAssumption DEF Shown, Unparsed

LEMMA IssuesAreNamed ==
  ASSUME NEW S \in SUBSET Signals
  PROVE  detectCollectionSafetyIssue(S) \in Issues
<1>1. CASE S = {}
  BY <1>1 DEF detectCollectionSafetyIssue, Issues
<1>2. CASE S # {}
  <2>1. Foremost(S) \in {"login", "captcha", "restricted", "transient", "odd", "lowConfidence"}
    BY <1>2, SomethingIsForemost DEF Signals, HumanSignals
  <2> QED BY <2>1, <1>2 DEF detectCollectionSafetyIssue, Issues
<1> QED BY <1>1, <1>2

-----------------------------------------------------------------------------
(* The record and the stages.                                              *)

LEMMA StagesAreNamed ==
  ASSUME NEW s \in 1..RestartStep
  PROVE  /\ RECOVERY_STEPS[s] \in Stages
         /\ Delay[RECOVERY_STEPS[s]] \subseteq Nat
BY RecoveryAssumption DEF Stages

LEMMA StartIndexIsAStep == ASSUME IInv PROVE recoveryStartIndex(recovery) \in 1..RestartStep
<1> DEFINE previous == {s \in 1..RestartStep : RECOVERY_STEPS[s] = recovery.stage}
           chosen == CHOOSE s \in previous : TRUE
<1>1. CASE previous = {}
  BY <1>1 DEF recoveryStartIndex, RestartStep
<1>2. CASE previous # {}
  <2>1. chosen \in 1..RestartStep
    BY <1>2
  <2>2. recoveryStartIndex(recovery) \in {1, Minimum(chosen + 1, RestartStep)}
    BY <1>2 DEF recoveryStartIndex
  <2> HIDE DEF chosen
  <2> QED BY <2>1, <2>2 DEF Minimum, RestartStep
<1> QED BY <1>1, <1>2

LEMMA CoolingWaitIsInt ==
  ASSUME NEW c \in 1..MaxCycles
  PROVE  coolingWait(c) \in Int
<1> DEFINE e == Minimum(c - 1, 8)
           p == 2 ^ e
<1>1. e \in Nat
  BY RecoveryAssumption DEF Minimum
<1>2. p \in Int
  BY <1>1
<1>3. coolingWait(c) = Minimum(CoolingBase * p, CoolingMax)
  BY DEF coolingWait
<1> HIDE DEF p
<1> QED BY <1>2, <1>3, RecoveryAssumption DEF Minimum

LEMMA OlderKeepsType ==
  ASSUME IInv
  PROVE  /\ Older(recovery) \in RecoveryCheckpoint
         /\ Older(recovery).contextRestarts = Aged(recovery.contextRestarts)
<1>1. recovery \in RecoveryCheckpoint
  BY DEF IInv, RecoveryTypeOK
<1>2. Aged(recovery.contextRestarts) \in SUBSET Window
  BY <1>1, AgedShrinks DEF RecoveryCheckpoint, Window
<1>3. Minimum(recovery.sinceRecovered + 1, RecurrenceWindow) \in 0..RecurrenceWindow
  BY <1>1, RecoveryAssumption DEF RecoveryCheckpoint, Minimum
<1> QED BY <1>1, <1>2, <1>3 DEF Older, RecoveryCheckpoint, Window

\* The end of a cycle, over a record that lost no restart.
LEMMA ExhaustedKeeps ==
  ASSUME IInv, NEW r \in RecoveryCheckpoint, NEW S \in SUBSET Signals,
         S \cap HumanSignals = {}, recovery.contextRestarts \subseteq r.contextRestarts,
         Exhausted(r, S)
  PROVE  Kept
<1>1. loop \in LoopState
  BY DEF IInv, RecoveryTypeOK
<1>2. loop' \in LoopState /\ loop'.author = loop.author /\ loop'.page = S
  BY <1>1 DEF Exhausted, LoopState, Phases
<1>3. recovery' \in RecoveryCheckpoint /\ recovery'.contextRestarts = r.contextRestarts
  BY DEF Exhausted, RecoveryCheckpoint, Results
<1>4. ~Decided'
  BY <1>1 DEF Exhausted, LoopState, Decided
<1> QED BY <1>2, <1>3, <1>4 DEF Kept, PeopleComeFirst

LEMMA EnterStepKeeps ==
  ASSUME IInv, NEW s \in 1..RestartStep, NEW S \in SUBSET Signals,
         S \cap HumanSignals = {}, EnterStep(s, S)
  PROVE  Kept
<1> DEFINE restarts == IF s = RestartStep THEN recordContextRestart(recovery)
                       ELSE recovery.contextRestarts
           r == [recovery EXCEPT !.contextRestarts = restarts]
           refused == [r EXCEPT !.stage = "circuit_open"]
<1>1. loop \in LoopState /\ recovery \in RecoveryCheckpoint
  BY DEF IInv, RecoveryTypeOK
<1>2. /\ restarts \in SUBSET Window
      /\ recovery.contextRestarts \subseteq restarts
  BY <1>1, RecoveryAssumption DEF RecoveryCheckpoint, recordContextRestart, Window
<1>3. r \in RecoveryCheckpoint /\ refused \in RecoveryCheckpoint
  BY <1>1, <1>2 DEF RecoveryCheckpoint, Window, Stages
<1>4. r.contextRestarts = restarts /\ refused.contextRestarts = restarts
  BY <1>1 DEF RecoveryCheckpoint
<1>5. CASE s = RestartStep /\ circuitOpen(restarts)
  <2>1. Exhausted(refused, S)
    BY <1>5 DEF EnterStep
  <2> QED BY <2>1, <1>2, <1>3, <1>4, ExhaustedKeeps
<1>6. CASE ~(s = RestartStep /\ circuitOpen(restarts))
  <2>1. PICK delay \in Delay[RECOVERY_STEPS[s]] :
          /\ loop' = [loop EXCEPT !.phase = "waiting", !.step = s, !.wait = delay, !.page = S]
          /\ recovery' = [r EXCEPT !.stage = RECOVERY_STEPS[s], !.lastResult = "waiting"]
    BY <1>6 DEF EnterStep
  <2>2. delay \in Nat /\ RECOVERY_STEPS[s] \in Stages
    BY <2>1, StagesAreNamed
  <2>3. /\ loop' \in LoopState /\ loop'.author = loop.author
        /\ loop'.page = S /\ loop'.step = s
    <3>1. loop' = [phase |-> "waiting", author |-> loop.author, step |-> s, wait |-> delay,
                   page |-> S]
      BY <1>1, <2>1 DEF LoopState
    <3> QED BY <1>1, <2>2, <3>1 DEF LoopState, Phases
  <2>4. recovery' \in RecoveryCheckpoint /\ recovery'.contextRestarts = restarts
    <3> HIDE DEF restarts
    <3> QED BY <1>3, <1>4, <2>1, <2>2 DEF RecoveryCheckpoint, Results
  <2>5. Decided' => Cardinality(recovery'.contextRestarts) < RestartLimit
    <3>1. CASE s # RestartStep
      BY <3>1, <2>3 DEF Decided
    <3>2. CASE s = RestartStep
      <4>1. ~(Cardinality(restarts) >= RestartLimit)
        BY <3>2, <1>6 DEF circuitOpen
      <4>2. Cardinality(restarts) \in Nat
        BY <1>2, AgesAreFinite
      <4> QED BY <4>1, <4>2, <2>4, RecoveryAssumption
    <3> QED BY <3>1, <3>2
  <2> QED BY <1>2, <2>3, <2>4, <2>5 DEF Kept, PeopleComeFirst
<1> QED BY <1>5, <1>6

LEMMA BeginRecoveryKeeps ==
  ASSUME IInv, NEW S \in SUBSET Signals, S \cap HumanSignals = {}, BeginRecovery(S)
  PROVE  Kept
BY StartIndexIsAStep, EnterStepKeeps DEF BeginRecovery

LEMMA StepFailedKeeps ==
  ASSUME IInv, NEW S \in SUBSET Signals, S \cap HumanSignals = {}, StepFailed(S)
  PROVE  Kept
<1>1. loop.step \in 1..RestartStep /\ recovery \in RecoveryCheckpoint
  BY DEF IInv, RecoveryTypeOK, LoopState
<1>2. CASE loop.step < RestartStep
  <2>1. loop.step + 1 \in 1..RestartStep
    BY <1>1, <1>2 DEF RestartStep
  <2> QED BY <2>1, <1>2, EnterStepKeeps DEF StepFailed
<1>3. CASE ~(loop.step < RestartStep)
  BY <1>1, <1>3, ExhaustedKeeps DEF StepFailed
<1> QED BY <1>2, <1>3

\* The places that no recovery reaches.
LEMMA RestingKeeps ==
  ASSUME IInv, NEW p \in {"idle", "loop", "reading", "inspect", "check"},
         NEW a \in {loop.author, Nobody}, loop' = [At(p) EXCEPT !.author = a],
         recovery' = recovery
  PROVE  Kept
<1>1. loop \in LoopState /\ recovery \in RecoveryCheckpoint
  BY DEF IInv, RecoveryTypeOK
<1>2. loop' \in LoopState
  BY <1>1 DEF At, LoopState, Phases, RestartStep
<1>3. loop'.phase = p /\ loop'.author = a
  BY DEF At
<1> QED BY <1>1, <1>2, <1>3 DEF Kept, Decided, PeopleComeFirst

LEMMA JudgedKeeps == ASSUME IInv, Judged PROVE Kept
<1>1. PICK signals \in Unparsed :
        \/ signals = {} /\ Recovered /\ UNCHANGED <<pausedFor, remote>>
        \/ Transient(signals) /\ StepFailed(signals) /\ UNCHANGED <<pausedFor, remote>>
        \/ /\ NeedsPerson(signals) /\ Pauses(detectCollectionSafetyIssue(signals))
           /\ UNCHANGED recovery
  BY DEF Judged
<1>2. signals \in SUBSET Signals
  BY <1>1, PagesAreSignals
<1>3. loop \in LoopState /\ recovery \in RecoveryCheckpoint
  BY DEF IInv, RecoveryTypeOK
<1>4. CASE Recovered
  <2>1. /\ recovery' \in RecoveryCheckpoint
        /\ recovery'.contextRestarts = recovery.contextRestarts
    <3> DEFINE cycles == IF IsFeed THEN 0 ELSE recovery.coolingCycles
    <3>1. cycles \in 0..MaxCycles
      BY <1>3, RecoveryAssumption DEF RecoveryCheckpoint, IsFeed
    <3>2. recovery' = [recovery EXCEPT !.lastResult = "recovered", !.sinceRecovered = 0,
                         !.coolingCycles = cycles]
      BY <1>4 DEF Recovered
    <3> HIDE DEF cycles
    <3>3. recovery' = [stage |-> recovery.stage, lastResult |-> "recovered",
                       coolingCycles |-> cycles, sinceRecovered |-> 0,
                       contextRestarts |-> recovery.contextRestarts]
      BY <1>3, <3>2 DEF RecoveryCheckpoint
    <3> QED BY <1>3, <3>1, <3>3, RecoveryAssumption DEF RecoveryCheckpoint, Results
  <2>2. loop' \in LoopState
    BY <1>3, <1>4 DEF Recovered, IsFeed, At, LoopState, Phases, RestartStep
  <2>3. loop'.phase \in {"reading", "check"} /\ loop'.author \in {loop.author, Nobody}
    BY <1>4 DEF Recovered, At
  <2> QED BY <2>1, <2>2, <2>3 DEF Kept, Decided, PeopleComeFirst
<1>5. CASE Transient(signals) /\ StepFailed(signals)
  BY <1>2, <1>5, FaultsAskForNobody, StepFailedKeeps
<1>6. CASE Pauses(detectCollectionSafetyIssue(signals)) /\ UNCHANGED recovery
  <2>1. loop' = [At("idle") EXCEPT !.author = Nobody]
    BY <1>6 DEF Pauses, At
  <2> QED BY <2>1, <1>6, RestingKeeps
<1> QED BY <1>1, <1>4, <1>5, <1>6

-----------------------------------------------------------------------------
(* Every action.                                                           *)

\* The variables that only bound what the actions may do.
Framed ==
  /\ stopped' \in BOOLEAN /\ pausedFor' \in Issues
  /\ browser' \in {"none", "noFeed", "open"} /\ remote' \in {"running", "paused", "ended"}
  /\ weather' \in {"bad", "good"}

\* A step of the loop that counts no author and restarts nothing.
LEMMA QuietStep ==
  ASSUME IInv, Kept, Framed, UNCHANGED <<outcomes, low, restarted>>
  PROVE  IInv'
<1>1. RecoveryTypeOK'
  BY DEF IInv, Kept, Framed, RecoveryTypeOK
<1>2. restarted' \subseteq recovery'.contextRestarts /\ RestartsAreLimited'
  BY DEF IInv, Kept, RestartsAreLimited
<1>3. (loop.author # Nobody => outcomes[loop.author] = <<>>)' /\ OneOutcomePerAuthor'
  BY DEF IInv, Kept, OneOutcomePerAuthor
<1> QED BY <1>1, <1>2, <1>3 DEF IInv, Kept

\* Time passes for the record and for the restarts alike.
LEMMA TimeStep ==
  ASSUME IInv, loop' \in LoopState, loop'.page = loop.page, loop'.phase = loop.phase,
         loop'.author = loop.author, loop'.step = loop.step,
         recovery' = Older(recovery), restarted' = Aged(restarted),
         Framed, UNCHANGED <<outcomes, low>>
  PROVE  IInv'
<1>1. /\ recovery.contextRestarts \in SUBSET Window /\ restarted \in SUBSET Window
      /\ restarted \subseteq recovery.contextRestarts
  BY DEF IInv, RecoveryTypeOK, RecoveryCheckpoint, Window
<1>2. /\ recovery' \in RecoveryCheckpoint
      /\ recovery'.contextRestarts = Aged(recovery.contextRestarts)
  BY OlderKeepsType
<1>3. restarted' \in SUBSET Window /\ restarted' \subseteq recovery'.contextRestarts
  BY <1>1, <1>2, AgedShrinks, AgedIsMonotone
<1>4. RecoveryTypeOK'
  BY <1>2, <1>3 DEF IInv, RecoveryTypeOK, Framed, Window
<1>5. RestartsAreLimited'
  <2>1. Cardinality(restarted') <= Cardinality(restarted)
    BY <1>1, AgedShrinks
  <2>2. Cardinality(restarted') \in Nat /\ Cardinality(restarted) \in Nat
    BY <1>1, <1>3, AgesAreFinite
  <2> QED BY <2>1, <2>2, RecoveryAssumption DEF IInv, RestartsAreLimited
<1>6. Decided' => Cardinality(recovery'.contextRestarts) < RestartLimit
  <2>1. Cardinality(recovery'.contextRestarts) <= Cardinality(recovery.contextRestarts)
    BY <1>1, <1>2, AgedShrinks
  <2>2. /\ Cardinality(recovery'.contextRestarts) \in Nat
        /\ Cardinality(recovery.contextRestarts) \in Nat
    BY <1>1, <1>2, AgedShrinks, AgesAreFinite
  <2>3. Decided' => Decided
    BY DEF Decided
  <2> QED BY <2>1, <2>2, <2>3, RecoveryAssumption DEF IInv
<1>7. PeopleComeFirst' /\ OneOutcomePerAuthor'
  BY DEF IInv, PeopleComeFirst, OneOutcomePerAuthor
<1> QED BY <1>3, <1>4, <1>5, <1>6, <1>7 DEF IInv

\* A restart that is carried out is one of those recorded, which are below the limit.
LEMMA RestartStepKeeps ==
  ASSUME IInv, Kept, Framed, Decided, restarted' = restarted \cup Latest,
         UNCHANGED <<outcomes, low>>
  PROVE  IInv'
<1>1. /\ recovery.contextRestarts \in SUBSET Window
      /\ restarted' \subseteq recovery.contextRestarts
  BY DEF IInv, RecoveryTypeOK, RecoveryCheckpoint, Window, Latest
<1>2. RecoveryTypeOK'
  BY <1>1 DEF IInv, Kept, Framed, RecoveryTypeOK, Window
<1>3. RestartsAreLimited'
  <2>1. Cardinality(restarted') <= Cardinality(recovery.contextRestarts)
    BY <1>1, FewerAges
  <2>2. Cardinality(recovery.contextRestarts) < RestartLimit
    BY DEF IInv
  <2>3. restarted' \in SUBSET Window
    BY <1>1
  <2>4. Cardinality(restarted') \in Nat /\ Cardinality(recovery.contextRestarts) \in Nat
    BY <1>1, <2>3, AgesAreFinite
  <2> QED BY <2>1, <2>2, <2>4, RecoveryAssumption DEF RestartsAreLimited
<1>4. (loop.author # Nobody => outcomes[loop.author] = <<>>)' /\ OneOutcomePerAuthor'
  BY DEF IInv, Kept, OneOutcomePerAuthor
<1> QED BY <1>1, <1>2, <1>3, <1>4 DEF IInv, Kept

\* An author who had no outcome gets one, and the loop turns to the next item.
LEMMA CountedStep ==
  ASSUME IInv, NEW o \in {"observed", "lowConfidence", "skipped"}, Counted(o),
         loop' \in {At("loop"), At("idle")},
         low' \in 0..LowLimit, Framed, UNCHANGED <<recovery, restarted>>
  PROVE  IInv'
<1>1. loop.author # Nobody => loop.author \in Authors /\ outcomes[loop.author] = <<>>
  BY DEF IInv, RecoveryTypeOK, LoopState
<1>2. outcomes \in [Authors -> Seq({"observed", "lowConfidence", "skipped"})]
  BY DEF IInv, RecoveryTypeOK
<1> DEFINE Kinds == {"observed", "lowConfidence", "skipped"}
           now == Append(outcomes[loop.author], o)
<1>3. outcomes' = [outcomes EXCEPT ![loop.author] = now]
  BY DEF Counted
<1>4. ASSUME loop.author # Nobody PROVE now \in Seq(Kinds) /\ Len(now) = 1
  <2>1. now = <<o>>
    <3>1. outcomes[loop.author] = <<>>
      BY <1>1, <1>4
    <3>2. Append(<<>>, o) = <<o>>
      OBVIOUS
    <3> QED BY <3>1, <3>2
  <2> HIDE DEF now
  <2> QED BY <2>1
<1> HIDE DEF now
<1>5. outcomes' \in [Authors -> Seq(Kinds)]
  BY <1>2, <1>3, <1>4, RecoveryAssumption
<1>6. OneOutcomePerAuthor'
  <2> SUFFICES ASSUME NEW a \in Authors PROVE Len(outcomes'[a]) <= 1
    BY DEF OneOutcomePerAuthor
  <2>1. CASE a = loop.author
    <3>1. outcomes'[a] = now /\ loop.author # Nobody
      BY <1>2, <1>3, <2>1, RecoveryAssumption
    <3>2. Len(outcomes'[a]) = 1
      BY <1>4, <3>1
    <3> QED BY <3>2
  <2>2. CASE a # loop.author
    <3>1. outcomes'[a] = outcomes[a]
      BY <1>2, <1>3, <2>2
    <3> QED BY <3>1 DEF IInv, OneOutcomePerAuthor
  <2> QED BY <2>1, <2>2
<1>7. /\ loop' \in LoopState /\ loop'.author = Nobody /\ ~Decided' /\ PeopleComeFirst'
  BY DEF At, LoopState, Phases, RestartStep, Decided, PeopleComeFirst
<1>8. RecoveryTypeOK'
  BY <1>5, <1>7 DEF IInv, RecoveryTypeOK, Framed
<1> QED BY <1>6, <1>7, <1>8 DEF IInv, RestartsAreLimited

LEMMA PausesRests ==
  ASSUME IInv, NEW i \in Issues, Pauses(i), UNCHANGED <<recovery, stopped, weather>>,
         browser' \in {"none", "noFeed", "open"}
  PROVE  Kept /\ Framed
<1>1. loop' = [At("idle") EXCEPT !.author = Nobody]
  BY DEF Pauses, At
<1>2. Framed
  BY DEF IInv, RecoveryTypeOK, Framed, Pauses, PauseAsked
<1> QED BY <1>1, <1>2, RestingKeeps

LEMMA JudgedFrames ==
  ASSUME IInv, Judged, UNCHANGED <<stopped, weather>>,
         browser' \in {"none", "noFeed", "open"}
  PROVE  Framed
<1>1. \A signals \in Unparsed : detectCollectionSafetyIssue(signals) \in Issues
  BY PagesAreSignals, IssuesAreNamed
<1> QED BY <1>1 DEF Judged, Pauses, PauseAsked, Framed, IInv, RecoveryTypeOK

\* The page is looked at: it is fine, or a recovery begins, or the run pauses for a person.
LEMMA LookKeeps ==
  ASSUME IInv, NEW signals \in Unparsed, NEW p \in {"reading", "check"},
         UNCHANGED <<stopped, browser, weather>>,
         \/ signals = {} /\ GoesOn(p) /\ UNCHANGED recovery
         \/ Transient(signals) /\ BeginRecovery(signals) /\ UNCHANGED <<pausedFor, remote>>
         \/ /\ NeedsPerson(signals) /\ Pauses(detectCollectionSafetyIssue(signals))
            /\ UNCHANGED recovery
  PROVE  Kept /\ Framed
<1>1. signals \in SUBSET Signals /\ detectCollectionSafetyIssue(signals) \in Issues
  BY PagesAreSignals, IssuesAreNamed
<1>2. CASE GoesOn(p) /\ UNCHANGED recovery
  <2>1. loop' = [loop EXCEPT !.phase = p] /\ loop \in LoopState
    BY <1>2 DEF GoesOn, IInv, RecoveryTypeOK
  <2>2. loop' \in LoopState /\ loop'.phase = p /\ loop'.author = loop.author
    BY <2>1 DEF LoopState, Phases
  <2> QED BY <1>2, <2>2 DEF Kept, Framed, GoesOn, Decided, PeopleComeFirst, IInv, RecoveryTypeOK
<1>3. CASE Transient(signals) /\ BeginRecovery(signals) /\ UNCHANGED <<pausedFor, remote>>
  <2>1. Kept
    BY <1>1, <1>3, FaultsAskForNobody, BeginRecoveryKeeps
  <2> QED BY <1>3, <2>1 DEF Framed, IInv, RecoveryTypeOK
<1>4. CASE Pauses(detectCollectionSafetyIssue(signals)) /\ UNCHANGED recovery
  <2>1. browser' \in {"none", "noFeed", "open"}
    BY DEF IInv, RecoveryTypeOK
  <2> QED BY <1>1, <1>4, <2>1, PausesRests
<1> QED BY <1>2, <1>3, <1>4

LEMMA LoopEndsKeeps == ASSUME IInv, LoopEnds PROVE IInv'
<1>1. Kept /\ Framed
  <2>1. CASE Pauses("none")
    BY <2>1, PausesRests DEF LoopEnds, world, Issues, IInv, RecoveryTypeOK
  <2>2. CASE loop' = At("idle") /\ UNCHANGED <<pausedFor, remote>>
    <3>1. loop' = [At("idle") EXCEPT !.author = Nobody]
      BY <2>2 DEF At
    <3>2. Kept
      BY <3>1, RestingKeeps DEF LoopEnds
    <3> QED BY <2>2, <3>2 DEF LoopEnds, world, Framed, IInv, RecoveryTypeOK
  <2> QED BY <2>1, <2>2 DEF LoopEnds
<1> QED BY <1>1, QuietStep DEF LoopEnds, world

LEMMA CheckFeedKeeps == ASSUME IInv, CheckFeed PROVE IInv'
<1>1. Kept /\ Framed
  BY LookKeeps DEF CheckFeed, world
<1> QED BY <1>1, QuietStep DEF CheckFeed, world

LEMMA InspectKeeps == ASSUME IInv, Inspect PROVE IInv'
<1>1. Kept /\ Framed
  BY LookKeeps DEF Inspect, world
<1> QED BY <1>1, QuietStep DEF Inspect, world

\* Only an author without an outcome is opened.
LEMMA NextItemKeeps == ASSUME IInv, NextItem PROVE IInv'
<1>1. CASE loop' = At("loop")
  <2>1. loop' = [At("loop") EXCEPT !.author = Nobody]
    BY <1>1 DEF At
  <2>2. Kept
    BY <2>1, RestingKeeps DEF NextItem
  <2>3. Framed
    BY DEF NextItem, world, Framed, IInv, RecoveryTypeOK
  <2> QED BY <2>2, <2>3, QuietStep DEF NextItem, world
<1>2. ASSUME NEW a \in Authors, outcomes[a] = <<>>, loop' = [At("inspect") EXCEPT !.author = a]
      PROVE  IInv'
  <2>1. loop' \in LoopState /\ loop'.author = a /\ loop'.phase = "inspect"
    BY <1>2 DEF At, LoopState, Phases, RestartStep
  <2>2. RecoveryTypeOK'
    BY <2>1 DEF NextItem, world, IInv, RecoveryTypeOK
  <2> QED BY <1>2, <2>1, <2>2
          DEF NextItem, world, IInv, Decided, RestartsAreLimited, PeopleComeFirst,
              OneOutcomePerAuthor
<1> QED BY <1>1, <1>2 DEF NextItem

LEMMA CheckProfileKeeps == ASSUME IInv, CheckProfile PROVE IInv'
<1>1. PICK signals \in Shown :
        \/ signals = {} /\ Observed
        \/ signals = {"lowConfidence"} /\ SkippedForConfidence
        \/ /\ Transient(signals) \/ NeedsPerson(signals)
           /\ Pauses(detectCollectionSafetyIssue(signals)) /\ UNCHANGED <<outcomes, low>>
  BY DEF CheckProfile
<1>2. UNCHANGED <<recovery, stopped, browser, weather, restarted>>
  BY DEF CheckProfile
<1>3. signals \in SUBSET Signals /\ detectCollectionSafetyIssue(signals) \in Issues
  BY PagesAreSignals, IssuesAreNamed
<1>4. low \in 0..LowLimit /\ 0 \in 0..LowLimit
  BY RecoveryAssumption DEF IInv, RecoveryTypeOK
<1>5. CASE Observed
  <2>1. Framed
    BY <1>2, <1>5 DEF Observed, Framed, IInv, RecoveryTypeOK
  <2>2. CASE stopped
    <3>1. loop' = [At("loop") EXCEPT !.author = Nobody]
      BY <1>5 DEF Observed, At
    <3>2. Kept
      BY <3>1, <1>2, RestingKeeps
    <3> QED BY <1>2, <1>5, <2>1, <2>2, <3>2, QuietStep DEF Observed
  <2>3. CASE ~stopped
    BY <1>2, <1>4, <1>5, <2>1, <2>3, CountedStep DEF Observed
  <2> QED BY <2>2, <2>3
<1>6. CASE SkippedForConfidence
  <2>1. Minimum(low + 1, LowLimit) \in 0..LowLimit
    BY <1>4, RecoveryAssumption DEF Minimum
  <2>2. Framed
    BY <1>2, <1>6
       DEF SkippedForConfidence, Pauses, PauseAsked, Issues, Framed, IInv, RecoveryTypeOK
  <2>3. loop' \in {At("loop"), At("idle")}
    BY <1>6 DEF SkippedForConfidence, Pauses
  <2> QED BY <1>2, <1>6, <2>1, <2>2, <2>3, CountedStep DEF SkippedForConfidence
<1>7. CASE Pauses(detectCollectionSafetyIssue(signals)) /\ UNCHANGED <<outcomes, low>>
  <2>1. Kept /\ Framed
    BY <1>2, <1>3, <1>7, PausesRests DEF IInv, RecoveryTypeOK
  <2> QED BY <1>2, <1>7, <2>1, QuietStep
<1> QED BY <1>1, <1>5, <1>6, <1>7

LEMMA SkipAuthorKeeps == ASSUME IInv, SkipAuthor PROVE IInv'
<1>1. Framed /\ low' \in 0..LowLimit
  BY DEF SkipAuthor, Framed, IInv, RecoveryTypeOK
<1> QED BY <1>1, CountedStep DEF SkipAuthor

LEMMA CoolKeeps == ASSUME IInv, Cool PROVE IInv'
<1> DEFINE cycles == Minimum(recovery.coolingCycles + 1, MaxCycles)
<1>1. loop \in LoopState /\ recovery \in RecoveryCheckpoint
  BY DEF IInv, RecoveryTypeOK
<1>2. cycles \in 1..MaxCycles
  BY <1>1, RecoveryAssumption DEF RecoveryCheckpoint, Minimum
<1>3. /\ loop' = [loop EXCEPT !.phase = "cooling", !.wait = coolingWait(cycles)]
      /\ recovery' = [recovery EXCEPT !.coolingCycles = cycles, !.lastResult = "cooling"]
      /\ loop.phase = "exhausted"
  BY DEF Cool
<1>4. coolingWait(cycles) \in Int
  BY <1>2, CoolingWaitIsInt
<1> HIDE DEF cycles
<1>5. /\ loop' \in LoopState /\ loop'.author = loop.author /\ loop'.page = loop.page
      /\ loop'.phase = "cooling"
  BY <1>1, <1>3, <1>4 DEF LoopState, Phases
<1>6. recovery' \in RecoveryCheckpoint /\ recovery'.contextRestarts = recovery.contextRestarts
  <2>1. recovery' = [stage |-> recovery.stage, lastResult |-> "cooling", coolingCycles |-> cycles,
                     sinceRecovered |-> recovery.sinceRecovered,
                     contextRestarts |-> recovery.contextRestarts]
    BY <1>1, <1>3 DEF RecoveryCheckpoint
  <2>2. cycles \in 0..MaxCycles
    BY <1>2
  <2> QED BY <1>1, <2>1, <2>2 DEF RecoveryCheckpoint, Results
<1>7. Kept
  BY <1>3, <1>5, <1>6 DEF Kept, Decided, PeopleComeFirst, IInv
<1>8. Framed
  BY DEF Cool, world, Framed, IInv, RecoveryTypeOK
<1> QED BY <1>7, <1>8, QuietStep DEF Cool, world

LEMMA WaitSliceKeeps == ASSUME IInv, WaitSlice PROVE IInv'
<1>1. loop \in LoopState
  BY DEF IInv, RecoveryTypeOK
<1>2. /\ loop' \in LoopState /\ loop'.author = loop.author /\ loop'.page = loop.page
      /\ loop'.phase = loop.phase /\ loop'.step = loop.step
  BY <1>1 DEF WaitSlice, LoopState
<1>3. Framed
  BY DEF WaitSlice, world, Framed, IInv, RecoveryTypeOK
<1> QED BY <1>2, <1>3, TimeStep DEF WaitSlice, world

LEMMA WaitCancelledKeeps == ASSUME IInv, WaitCancelled PROVE IInv'
<1>1. recovery \in RecoveryCheckpoint
  BY DEF IInv, RecoveryTypeOK
<1>2. recovery' \in RecoveryCheckpoint /\ recovery'.contextRestarts = recovery.contextRestarts
  BY <1>1 DEF WaitCancelled, RecoveryCheckpoint, Results
<1>3. loop' \in LoopState /\ loop'.phase = "idle" /\ loop'.author = Nobody
  BY DEF WaitCancelled, At, LoopState, Phases, RestartStep
<1>5. Kept
  BY <1>2, <1>3 DEF Kept, Decided, PeopleComeFirst
<1>4. Framed
  BY DEF WaitCancelled, Framed, IInv, RecoveryTypeOK
<1> QED BY <1>4, <1>5, QuietStep DEF WaitCancelled

LEMMA WaitOverKeeps == ASSUME IInv, WaitOver PROVE IInv'
<1>1. loop \in LoopState /\ recovery \in RecoveryCheckpoint
  BY DEF IInv, RecoveryTypeOK
<1>2. CASE /\ loop.phase = "waiting" /\ loop' = [loop EXCEPT !.phase = "trying"]
           /\ recovery' = [recovery EXCEPT !.lastResult = "attempting"]
  <2>1. /\ loop' \in LoopState /\ loop'.author = loop.author /\ loop'.page = loop.page
        /\ loop'.phase = "trying" /\ loop'.step = loop.step
    BY <1>1, <1>2 DEF LoopState, Phases
  <2>2. /\ recovery' \in RecoveryCheckpoint
        /\ recovery'.contextRestarts = recovery.contextRestarts
    BY <1>1, <1>2 DEF RecoveryCheckpoint, Results
  <2>3. Kept
    BY <1>2, <2>1, <2>2 DEF Kept, Decided, PeopleComeFirst, IInv
  <2>4. Framed
    BY DEF WaitOver, world, Framed, IInv, RecoveryTypeOK
  <2> QED BY <2>3, <2>4, QuietStep DEF WaitOver, world
<1>3. CASE loop.phase = "cooling" /\ BeginRecovery(loop.page)
  <2>1. loop.page \in SUBSET Signals /\ loop.page \cap HumanSignals = {}
    BY <1>1, <1>3 DEF LoopState, IInv, PeopleComeFirst
  <2>2. Kept
    BY <1>3, <2>1, BeginRecoveryKeeps
  <2>3. Framed
    BY DEF WaitOver, world, Framed, IInv, RecoveryTypeOK
  <2> QED BY <2>2, <2>3, QuietStep DEF WaitOver, world
<1> QED BY <1>2, <1>3 DEF WaitOver

LEMMA RenewPageKeeps == ASSUME IInv, RenewPage PROVE IInv'
<1>1. UNCHANGED <<outcomes, low, restarted, stopped, weather>>
  BY DEF RenewPage, world
<1>2. CASE Judged
  <2>1. browser' \in {"none", "noFeed", "open"}
    BY DEF RenewPage, IInv, RecoveryTypeOK
  <2> QED BY <1>1, <1>2, <2>1, JudgedKeeps, JudgedFrames, QuietStep
<1>3. CASE Pauses("none") /\ UNCHANGED <<recovery, browser>>
  <2>1. Kept /\ Framed
    BY <1>1, <1>3, PausesRests DEF Issues, IInv, RecoveryTypeOK
  <2> QED BY <1>1, <2>1, QuietStep
<1> QED BY <1>2, <1>3 DEF RenewPage

LEMMA RestartBrowserKeeps == ASSUME IInv, RestartBrowser PROVE IInv'
<1>1. Decided
  BY DEF RestartBrowser, Decided
<1>2. Kept /\ Framed
  BY JudgedKeeps, JudgedFrames DEF RestartBrowser, world
<1> QED BY <1>1, <1>2, RestartStepKeeps DEF RestartBrowser, world

LEMMA RestartFailsKeeps == ASSUME IInv, RestartFails PROVE IInv'
<1>1. Decided
  BY DEF RestartFails, Decided
<1>2. Kept /\ Framed
  <2>1. CASE StepFailed({"transient"}) /\ UNCHANGED <<pausedFor, remote>>
    <3>1. {"transient"} \in SUBSET Signals /\ {"transient"} \cap HumanSignals = {}
      BY DEF Signals, HumanSignals
    <3>2. Kept
      BY <2>1, <3>1, StepFailedKeeps
    <3> QED BY <2>1, <3>2 DEF RestartFails, world, Framed, IInv, RecoveryTypeOK
  <2>2. CASE Pauses("none") /\ UNCHANGED recovery
    BY <2>2, PausesRests DEF RestartFails, world, Issues
  <2> QED BY <2>1, <2>2 DEF RestartFails
<1> QED BY <1>1, <1>2, RestartStepKeeps DEF RestartFails, world

\* What goes on around the loop.
LEMMA SurroundingsKeep ==
  ASSUME IInv, Start \/ Fails \/ Crash \/ OperatorStops \/ OperatorCloses \/ RemoteChanges
               \/ WeatherClears
  PROVE  IInv'
<1>1. UNCHANGED <<outcomes, low, restarted, recovery>>
  BY DEF Start, Fails, Crash, OperatorStops, OperatorCloses, RemoteChanges, WeatherClears, world
<1>2. CASE Start
  <2>1. loop' = [At("loop") EXCEPT !.author = Nobody]
    BY <1>2 DEF Start, At
  <2>2. Kept /\ Framed
    BY <1>1, <1>2, <2>1, RestingKeeps DEF Start, Framed, Issues, IInv, RecoveryTypeOK
  <2> QED BY <1>1, <2>2, QuietStep
<1>3. CASE Fails
  <2>1. Kept /\ Framed
    BY <1>3, PausesRests DEF Fails, world, Issues, IInv, RecoveryTypeOK
  <2> QED BY <1>1, <2>1, QuietStep
<1>4. CASE Crash
  <2>1. loop' = [At("idle") EXCEPT !.author = Nobody]
    BY <1>4 DEF Crash, At
  <2>2. Kept /\ Framed
    BY <1>1, <1>4, <2>1, RestingKeeps DEF Crash, Framed, IInv, RecoveryTypeOK
  <2> QED BY <1>1, <2>2, QuietStep
<1>5. CASE OperatorStops \/ OperatorCloses \/ RemoteChanges \/ WeatherClears
  <2>1. UNCHANGED loop
    BY <1>5 DEF OperatorStops, OperatorCloses, RemoteChanges, WeatherClears
  <2>2. Kept
    BY <1>1, <2>1 DEF Kept, Decided, PeopleComeFirst, IInv, RecoveryTypeOK
  <2>3. Framed
    BY <1>5 DEF OperatorStops, OperatorCloses, RemoteChanges, WeatherClears, world, Framed, IInv,
                RecoveryTypeOK
  <2> QED BY <1>1, <2>2, <2>3, QuietStep
<1> QED BY <1>2, <1>3, <1>4, <1>5

LEMMA TimePassesKeeps == ASSUME IInv, TimePasses PROVE IInv'
<1>1. loop' \in LoopState /\ Framed
  BY DEF TimePasses, world, Framed, IInv, RecoveryTypeOK
<1> QED BY <1>1, TimeStep DEF TimePasses, world

LEMMA StutterKeeps == ASSUME IInv, UNCHANGED vars PROVE IInv'
<1>1. Kept /\ Framed
  BY DEF vars, Kept, Framed, Decided, PeopleComeFirst, IInv, RecoveryTypeOK
<1> QED BY <1>1, QuietStep DEF vars

LEMMA InitHolds == RecoveryInit => IInv
<1> SUFFICES ASSUME RecoveryInit PROVE IInv
  OBVIOUS
<1>1. loop \in LoopState /\ loop.phase = "idle" /\ loop.author = Nobody
  BY DEF RecoveryInit, At, LoopState, Phases, RestartStep
<1>2. recovery \in RecoveryCheckpoint
  BY RecoveryAssumption DEF RecoveryInit, idleRecovery, RecoveryCheckpoint, Stages, Results
<1>3. /\ outcomes \in [Authors -> Seq({"observed", "lowConfidence", "skipped"})]
      /\ \A a \in Authors : outcomes[a] = <<>>
  BY DEF RecoveryInit
<1>4. RecoveryTypeOK
  <2>1. low \in 0..LowLimit /\ restarted \in SUBSET (0..(CircuitWindow - 1))
    BY RecoveryAssumption DEF RecoveryInit
  <2>2. /\ stopped \in BOOLEAN /\ pausedFor \in Issues /\ browser \in {"none", "noFeed", "open"}
        /\ remote \in {"running", "paused", "ended"} /\ weather \in {"bad", "good"}
    BY DEF RecoveryInit, Issues
  <2> QED BY <1>1, <1>2, <1>3, <2>1, <2>2 DEF RecoveryTypeOK
<1>5. restarted = {} /\ RestartsAreLimited
  <2>1. restarted = {} /\ Cardinality({}) = 0
    BY FS_EmptySet DEF RecoveryInit
  <2> QED BY <2>1, RecoveryAssumption DEF RestartsAreLimited
<1>6. Len(<<>>) = 0
  OBVIOUS
<1>7. OneOutcomePerAuthor
  <2> SUFFICES ASSUME NEW a \in Authors PROVE Len(outcomes[a]) <= 1
    BY DEF OneOutcomePerAuthor
  <2>1. Len(outcomes[a]) = 0
    BY <1>3, <1>6
  <2> QED BY <2>1
<1> QED BY <1>1, <1>4, <1>5, <1>7 DEF IInv, Decided, PeopleComeFirst

\* IInv is inductive.
THEOREM Inductive == RecoverySpec => []IInv
<1>1. IInv /\ [RecoveryNext]_vars => IInv'
  <2> SUFFICES ASSUME IInv, [RecoveryNext]_vars PROVE IInv'
    OBVIOUS
  <2>1. CASE LoopStep
    BY <2>1, LoopEndsKeeps, CheckFeedKeeps, NextItemKeeps, InspectKeeps, CheckProfileKeeps,
       SkipAuthorKeeps, CoolKeeps, WaitSliceKeeps, WaitCancelledKeeps, WaitOverKeeps,
       RenewPageKeeps, RestartBrowserKeeps
       DEF LoopStep
  <2>2. CASE Surroundings
    BY <2>2, SurroundingsKeep, RestartFailsKeeps, TimePassesKeeps DEF Surroundings
  <2>3. CASE UNCHANGED vars
    BY <2>3, StutterKeeps
  <2> QED BY <2>1, <2>2, <2>3 DEF RecoveryNext
<1> QED BY <1>1, InitHolds, PTL DEF RecoverySpec

\* Whatever is saved and read back after a crash is a recovery record.
THEOREM TypeCorrect == RecoverySpec => []RecoveryTypeOK
<1>1. IInv => RecoveryTypeOK
  BY DEF IInv
<1> QED BY <1>1, Inductive, PTL

\* The hourly limit of restarts, for any limit, window and delays.
THEOREM RestartsLimited == RecoverySpec => []RestartsAreLimited
<1>1. IInv => RestartsAreLimited
  BY DEF IInv
<1> QED BY <1>1, Inductive, PTL

\* No automatic step before a page that asks for a person, whatever else it shows.
THEOREM PeopleFirst == RecoverySpec => []PeopleComeFirst
<1>1. IInv => PeopleComeFirst
  BY DEF IInv
<1> QED BY <1>1, Inductive, PTL

\* An author is counted once, for any number of authors.
THEOREM OneOutcome == RecoverySpec => []OneOutcomePerAuthor
<1>1. IInv => OneOutcomePerAuthor
  BY DEF IInv
<1> QED BY <1>1, Inductive, PTL
=============================================================================
