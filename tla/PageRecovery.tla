---------------------------- MODULE PageRecovery ----------------------------
(***************************************************************************)
(* The collection loop in front of a page that fails: what the collector   *)
(* makes of a page (apps/collector/src/safety-gate.ts), the stages of a    *)
(* recovery and the hourly limit of browser restarts                       *)
(* (recovery-controller.ts), and how runtime.ts goes through them for the  *)
(* recommendation feed, which it never gives up, and for an author's page, *)
(* which it skips.                                                         *)
(*                                                                         *)
(* The delivery of what is observed is CollectorSync; here an observation  *)
(* ends with the save that makes it durable.  Time is a number of ticks.   *)
(* An instant of the checkpoint is kept as its age, for only differences   *)
(* from now are read; two restarts are never decided at one instant, since *)
(* a wait lies between them.  Every change of the recovery record is saved *)
(* before the loop awaits anything else, so one variable is the record in  *)
(* memory and on disk.                                                     *)
(***************************************************************************)
EXTENDS Integers, FiniteSets, Sequences

CONSTANTS
  Authors,
  Pages,             \* what a page may show: sets of signals
  LowLimit,          \* pause after so many pages of low confidence in a row; 0: never
  Delay,             \* Delay[stage]: the wait before a stage, with any jitter
  RecurrenceWindow, CircuitWindow, RestartLimit,
  CoolingBase, CoolingMax,
  MaxCycles          \* cooling cycles are counted up to here, where the wait has stopped growing

VARIABLES
  loop,        \* where collect() awaits, with what it knows there
  recovery,    \* checkpoint.recovery
  outcomes,    \* outcomes[a]: what the checkpoint counted for author a
  low,         \* lowConfidence.consecutiveFailures
  stopped,     \* CollectorRuntime.stopped
  pausedFor,   \* the issue that the loop recorded when it ended by itself
  browser,     \* context and feedPage
  remote,      \* the run's status at the centre
  weather,     \* "good" once the site works for good
  restarted    \* the ages of the decisions behind the restarts carried out

vars == <<loop, recovery, outcomes, low, stopped, pausedFor, browser, remote, weather, restarted>>
world == <<outcomes, low, stopped, weather>>

RECOVERY_STEPS == <<"reload_page", "recreate_profile_page", "restart_browser">>
RestartStep == 3

HumanSignals == {"login", "captcha", "restricted"}
Signals == HumanSignals \cup {"transient", "odd", "lowConfidence"}
Nobody == "nobody"
Minimum(m, n) == IF m <= n THEN m ELSE n

ASSUME RecoveryAssumption ==
  /\ IsFiniteSet(Authors) /\ Nobody \notin Authors
  /\ {} \in Pages /\ Pages \subseteq SUBSET Signals
  /\ LowLimit \in Nat
  /\ \A s \in 1..RestartStep : Delay[RECOVERY_STEPS[s]] \in (SUBSET (Nat \ {0})) \ {{}}
  /\ RecurrenceWindow \in Nat /\ CircuitWindow \in Nat \ {0} /\ RestartLimit \in Nat \ {0}
  /\ CoolingBase \in Nat \ {0} /\ CoolingMax \in Nat \ {0}
  /\ MaxCycles \in Nat \ {0}

Phases == {"idle", "loop", "reading", "inspect", "check", "skipping", "exhausted", "waiting",
           "cooling", "trying"}
\* "author": of the page under inspection, Nobody for the feed; "step": in RECOVERY_STEPS;
\* "page": the signals that began a recovery or kept it going.
LoopState == [phase : Phases, author : Authors \cup {Nobody}, step : 1..RestartStep, wait : Int,
              page : SUBSET Signals]
At(phase) == [phase |-> phase, author |-> Nobody, step |-> 1, wait |-> 0, page |-> {}]
IsFeed == loop.author = Nobody

Issues == {"none", "login_required", "captcha_required", "platform_restriction",
           "transient_page_failure", "low_parser_confidence"}
Stages == {"idle", "circuit_open"} \cup {RECOVERY_STEPS[s] : s \in 1..RestartStep}
Results == {"attempting", "cancelled", "cooling", "exhausted", "idle", "recovered", "skipped",
            "waiting"}
RecoveryCheckpoint ==
  [stage : Stages, lastResult : Results, coolingCycles : 0..MaxCycles,
   sinceRecovered : 0..RecurrenceWindow, contextRestarts : SUBSET (0..(CircuitWindow - 1))]

idleRecovery == [stage |-> "idle", lastResult |-> "idle", coolingCycles |-> 0,
                 sinceRecovered |-> RecurrenceWindow, contextRestarts |-> {}]

-----------------------------------------------------------------------------
(* The safety gate and the recovery controller.                            *)

\* Mutant: the tests for a fault come before the tests for a restriction.
RankFaultFirst == [login |-> 1, captcha |-> 2, restricted |-> 4, transient |-> 3, odd |-> 5,
                   lowConfidence |-> 6]
\* The order of the tests: a page that also asks for a person is never just "transient".
Rank == [login |-> 1, captcha |-> 2, restricted |-> 3, transient |-> 4, odd |-> 5,
         lowConfidence |-> 6]
Foremost(signals) == CHOOSE s \in signals : \A t \in signals : Rank[s] <= Rank[t]

detectCollectionSafetyIssue(signals) ==
  IF signals = {} THEN "none"
  ELSE [login |-> "login_required", captcha |-> "captcha_required",
        restricted |-> "platform_restriction", transient |-> "transient_page_failure",
        odd |-> "platform_restriction", lowConfidence |-> "low_parser_confidence"]
       [Foremost(signals)]

\* Mutant: a cycle that was refused a restart asks for it again first.
recoveryStartIndexAtCircuit(r) ==
  IF "circuit_open" = r.stage THEN RestartStep
  ELSE IF r.lastResult # "recovered" THEN 1
  ELSE RestartStep

\* A fault that returns soon after a recovery begins with the next stage.
recoveryStartIndex(r) ==
  IF r.lastResult # "recovered" \/ r.sinceRecovered >= RecurrenceWindow THEN 1
  ELSE LET previous == {s \in 1..RestartStep : RECOVERY_STEPS[s] = r.stage}
       IN IF previous = {} THEN 1
          ELSE Minimum((CHOOSE s \in previous : TRUE) + 1, RestartStep)

\* Mutant: the window of a recurrence is taken for that of the limit.
recordContextRestartShort(r) == {n \in r.contextRestarts : n < RecurrenceWindow} \cup {0}
\* The present attempt counts, and stays recorded when it is refused.
recordContextRestart(r) == r.contextRestarts \cup {0}
circuitOpen(restarts) == Cardinality(restarts) >= RestartLimit

coolingWait(cycles) ==
  Minimum(CoolingBase * 2 ^ Minimum(cycles - 1, 8), CoolingMax)

\* Ages grow; a restart older than the window is not counted any more.
Aged(ages) == {n + 1 : n \in ages} \cap (0..(CircuitWindow - 1))
Older(r) == [r EXCEPT !.contextRestarts = Aged(@),
                      !.sinceRecovered = Minimum(@ + 1, RecurrenceWindow)]

-----------------------------------------------------------------------------
(* Pages.  "lowConfidence" is about an author's page, once it is parsed.   *)

Shown == IF weather = "good" THEN {{}} ELSE Pages
Unparsed == {signals \ {"lowConfidence"} : signals \in Shown}
Transient(signals) == detectCollectionSafetyIssue(signals) = "transient_page_failure"
NeedsPerson(signals) == detectCollectionSafetyIssue(signals) \in
                          {"login_required", "captcha_required", "platform_restriction"}

\* changeRunStatus(...).catch(() => undefined)
PauseAsked == remote' \in {remote, IF remote = "running" THEN "paused" ELSE remote}
\* The failure path of collect(), with the issue it records.
Pauses(issue) == loop' = At("idle") /\ pausedFor' = issue /\ PauseAsked
GoesOn(phase) == loop' = [loop EXCEPT !.phase = phase] /\ UNCHANGED <<pausedFor, remote>>

-----------------------------------------------------------------------------
(* The stages of a recovery.                                               *)

\* The end of a cycle: the feed cools down, an author is skipped.
Exhausted(r, signals) ==
  /\ loop' = [loop EXCEPT !.phase = IF IsFeed THEN "exhausted" ELSE "skipping", !.page = signals]
  /\ recovery' = [r EXCEPT !.lastResult = IF IsFeed THEN "exhausted" ELSE "skipped"]

\* Stage s: its wait, or the refusal of a restart too many.
EnterStep(s, signals) ==
  LET restarts == IF s = RestartStep THEN recordContextRestart(recovery)
                  ELSE recovery.contextRestarts
      r == [recovery EXCEPT !.contextRestarts = restarts]
  IN IF s = RestartStep /\ circuitOpen(restarts)
     THEN Exhausted([r EXCEPT !.stage = "circuit_open"], signals)
     ELSE \E delay \in Delay[RECOVERY_STEPS[s]] :
            /\ loop' = [loop EXCEPT !.phase = "waiting", !.step = s, !.wait = delay,
                          !.page = signals]
            /\ recovery' = [r EXCEPT !.stage = RECOVERY_STEPS[s], !.lastResult = "waiting"]

BeginRecovery(signals) == EnterStep(recoveryStartIndex(recovery), signals)

\* The stage did not help: the next one, or the end of the cycle.
StepFailed(signals) ==
  IF loop.step < RestartStep THEN EnterStep(loop.step + 1, signals)
  ELSE Exhausted(recovery, signals)

\* The stage helped; the feed counts its cooling cycles anew.
Recovered ==
  /\ recovery' = [recovery EXCEPT !.lastResult = "recovered", !.sinceRecovered = 0,
                    !.coolingCycles = IF IsFeed THEN 0 ELSE @]
  /\ loop' = IF IsFeed THEN At("reading") ELSE [At("check") EXCEPT !.author = loop.author]

\* What the page looks like after the stage.
Judged == \E signals \in Unparsed :
  \/ signals = {} /\ Recovered /\ UNCHANGED <<pausedFor, remote>>
  \/ Transient(signals) /\ StepFailed(signals) /\ UNCHANGED <<pausedFor, remote>>
  \/ /\ NeedsPerson(signals) /\ Pauses(detectCollectionSafetyIssue(signals))
     /\ UNCHANGED recovery

-----------------------------------------------------------------------------
(* The loop.                                                               *)

\* start() succeeds only before a page without an issue; a refused start leaves no loop.
Start ==
  /\ loop.phase = "idle" /\ remote # "ended"
  /\ {} \in Unparsed
  /\ loop' = At("loop") /\ remote' = "running" /\ browser' = "open" /\ stopped' = FALSE
  /\ pausedFor' = "none"
  /\ UNCHANGED <<recovery, outcomes, low, weather, restarted>>

\* while (!this.stopped), the run's status, the page that was closed.
LoopEnds ==
  /\ loop.phase = "loop"
  /\ \/ stopped /\ Pauses("none")
     \/ ~stopped /\ remote # "running" /\ loop' = At("idle") /\ UNCHANGED <<pausedFor, remote>>
     \/ ~stopped /\ remote = "running" /\ browser # "open" /\ Pauses("none")
  /\ UNCHANGED <<world, recovery, browser, restarted>>

CheckFeed ==
  /\ loop.phase = "loop" /\ ~stopped /\ remote = "running" /\ browser = "open"
  /\ \E signals \in Unparsed :
       \/ signals = {} /\ GoesOn("reading") /\ UNCHANGED recovery
       \/ Transient(signals) /\ BeginRecovery(signals) /\ UNCHANGED <<pausedFor, remote>>
       \/ /\ NeedsPerson(signals) /\ Pauses(detectCollectionSafetyIssue(signals))
          /\ UNCHANGED recovery
  /\ UNCHANGED <<world, browser, restarted>>

\* An author that seenCreators does not hold, or nothing new.
NextItem ==
  /\ loop.phase = "reading"
  /\ loop' \in {At("loop")} \cup
       {[At("inspect") EXCEPT !.author = a] : a \in {b \in Authors : outcomes[b] = <<>>}}
  /\ UNCHANGED <<world, recovery, pausedFor, browser, remote, restarted>>

\* inspectProfileWithRecovery, up to its answer.
Inspect ==
  /\ loop.phase = "inspect" /\ browser # "none"
  /\ \E signals \in Unparsed :
       \/ signals = {} /\ GoesOn("check") /\ UNCHANGED recovery
       \/ Transient(signals) /\ BeginRecovery(signals) /\ UNCHANGED <<pausedFor, remote>>
       \/ /\ NeedsPerson(signals) /\ Pauses(detectCollectionSafetyIssue(signals))
          /\ UNCHANGED recovery
  /\ UNCHANGED <<world, browser, restarted>>

Counted(outcome) == outcomes' = [outcomes EXCEPT ![loop.author] = Append(@, outcome)]

decideLowConfidenceAction(failures) == LowLimit > 0 /\ failures >= LowLimit

\* The author counts as seen, without an observation.
SkippedForConfidence ==
  LET failures == Minimum(low + 1, LowLimit)
  IN /\ Counted("lowConfidence") /\ low' = failures
     /\ IF decideLowConfidenceAction(failures) THEN Pauses("none")
        ELSE loop' = At("loop") /\ UNCHANGED <<pausedFor, remote>>

Observed ==
  /\ IF stopped THEN UNCHANGED <<outcomes, low>> ELSE Counted("observed") /\ low' = 0
  /\ loop' = At("loop") /\ UNCHANGED <<pausedFor, remote>>

\* collect() looks at the author's page once more, with the confidence of what was parsed.
\* A fault that shows only now pauses the run as a restriction does.
CheckProfile ==
  /\ loop.phase = "check"
  /\ \E signals \in Shown :
       \/ signals = {} /\ Observed
       \/ signals = {"lowConfidence"} /\ SkippedForConfidence
       \/ /\ Transient(signals) \/ NeedsPerson(signals)
          /\ Pauses(detectCollectionSafetyIssue(signals)) /\ UNCHANGED <<outcomes, low>>
  /\ UNCHANGED <<recovery, stopped, browser, weather, restarted>>

\* Mutant: a stop between the skip and its save loses the author.
SkipAuthorUnsaved ==
  /\ loop.phase = "skipping"
  /\ Counted("skipped")
  /\ loop' \in {At("loop"), [At("inspect") EXCEPT !.author = loop.author]}
  /\ UNCHANGED <<recovery, low, stopped, pausedFor, browser, remote, weather, restarted>>

\* The author and the item count as seen, without an observation.
SkipAuthor ==
  /\ loop.phase = "skipping"
  /\ Counted("skipped") /\ loop' = At("loop")
  /\ UNCHANGED <<recovery, low, stopped, pausedFor, browser, remote, weather, restarted>>

\* recoverFeedPage: a cycle that did not help is followed by a longer wait.
Cool ==
  /\ loop.phase = "exhausted"
  /\ LET cycles == Minimum(recovery.coolingCycles + 1, MaxCycles)
     IN /\ loop' = [loop EXCEPT !.phase = "cooling", !.wait = coolingWait(cycles)]
        /\ recovery' = [recovery EXCEPT !.coolingCycles = cycles, !.lastResult = "cooling"]
  /\ UNCHANGED <<world, pausedFor, browser, remote, restarted>>

\* waitForRecovery asks for the run's status before every slice.
WaitSlice ==
  /\ loop.phase \in {"waiting", "cooling"} /\ loop.wait > 0
  /\ ~stopped /\ browser # "none" /\ remote = "running"
  /\ loop' = [loop EXCEPT !.wait = @ - 1]
  /\ recovery' = Older(recovery) /\ restarted' = Aged(restarted)
  /\ UNCHANGED <<world, pausedFor, browser, remote>>

\* RecoveryCancelledError ends the loop, which then asks for no pause.
WaitCancelled ==
  /\ loop.phase \in {"waiting", "cooling"}
  /\ stopped \/ browser = "none" \/ (loop.wait > 0 /\ remote # "running")
  /\ loop' = At("idle")
  /\ stopped' = (stopped \/ (browser # "none" /\ remote # "running"))
  /\ recovery' = [recovery EXCEPT !.lastResult = "cancelled"]
  /\ UNCHANGED <<outcomes, low, pausedFor, browser, remote, weather, restarted>>

WaitOver ==
  /\ loop.phase \in {"waiting", "cooling"} /\ loop.wait = 0 /\ ~stopped /\ browser # "none"
  /\ \/ /\ loop.phase = "waiting" /\ loop' = [loop EXCEPT !.phase = "trying"]
        /\ recovery' = [recovery EXCEPT !.lastResult = "attempting"]
     \/ loop.phase = "cooling" /\ BeginRecovery(loop.page)
  /\ UNCHANGED <<world, pausedFor, browser, remote, restarted>>

-----------------------------------------------------------------------------
(* Carrying out a stage.                                                   *)

\* Reloading needs the feed's tab, recreating a page needs the browser.
RenewPage ==
  /\ loop.phase = "trying" /\ loop.step < RestartStep
  /\ IF browser = "open" \/ (browser = "noFeed" /\ ~(IsFeed /\ loop.step = 1))
     THEN /\ Judged
          /\ browser' = IF IsFeed /\ loop.step = 2 THEN "open" ELSE browser
     ELSE Pauses("none") /\ UNCHANGED <<recovery, browser>>
  /\ UNCHANGED <<world, restarted>>

\* The latest decision is the one carried out; it may have left the window in a long wait.
Latest == {n \in recovery.contextRestarts : \A m \in recovery.contextRestarts : n <= m}

RestartBrowser ==
  /\ loop.phase = "trying" /\ loop.step = RestartStep
  /\ restarted' = restarted \cup Latest
  /\ browser' = "open" /\ Judged
  /\ UNCHANGED world

\* The browser does not start, or its first page does not load.  The recovery of the feed takes
\* that for one more fault; that of an author handles faults of the author's page alone.
RestartFails ==
  /\ loop.phase = "trying" /\ loop.step = RestartStep /\ weather = "bad"
  /\ restarted' = restarted \cup Latest
  /\ browser' \in {"none", "open"}
  /\ IF IsFeed THEN StepFailed({"transient"}) /\ UNCHANGED <<pausedFor, remote>>
     ELSE Pauses("none") /\ UNCHANGED recovery
  /\ UNCHANGED world

\* An error that nothing classifies, in any await of the loop.
Fails ==
  /\ loop.phase # "idle" /\ Pauses("none")
  /\ UNCHANGED <<world, recovery, browser, restarted>>

-----------------------------------------------------------------------------
(* Everything around the loop.                                             *)

Crash ==
  /\ loop.phase # "idle"
  /\ loop' = At("idle") /\ browser' = "none" /\ stopped' = FALSE
  /\ UNCHANGED <<recovery, outcomes, low, pausedFor, remote, weather, restarted>>

\* control(): the request, which stops a loop that is running, and its end.
OperatorStops ==
  /\ \/ loop.phase # "idle" /\ UNCHANGED remote
     \/ loop.phase = "idle" /\ remote = "running" /\ remote' \in {"paused", "ended"}
  /\ stopped' = TRUE
  /\ UNCHANGED <<loop, recovery, outcomes, low, pausedFor, browser, weather, restarted>>

\* The window, or the tab of the feed, is closed by hand.
OperatorCloses ==
  /\ browser # "none" /\ loop.phase # "idle"
  /\ \/ browser' = "none" /\ stopped' = TRUE
     \/ browser' = "noFeed" /\ UNCHANGED stopped
  /\ UNCHANGED <<loop, recovery, outcomes, low, pausedFor, remote, weather, restarted>>

\* Members at the centre; a resumption there starts no loop here.
RemoteChanges ==
  /\ \/ remote = "running" /\ remote' \in {"paused", "ended"}
     \/ remote = "paused" /\ remote' \in {"running", "ended"}
  /\ UNCHANGED <<world, loop, recovery, pausedFor, browser, restarted>>

WeatherClears ==
  /\ weather = "bad" /\ weather' = "good"
  /\ UNCHANGED <<loop, recovery, outcomes, low, stopped, pausedFor, browser, remote, restarted>>

\* Time passes in every await, and while nothing runs.
TimePasses ==
  /\ recovery' = Older(recovery) /\ restarted' = Aged(restarted)
  /\ UNCHANGED <<world, loop, pausedFor, browser, remote>>

-----------------------------------------------------------------------------
RecoveryInit ==
  /\ loop = At("idle") /\ recovery = idleRecovery
  /\ outcomes = [a \in Authors |-> <<>>] /\ low = 0
  /\ stopped = FALSE /\ pausedFor = "none" /\ browser = "none" /\ remote = "paused"
  /\ weather = "bad" /\ restarted = {}

LoopStep == \/ LoopEnds \/ CheckFeed \/ NextItem \/ Inspect \/ CheckProfile \/ SkipAuthor
            \/ Cool \/ WaitSlice \/ WaitCancelled \/ WaitOver \/ RenewPage \/ RestartBrowser
Surroundings == \/ Start \/ RestartFails \/ Fails \/ Crash \/ OperatorStops \/ OperatorCloses
                \/ RemoteChanges \/ WeatherClears \/ TimePasses
RecoveryNext == LoopStep \/ Surroundings

RecoverySpec == RecoveryInit /\ [][RecoveryNext]_vars
\* Every wait is a timer, and calls of the browser and of the centre have time limits.
FairRecoverySpec == RecoverySpec /\ WF_vars(LoopStep)

-----------------------------------------------------------------------------
(* Properties.                                                             *)

\* Every variable keeps its shape: a stage is entered only with a wait, a counter of the
\* checkpoint stays within its bound (recovery-controller.ts:16-35, runtime.ts:89-116).
RecoveryTypeOK ==
  /\ loop \in LoopState /\ recovery \in RecoveryCheckpoint
  /\ outcomes \in [Authors -> Seq({"observed", "lowConfidence", "skipped"})]
  /\ low \in 0..LowLimit /\ stopped \in BOOLEAN /\ pausedFor \in Issues
  /\ browser \in {"none", "noFeed", "open"} /\ remote \in {"running", "paused", "ended"}
  /\ weather \in {"bad", "good"} /\ restarted \in SUBSET (0..(CircuitWindow - 1))

\* Of the restarts carried out, fewer than the limit were decided within any one window, through
\* recurrences, refusals, cooling and crashes of the collector itself
\* (recovery-controller.ts:113-135, saved before each wait at runtime.ts:852 and 985).
RestartsAreLimited == Cardinality(restarted) < RestartLimit

\* No stage, wait or cooling goes on in front of a page that also asks for a person
\* (safety-gate.ts:89-179; the order of the tests decides).
PeopleComeFirst ==
  loop.phase \in {"waiting", "trying", "cooling", "exhausted", "skipping"} =>
    loop.page \cap HumanSignals = {}

\* An author has one outcome in a run: one who was skipped, for a fault or for low confidence,
\* is never inspected again nor observed, through pauses and crashes (runtime.ts:512, 565-626).
OneOutcomePerAuthor == \A a \in Authors : Len(outcomes[a]) <= 1

\* A feed under recovery is read again once the site works, unless the loop ends
\* (runtime.ts:774-806: one cycle follows another, after a bounded wait).
FeedComesBack ==
  (weather = "good" /\ IsFeed /\ loop.phase \in {"waiting", "trying", "cooling", "exhausted"})
    ~> loop.phase \in {"reading", "idle"}

\* A fault that may pass is met with a recovery; it does not pause the run when it first shows
\* (openspec/changes/stabilize-long-running-collection/specs/douyin-local-collection/spec.md:23).
FaultsAreNotPaused == pausedFor # "transient_page_failure"
=============================================================================
