--------------------------- MODULE CollectionRun ---------------------------
(***************************************************************************)
(* The centre's side of a collection run: what the API's handlers do to    *)
(* the tables campaigns, campaign_rule_versions, collection_runs and       *)
(* run_devices (packages/domain/src/campaigns/run-service.ts, with the     *)
(* campaign edits of campaign-service.ts that a run must be isolated       *)
(* from).                                                                  *)
(*                                                                         *)
(* Every handler runs in one transaction that first locks the row it       *)
(* changes (SELECT ... FOR UPDATE), so one handler is one action.  A       *)
(* handler that throws rolls back: it is the absence of a step here, and   *)
(* the callers that must know of the error (CollectorSync) read the guard. *)
(***************************************************************************)
EXTENDS Integers, Sequences

CONSTANTS
  Campaigns,          \* identities of campaigns
  Runs,               \* identities of collection runs
  Devices,            \* identities of paired collector devices
  RuleSets,           \* the stop conditions a campaign may be given
  ReportedProgress,   \* the progress records a device may report
  SecondsPerMinute,   \* 60 in the code, scaled down for TLC
  MaxCampaignVersion, \* bound on the edits of a campaign
  NoRun, NoDevice

VARIABLES
  campaign,     \* campaign[c]: its row, the mutable rules
  ruleVersions, \* ruleVersions[c]: the immutable snapshots, in version order
  runs          \* runs[r]: the row of collection_runs joined with run_devices

runVars == <<campaign, ruleVersions, runs>>

-----------------------------------------------------------------------------
(* Data.                                                                   *)

Metrics == {"candidatesFound", "feedItemsSeen", "creatorProfilesSeen", "elapsedSeconds"}
Progress == [Metrics -> Nat]
ZeroProgress == [m \in Metrics |-> 0]

\* The stop conditions of a rule set, in the order in which they are tried.
StopPriority == <<"target_candidates", "max_feed_items",
                  "max_creator_profiles", "max_duration_minutes">>
StopConditions == {"target_candidates", "max_feed_items",
                   "max_creator_profiles", "max_duration_minutes"}

MetricOf == [target_candidates    |-> "candidatesFound",
             max_feed_items       |-> "feedItemsSeen",
             max_creator_profiles |-> "creatorProfilesSeen",
             max_duration_minutes |-> "elapsedSeconds"]

\* A limit is optional and at least 1 when it is there: 0 stands for "not set".
Limits == [StopConditions -> Nat]
NotSet == 0

Threshold(limits, condition) ==
  IF condition = "max_duration_minutes"
    THEN limits[condition] * SecondsPerMinute
    ELSE limits[condition]

Reached(limits, progress, condition) ==
  /\ limits[condition] # NotSet
  /\ progress[MetricOf[condition]] >= Threshold(limits, condition)

\* The first condition, in priority order, that the progress has reached.
DetermineRunStopReason(limits, progress) ==
  IF \E condition \in StopConditions : Reached(limits, progress, condition)
    THEN StopPriority[CHOOSE i \in 1..4 :
           /\ Reached(limits, progress, StopPriority[i])
           /\ \A j \in 1..4 : j < i => ~Reached(limits, progress, StopPriority[j])]
    ELSE "none"

HasProgressRegression(previous, next) == \E m \in Metrics : next[m] < previous[m]

-----------------------------------------------------------------------------
(* The life cycle of a run.                                                *)

Statuses == {"ready", "claimed", "running", "paused", "completed", "failed", "terminated"}
TerminalStatuses == {"completed", "failed", "terminated"}

allowedRunTransitions ==
  [ready      |-> {"claimed", "terminated"},
   claimed    |-> {"running", "terminated"},
   running    |-> {"paused", "completed", "failed", "terminated"},
   paused     |-> {"running", "failed", "terminated"},
   completed  |-> {},
   failed     |-> {},
   terminated |-> {}]

CanTransition(from, to) == to \in allowedRunTransitions[from]

RunRow == [status     : Statuses,
           campaign   : Campaigns,
           version    : Nat,
           owner      : Devices \cup {NoDevice},
           stopReason : StopConditions \cup {"none", "manual_termination"},
           ended      : BOOLEAN,
           progress   : Progress]

CampaignRow == [status : {"active", "archived"}, version : Nat, limits : Limits]

ASSUME ConstantsAssumption ==
  /\ RuleSets \subseteq Limits
  /\ RuleSets # {}
  /\ \A limits \in RuleSets : \E condition \in StopConditions : limits[condition] # NotSet
  /\ ReportedProgress \subseteq Progress
  /\ SecondsPerMinute \in Nat \ {0}
  /\ MaxCampaignVersion \in Nat
  /\ NoRun \notin RunRow
  /\ NoDevice \notin Devices

Exists(r) == runs[r] # NoRun
RulesOf(r) == ruleVersions[runs[r].campaign][runs[r].version]

-----------------------------------------------------------------------------
Init ==
  /\ campaign \in [Campaigns -> [status : {"active"}, version : {1}, limits : RuleSets]]
  /\ ruleVersions = [c \in Campaigns |-> <<>>]
  /\ runs = [r \in Runs |-> NoRun]

\* (mutant) An edit reaches the latest snapshot as well.
UpdateCampaignAndSnapshot(c, expectedVersion, limits) ==
  /\ campaign[c].version = expectedVersion
  /\ campaign[c].version < MaxCampaignVersion
  /\ campaign' = [campaign EXCEPT ![c].limits = limits, ![c].version = @ + 1]
  /\ ruleVersions' = [ruleVersions EXCEPT ![c] =
                        [i \in 1..Len(@) |-> IF i = Len(@) THEN limits ELSE @[i]]]
  /\ UNCHANGED runs

\* A member replaces the rules of a campaign; the edit is refused unless it
\* names the version that is stored.  An archived campaign can still be edited.
UpdateCampaign(c, expectedVersion, limits) ==
  /\ campaign[c].version = expectedVersion
  /\ campaign[c].version < MaxCampaignVersion
  /\ campaign' = [campaign EXCEPT ![c].limits = limits, ![c].version = @ + 1]
  /\ UNCHANGED <<ruleVersions, runs>>

ArchiveCampaign(c) ==
  /\ campaign[c].version < MaxCampaignVersion
  /\ campaign' = [campaign EXCEPT ![c].status = "archived", ![c].version = @ + 1]
  /\ UNCHANGED <<ruleVersions, runs>>

\* (mutant) The run refers to the version before its own snapshot.
CreateCollectionRunOffByOne(r, c) ==
  /\ ~Exists(r)
  /\ campaign[c].status = "active"
  /\ ruleVersions' = [ruleVersions EXCEPT ![c] = Append(@, campaign[c].limits)]
  /\ runs' = [runs EXCEPT ![r] =
                [status     |-> "ready",
                 campaign   |-> c,
                 version    |-> Len(ruleVersions[c]),
                 owner      |-> NoDevice,
                 stopReason |-> "none",
                 ended      |-> FALSE,
                 progress   |-> ZeroProgress]]
  /\ UNCHANGED campaign

\* Takes a snapshot of the campaign's rules under the next version number and
\* inserts a ready run that refers to it.
CreateCollectionRun(r, c) ==
  /\ ~Exists(r)
  /\ campaign[c].status = "active"
  /\ ruleVersions' = [ruleVersions EXCEPT ![c] = Append(@, campaign[c].limits)]
  /\ runs' = [runs EXCEPT ![r] =
                [status     |-> "ready",
                 campaign   |-> c,
                 version    |-> Len(ruleVersions[c]) + 1,
                 owner      |-> NoDevice,
                 stopReason |-> "none",
                 ended      |-> FALSE,
                 progress   |-> ZeroProgress]]
  /\ UNCHANGED campaign

ClaimCollectionRun(r, d) ==
  /\ Exists(r)
  /\ CanTransition(runs[r].status, "claimed")
  /\ runs' = [runs EXCEPT ![r].status = "claimed", ![r].owner = d]
  /\ UNCHANGED <<campaign, ruleVersions>>

\* Starts a claimed run, and a paused one as well: the guard is the
\* transition table, not the status "claimed".
StartClaimedCollectionRun(r, d) ==
  /\ Exists(r)
  /\ runs[r].owner = d
  /\ CanTransition(runs[r].status, "running")
  /\ runs' = [runs EXCEPT ![r].status = "running"]
  /\ UNCHANGED <<campaign, ruleVersions>>

\* The row after a pause, a resumption or a termination by hand.
Moved(row, target) ==
  IF target = "terminated"
    THEN [row EXCEPT !.status = target, !.ended = TRUE, !.stopReason = "manual_termination"]
    ELSE [row EXCEPT !.status = target]

\* A member's button: no device needs to own the run.
ChangeRunStatusByUser(r, target) ==
  /\ Exists(r)
  /\ CanTransition(runs[r].status, target)
  /\ runs' = [runs EXCEPT ![r] = Moved(@, target)]
  /\ UNCHANGED <<campaign, ruleVersions>>

ChangeRunStatusByDevice(r, d, target) ==
  /\ Exists(r)
  /\ runs[r].owner = d
  /\ CanTransition(runs[r].status, target)
  /\ runs' = [runs EXCEPT ![r] = Moved(@, target)]
  /\ UNCHANGED <<campaign, ruleVersions>>

\* (mutant) The conditions are tried on the progress stored before the report.
ReportedOnOldProgress(row, limits, progress) ==
  LET stopReason == DetermineRunStopReason(limits, row.progress) IN
  [row EXCEPT !.progress   = progress,
              !.status     = IF stopReason = "none" THEN "running" ELSE "completed",
              !.stopReason = stopReason,
              !.ended      = IF stopReason = "none" THEN @ ELSE TRUE]

\* The row after a report that is accepted: completed when a condition of the
\* snapshot is reached, still running otherwise.
Reported(row, limits, progress) ==
  LET stopReason == DetermineRunStopReason(limits, progress) IN
  [row EXCEPT !.progress   = progress,
              !.status     = IF stopReason = "none" THEN "running" ELSE "completed",
              !.stopReason = stopReason,
              !.ended      = IF stopReason = "none" THEN @ ELSE TRUE]

AcceptsReport(r, d, progress) ==
  /\ Exists(r)
  /\ runs[r].owner = d
  /\ runs[r].status = "running"
  /\ ~HasProgressRegression(runs[r].progress, progress)

ReportCollectionRunProgress(r, d, progress) ==
  /\ AcceptsReport(r, d, progress)
  /\ runs' = [runs EXCEPT ![r] = Reported(@, RulesOf(r), progress)]
  /\ UNCHANGED <<campaign, ruleVersions>>

ManualTargets == {"paused", "running", "terminated"}

\* Requests of members: edits, archival, creation and control of runs.
MemberRequest ==
  \/ \E c \in Campaigns, v \in 1..MaxCampaignVersion, limits \in RuleSets :
       UpdateCampaign(c, v, limits)
  \/ \E c \in Campaigns : ArchiveCampaign(c)
  \/ \E r \in Runs, c \in Campaigns : CreateCollectionRun(r, c)
  \/ \E r \in Runs, t \in ManualTargets : ChangeRunStatusByUser(r, t)

\* Requests of devices.
DeviceRequest ==
  \E r \in Runs, d \in Devices :
    \/ ClaimCollectionRun(r, d)
    \/ StartClaimedCollectionRun(r, d)
    \/ \E t \in ManualTargets : ChangeRunStatusByDevice(r, d, t)
    \/ \E p \in ReportedProgress : ReportCollectionRunProgress(r, d, p)

Next == MemberRequest \/ DeviceRequest

Spec == Init /\ [][Next]_runVars

-----------------------------------------------------------------------------
(* Properties.                                                             *)

\* Every row has the shape of its table, and a run's rule version is one of
\* the snapshots of its campaign: the join in findRunForUpdate never loses a run.
TypeOK ==
  /\ campaign \in [Campaigns -> CampaignRow]
  /\ ruleVersions \in [Campaigns -> Seq(Limits)]
  /\ runs \in [Runs -> RunRow \cup {NoRun}]
  /\ \A r \in Runs : Exists(r) => runs[r].version \in 1..Len(ruleVersions[runs[r].campaign])

\* No stop condition is overrun and none fires early: a completed run stores
\* progress that reached exactly the recorded reason of its own snapshot, and
\* any other run stores progress that reached none, however it was paused,
\* resumed by a member or a device, or terminated in between.
CompletionMatchesRules ==
  \A r \in Runs : Exists(r) =>
    IF runs[r].status = "completed"
      THEN /\ runs[r].stopReason \in StopConditions
           /\ runs[r].stopReason = DetermineRunStopReason(RulesOf(r), runs[r].progress)
      ELSE DetermineRunStopReason(RulesOf(r), runs[r].progress) = "none"

\* ended_at and stop_reason agree with the status on every path that ends a
\* run (report, member, device), and no path that reopens a run keeps them.
EndIsRecorded ==
  \A r \in Runs : Exists(r) =>
    /\ runs[r].ended <=> runs[r].status \in TerminalStatuses
    /\ runs[r].ended <=> runs[r].stopReason # "none"
    /\ runs[r].stopReason = "manual_termination" <=> runs[r].status = "terminated"

\* A run collects for one device: no status past "ready" is reached without a
\* claim except a termination, and no race of claims moves a claimed run.
ClaimedByOneDevice ==
  [][\A r \in Runs : (Exists(r) /\ Exists(r)') =>
       /\ runs[r].owner # NoDevice => runs'[r].owner = runs[r].owner
       /\ runs'[r].status \in {"claimed", "running", "paused", "completed"} =>
            runs'[r].owner # NoDevice]_runVars

\* A run that ended stays as it ended: no late report, no resumption by a
\* member or a device and no claim touches its row again.
TerminalRunsAreFrozen ==
  [][\A r \in Runs : (Exists(r) /\ runs[r].status \in TerminalStatuses) =>
       runs'[r] = runs[r]]_runVars

\* The rules a run is judged by are those of the moment it was created: no
\* edit or archival of its campaign and no later run reaches its snapshot.
SnapshotIsolation ==
  [][\A r \in Runs : Exists(r) => Exists(r)' /\ RulesOf(r)' = RulesOf(r)]_runVars

\* The centre's record of a run only grows: a report that is late, repeated or
\* from another process of the device never takes a counter back.
ProgressNeverRegresses ==
  [][\A r \in Runs : Exists(r) =>
       \A m \in Metrics : runs'[r].progress[m] >= runs[r].progress[m]]_runVars
=============================================================================
