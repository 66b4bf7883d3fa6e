------------------------ MODULE CollectionRunProofs ------------------------
(***************************************************************************)
(* Proofs about CollectionRun, for any sets of campaigns, runs and devices *)
(* and any rule sets.  The inductive invariant is the type invariant with  *)
(* the fact that a claim always records its owner; the properties of a     *)
(* completed run follow step by step from it.                              *)
(***************************************************************************)
EXTENDS CollectionRun, TLAPS

-----------------------------------------------------------------------------
(* The stop conditions.                                                    *)

\* Judging progress yields "none" exactly when no condition is reached, and a
\* reached condition otherwise: the priority order never hides that one was.
LEMMA StopReasonType ==
  ASSUME NEW limits \in Limits, NEW p \in Progress
  PROVE  DetermineRunStopReason(limits, p) \in StopConditions \cup {"none"}
<1> DEFINE R(i) == Reached(limits, p, StopPriority[i])
<1>1. CASE \E condition \in StopConditions : Reached(limits, p, condition)
  <2>1. R(1) \/ R(2) \/ R(3) \/ R(4)
    BY <1>1 DEF StopConditions, StopPriority
  <2>2. \E i \in 1..4 : R(i) /\ \A j \in 1..4 : j < i => ~R(j)
    <3>1. CASE R(1)
      BY <3>1
    <3>2. CASE ~R(1) /\ R(2)
      BY <3>2
    <3>3. CASE ~R(1) /\ ~R(2) /\ R(3)
      BY <3>3
    <3>4. CASE ~R(1) /\ ~R(2) /\ ~R(3) /\ R(4)
      BY <3>4
    <3> QED
      BY <2>1, <3>1, <3>2, <3>3, <3>4
  <2> DEFINE i == CHOOSE k \in 1..4 : R(k) /\ \A j \in 1..4 : j < k => ~R(j)
  <2>3. i \in 1..4
    BY <2>2
  <2>4. DetermineRunStopReason(limits, p) = StopPriority[i]
    BY <1>1 DEF DetermineRunStopReason
  <2>5. \A k \in 1..4 : StopPriority[k] \in StopConditions
    BY DEF StopPriority, StopConditions
  <2> HIDE DEF i
  <2> QED
    BY <2>3, <2>4, <2>5
<1>2. CASE ~ \E condition \in StopConditions : Reached(limits, p, condition)
  BY <1>2 DEF DetermineRunStopReason
<1> QED
  BY <1>1, <1>2

\* A new run has reached nothing, because a limit that is set is at least 1.
LEMMA NothingReachedAtZero ==
  ASSUME NEW limits \in Limits
  PROVE  DetermineRunStopReason(limits, ZeroProgress) = "none"
<1>1. ASSUME NEW condition \in StopConditions
      PROVE  ~Reached(limits, ZeroProgress, condition)
  <2>1. ZeroProgress[MetricOf[condition]] = 0
    BY DEF ZeroProgress, MetricOf, Metrics, StopConditions
  <2>2. limits[condition] \in Nat
    BY DEF Limits
  <2>3. limits[condition] # 0 => limits[condition] * SecondsPerMinute > 0
    BY <2>2, ConstantsAssumption
  <2>4. limits[condition] # 0 => Threshold(limits, condition) > 0
    BY <2>2, <2>3 DEF Threshold
  <2>5. limits[condition] # 0 => Threshold(limits, condition) \in Nat
    BY <2>2, ConstantsAssumption DEF Threshold
  <2> QED
    BY <2>1, <2>4, <2>5 DEF Reached, NotSet
<1> QED
  BY <1>1 DEF DetermineRunStopReason
-----------------------------------------------------------------------------
(* One row.                                                                *)

\* What holds of a run's row, judged by the rules of its snapshot.
RowOK(row, limits) ==
  /\ IF row.status = "completed"
       THEN /\ row.stopReason \in StopConditions
            /\ row.stopReason = DetermineRunStopReason(limits, row.progress)
       ELSE DetermineRunStopReason(limits, row.progress) = "none"
  /\ row.ended <=> row.status \in TerminalStatuses
  /\ row.ended <=> row.stopReason # "none"
  /\ row.stopReason = "manual_termination" <=> row.status = "terminated"
  /\ row.status = "ready" => row.owner = NoDevice
  /\ row.status \in {"claimed", "running", "paused", "completed"} => row.owner # NoDevice
  /\ row.owner = NoDevice => row.progress = ZeroProgress

\* What a step may do to a row.
StepOK(row, next) ==
  /\ row.status \in TerminalStatuses => next = row
  /\ row.owner # NoDevice => next.owner = row.owner
  /\ \A m \in Metrics : next.progress[m] >= row.progress[m]
  /\ next.campaign = row.campaign /\ next.version = row.version

\* A claim of a ready row.
LEMMA ClaimedRow ==
  ASSUME NEW row \in RunRow, NEW limits, RowOK(row, limits),
         CanTransition(row.status, "claimed"), NEW d \in Devices,
         NEW next, next = [row EXCEPT !.status = "claimed", !.owner = d]
  PROVE  next \in RunRow /\ RowOK(next, limits) /\ StepOK(row, next)
<1>1. row.status = "ready"
  BY DEF CanTransition, allowedRunTransitions, RunRow, Statuses
<1>2. next \in RunRow
  BY DEF RunRow, Statuses
<1>3. RowOK(next, limits)
  BY <1>1, ConstantsAssumption DEF RowOK, TerminalStatuses, RunRow
<1>4. StepOK(row, next)
  BY <1>1 DEF RowOK, StepOK, TerminalStatuses, RunRow, Progress
<1> QED
  BY <1>2, <1>3, <1>4

\* A pause, a resumption or a termination of a row that allows it.
LEMMA MovedRow ==
  ASSUME NEW row \in RunRow, NEW limits, RowOK(row, limits),
         NEW target \in ManualTargets, CanTransition(row.status, target)
  PROVE  Moved(row, target) \in RunRow /\ RowOK(Moved(row, target), limits)
           /\ StepOK(row, Moved(row, target))
<1>1. /\ row.status \notin TerminalStatuses
      /\ target # "terminated" => row.status \in {"claimed", "running", "paused"}
  BY DEF CanTransition, allowedRunTransitions, RunRow, Statuses, TerminalStatuses, ManualTargets
<1>2. Moved(row, target) \in RunRow
  BY DEF Moved, RunRow, Statuses, ManualTargets
<1>3. RowOK(Moved(row, target), limits)
  BY <1>1 DEF Moved, RowOK, TerminalStatuses, RunRow, ManualTargets, StopConditions
<1>4. StepOK(row, Moved(row, target))
  BY <1>1 DEF Moved, StepOK, RunRow, Progress
<1> QED
  BY <1>2, <1>3, <1>4

\* A report that does not regress, on a running row.
LEMMA ReportedRow ==
  ASSUME NEW row \in RunRow, NEW limits \in Limits, RowOK(row, limits),
         row.status = "running", NEW p \in Progress, ~HasProgressRegression(row.progress, p)
  PROVE  Reported(row, limits, p) \in RunRow /\ RowOK(Reported(row, limits, p), limits)
           /\ StepOK(row, Reported(row, limits, p))
<1> DEFINE reason == DetermineRunStopReason(limits, p)
<1>1. reason \in StopConditions \cup {"none"}
  BY StopReasonType
<1> HIDE DEF reason
<1>2. Reported(row, limits, p) =
        [row EXCEPT !.progress   = p,
                    !.status     = IF reason = "none" THEN "running" ELSE "completed",
                    !.stopReason = reason,
                    !.ended      = IF reason = "none" THEN row.ended ELSE TRUE]
  BY DEF Reported, reason
<1>3. Reported(row, limits, p) \in RunRow
  BY <1>1, <1>2 DEF RunRow, Statuses
<1>4. RowOK(Reported(row, limits, p), limits)
  <2>1. Reported(row, limits, p).progress = p /\ Reported(row, limits, p).owner = row.owner
    BY <1>2 DEF RunRow
  <2>2. Reported(row, limits, p).status = IF reason = "none" THEN "running" ELSE "completed"
    BY <1>2 DEF RunRow
  <2>3. Reported(row, limits, p).stopReason = reason
    BY <1>2 DEF RunRow
  <2>4. Reported(row, limits, p).ended <=> reason # "none"
    BY <1>2 DEF RunRow, RowOK, TerminalStatuses
  <2>5. DetermineRunStopReason(limits, Reported(row, limits, p).progress) = reason
    BY <2>1 DEF reason
  <2>6. row.owner # NoDevice
    BY DEF RowOK
  <2> QED
    BY <1>1, <2>1, <2>2, <2>3, <2>4, <2>5, <2>6 DEF RowOK, TerminalStatuses, StopConditions
<1>5. StepOK(row, Reported(row, limits, p))
  <2>1. \A m \in Metrics : p[m] >= row.progress[m]
    BY DEF HasProgressRegression, Progress, RunRow
  <2> QED
    BY <1>2, <2>1 DEF StepOK, RunRow, TerminalStatuses
<1> QED
  BY <1>3, <1>4, <1>5
-----------------------------------------------------------------------------
(* The whole state.                                                        *)

IInv == TypeOK /\ \A r \in Runs : Exists(r) => RowOK(runs[r], RulesOf(r))

\* What a step does to every run that exists before it.
StepsOK ==
  \A r \in Runs : Exists(r) =>
    Exists(r)' /\ StepOK(runs[r], runs'[r]) /\ RulesOf(r)' = RulesOf(r)

\* The snapshot a run refers to is a rule set.
LEMMA RulesAreLimits ==
  ASSUME TypeOK, NEW r \in Runs, Exists(r)
  PROVE  RulesOf(r) \in Limits
<1>1. runs[r] \in RunRow /\ runs[r].campaign \in Campaigns
  BY DEF TypeOK, Exists, RunRow
<1>2. ruleVersions[runs[r].campaign] \in Seq(Limits)
  BY <1>1 DEF TypeOK
<1>3. runs[r].version \in 1..Len(ruleVersions[runs[r].campaign])
  BY DEF TypeOK
<1> QED
  BY <1>2, <1>3 DEF RulesOf

\* A row compared with itself.
LEMMA SameRow ==
  ASSUME NEW row \in RunRow
  PROVE  StepOK(row, row)
BY DEF StepOK, RunRow, Progress

\* A step that writes one row of an existing run, and nothing else.
LEMMA RowUpdate ==
  ASSUME IInv, NEW r \in Runs, Exists(r), NEW row \in RunRow,
         RowOK(row, RulesOf(r)), StepOK(runs[r], row),
         runs' = [runs EXCEPT ![r] = row], UNCHANGED <<campaign, ruleVersions>>
  PROVE  IInv' /\ StepsOK
<1>1. runs \in [Runs -> RunRow \cup {NoRun}] /\ row # NoRun
  BY ConstantsAssumption DEF IInv, TypeOK
<1>2. runs'[r] = row /\ \A x \in Runs \ {r} : runs'[x] = runs[x]
  BY <1>1
<1>3. \A x \in Runs : Exists(x)' <=> Exists(x)
  BY <1>1, <1>2 DEF Exists
<1>4. row.campaign = runs[r].campaign /\ row.version = runs[r].version
  BY DEF StepOK
<1>5. \A x \in Runs : Exists(x) => RulesOf(x)' = RulesOf(x)
  BY <1>2, <1>4 DEF RulesOf
<1>6. TypeOK'
  <2>1. runs' \in [Runs -> RunRow \cup {NoRun}]
    BY <1>1
  <2>2. \A x \in Runs : Exists(x)' => runs'[x].version \in 1..Len(ruleVersions'[runs'[x].campaign])
    BY <1>2, <1>3, <1>4 DEF IInv, TypeOK
  <2> QED
    BY <2>1, <2>2 DEF IInv, TypeOK
<1>7. \A x \in Runs : Exists(x)' => RowOK(runs'[x], RulesOf(x)')
  BY <1>2, <1>3, <1>5 DEF IInv
<1>8. \A x \in Runs : Exists(x) => StepOK(runs[x], runs'[x])
  <2>1. \A x \in Runs \ {r} : Exists(x) => StepOK(runs[x], runs[x])
    BY <1>1, SameRow DEF Exists
  <2> QED
    BY <1>2, <2>1
<1> QED
  BY <1>3, <1>5, <1>6, <1>7, <1>8 DEF IInv, StepsOK

\* An edit or an archival of a campaign leaves the runs alone.
LEMMA CampaignStep ==
  ASSUME IInv, campaign' \in [Campaigns -> CampaignRow], UNCHANGED <<ruleVersions, runs>>
  PROVE  IInv' /\ StepsOK
<1>1. \A x \in Runs : (Exists(x)' <=> Exists(x)) /\ RulesOf(x)' = RulesOf(x)
  BY DEF Exists, RulesOf
<1>2. TypeOK'
  BY <1>1 DEF IInv, TypeOK, Exists
<1>3. \A x \in Runs : Exists(x)' => RowOK(runs'[x], RulesOf(x)')
  BY <1>1 DEF IInv
<1>4. \A x \in Runs : Exists(x) => StepOK(runs[x], runs'[x])
  BY SameRow DEF IInv, TypeOK, Exists
<1> QED
  BY <1>1, <1>2, <1>3, <1>4 DEF IInv, StepsOK

\* A new run refers to the snapshot appended with it; the older snapshots stay.
LEMMA CreateStep ==
  ASSUME IInv, NEW r \in Runs, NEW c \in Campaigns, CreateCollectionRun(r, c)
  PROVE  IInv' /\ StepsOK
<1> DEFINE limits == campaign[c].limits
           row == [status |-> "ready", campaign |-> c, version |-> Len(ruleVersions[c]) + 1,
                   owner |-> NoDevice, stopReason |-> "none", ended |-> FALSE,
                   progress |-> ZeroProgress]
<1>1. /\ runs \in [Runs -> RunRow \cup {NoRun}]
      /\ ruleVersions \in [Campaigns -> Seq(Limits)]
      /\ campaign \in [Campaigns -> CampaignRow]
      /\ limits \in Limits
  BY DEF IInv, TypeOK, CampaignRow
<1>2. /\ runs' = [runs EXCEPT ![r] = row]
      /\ ruleVersions' = [ruleVersions EXCEPT ![c] = Append(ruleVersions[c], limits)]
      /\ campaign' = campaign
      /\ ~Exists(r)
  BY DEF CreateCollectionRun
<1> HIDE DEF limits
<1>3. row \in RunRow
  <2>1. ZeroProgress \in Progress
    BY DEF ZeroProgress, Progress
  <2>2. Len(ruleVersions[c]) + 1 \in Nat
    BY <1>1
  <2> QED
    BY <2>1, <2>2 DEF RunRow, Statuses
<1> DEFINE versions == ruleVersions[c]
<1>4. versions \in Seq(Limits)
  BY <1>1
<1>5. /\ Append(versions, limits) \in Seq(Limits)
      /\ Len(Append(versions, limits)) = Len(versions) + 1
      /\ Append(versions, limits)[Len(versions) + 1] = limits
      /\ \A i \in 1..Len(versions) : Append(versions, limits)[i] = versions[i]
  <2> HIDE DEF versions
  <2> QED
    BY <1>1, <1>4
<1>6. ruleVersions'[c] = Append(versions, limits)
        /\ \A x \in Campaigns \ {c} : ruleVersions'[x] = ruleVersions[x]
  BY <1>1, <1>2
<1>7. runs'[r] = row /\ \A x \in Runs \ {r} : runs'[x] = runs[x]
  BY <1>1, <1>2
<1>8. row.campaign = c /\ row.version = Len(versions) + 1
  OBVIOUS
<1> HIDE DEF versions
<1>9. ASSUME NEW x \in Runs, Exists(x)
      PROVE  /\ Exists(x)' /\ runs'[x] = runs[x] /\ RulesOf(x)' = RulesOf(x)
             /\ runs[x].version \in 1..Len(ruleVersions'[runs[x].campaign])
  <2>1. x # r /\ runs'[x] = runs[x]
    BY <1>2, <1>7, <1>9
  <2>2. runs[x].campaign \in Campaigns
    BY <1>1, <1>9 DEF Exists, RunRow
  <2>3. runs[x].version \in 1..Len(ruleVersions[runs[x].campaign])
    BY <1>9 DEF IInv, TypeOK
  <2>4. CASE runs[x].campaign = c
    <3>1. runs[x].version \in 1..Len(versions)
      BY <2>3, <2>4 DEF versions
    <3>2. runs[x].version \in 1..(Len(versions) + 1)
      BY <3>1, <1>4
    <3>3. ruleVersions'[c][runs[x].version] = ruleVersions[c][runs[x].version]
      BY <3>1, <1>5, <1>6 DEF versions
    <3> QED
      BY <1>5, <1>6, <1>9, <2>1, <2>4, <3>2, <3>3 DEF Exists, RulesOf
  <2>5. CASE runs[x].campaign # c
    BY <1>6, <1>9, <2>1, <2>2, <2>3, <2>5 DEF Exists, RulesOf
  <2> QED
    BY <2>4, <2>5
<1>10. RulesOf(r)' = limits
  BY <1>5, <1>6, <1>7, <1>8 DEF RulesOf
<1>11. RowOK(row, limits)
  BY <1>1, NothingReachedAtZero DEF RowOK, TerminalStatuses
<1>12. TypeOK'
  <2>1. ruleVersions' \in [Campaigns -> Seq(Limits)]
    BY <1>1, <1>2, <1>5 DEF versions
  <2>2. runs' \in [Runs -> RunRow \cup {NoRun}]
    BY <1>1, <1>2, <1>3
  <2>3. runs'[r].version \in 1..Len(ruleVersions'[runs'[r].campaign])
    BY <1>4, <1>5, <1>6, <1>7, <1>8
  <2>4. \A x \in Runs : Exists(x)' => runs'[x].version \in 1..Len(ruleVersions'[runs'[x].campaign])
    BY <1>7, <1>9, <2>3 DEF Exists
  <2> QED
    BY <1>1, <1>2, <2>1, <2>2, <2>4 DEF TypeOK
<1>13. \A x \in Runs : Exists(x)' => RowOK(runs'[x], RulesOf(x)')
  <2>1. ASSUME NEW x \in Runs \ {r}, Exists(x)'
        PROVE  RowOK(runs'[x], RulesOf(x)')
    <3>1. Exists(x)
      BY <1>7, <2>1 DEF Exists
    <3> QED
      BY <1>9, <3>1 DEF IInv
  <2>2. RowOK(runs'[r], RulesOf(r)')
    BY <1>7, <1>10, <1>11
  <2> QED
    BY <2>1, <2>2
<1>14. \A x \in Runs : Exists(x) => StepOK(runs[x], runs'[x])
  BY <1>1, <1>9, SameRow DEF Exists
<1> QED
  BY <1>9, <1>12, <1>13, <1>14 DEF IInv, StepsOK
\* The invariant holds when there is no run yet.
LEMMA InitInvariant == Init => IInv
<1> SUFFICES ASSUME Init
             PROVE  IInv
  OBVIOUS
<1>1. campaign \in [Campaigns -> CampaignRow]
  BY ConstantsAssumption DEF Init, CampaignRow
<1>2. ruleVersions \in [Campaigns -> Seq(Limits)]
  BY DEF Init
<1>3. \A r \in Runs : ~Exists(r)
  BY DEF Init, Exists
<1>4. runs \in [Runs -> RunRow \cup {NoRun}]
  BY DEF Init
<1> QED
  BY <1>1, <1>2, <1>3, <1>4 DEF IInv, TypeOK

\* A run that exists has a row that satisfies the invariant, and its rules.
LEMMA ExistingRow ==
  ASSUME IInv, NEW r \in Runs, Exists(r)
  PROVE  runs[r] \in RunRow /\ RulesOf(r) \in Limits /\ RowOK(runs[r], RulesOf(r))
BY RulesAreLimits DEF IInv, TypeOK, Exists

\* One lemma per handler: it keeps the invariant and changes rows only as
\* StepOK says.
LEMMA ClaimStep ==
  ASSUME IInv, NEW r \in Runs, NEW d \in Devices, ClaimCollectionRun(r, d)
  PROVE  IInv' /\ StepsOK
<1> DEFINE row == [runs[r] EXCEPT !.status = "claimed", !.owner = d]
<1>1. Exists(r) /\ CanTransition(runs[r].status, "claimed")
  BY DEF ClaimCollectionRun
<1>2. runs' = [runs EXCEPT ![r] = row] /\ UNCHANGED <<campaign, ruleVersions>>
  BY DEF ClaimCollectionRun
<1>3. row \in RunRow /\ RowOK(row, RulesOf(r)) /\ StepOK(runs[r], row)
  BY <1>1, ExistingRow, ClaimedRow
<1> HIDE DEF row
<1> QED
  BY <1>1, <1>2, <1>3, RowUpdate

\* A change of status that the transition table allows.
LEMMA MoveStep ==
  ASSUME IInv, NEW r \in Runs, NEW target \in ManualTargets, Exists(r),
         CanTransition(runs[r].status, target),
         runs' = [runs EXCEPT ![r] = Moved(@, target)], UNCHANGED <<campaign, ruleVersions>>
  PROVE  IInv' /\ StepsOK
BY ExistingRow, MovedRow, RowUpdate

\* The claiming device starts its run.
LEMMA StartStep ==
  ASSUME IInv, NEW r \in Runs, NEW d \in Devices, StartClaimedCollectionRun(r, d)
  PROVE  IInv' /\ StepsOK
<1>1. runs' = [runs EXCEPT ![r] = Moved(@, "running")]
  BY DEF StartClaimedCollectionRun, Moved
<1> QED
  BY <1>1, MoveStep DEF StartClaimedCollectionRun, ManualTargets

\* A member pauses, resumes or terminates.
LEMMA UserStep ==
  ASSUME IInv, NEW r \in Runs, NEW target \in ManualTargets, ChangeRunStatusByUser(r, target)
  PROVE  IInv' /\ StepsOK
BY MoveStep DEF ChangeRunStatusByUser

\* The device pauses, resumes or terminates.
LEMMA DeviceStep ==
  ASSUME IInv, NEW r \in Runs, NEW d \in Devices, NEW target \in ManualTargets,
         ChangeRunStatusByDevice(r, d, target)
  PROVE  IInv' /\ StepsOK
BY MoveStep DEF ChangeRunStatusByDevice

\* A report of progress, and the completion that may follow from it.
LEMMA ReportStep ==
  ASSUME IInv, NEW r \in Runs, NEW d \in Devices, NEW p \in Progress,
         ReportCollectionRunProgress(r, d, p)
  PROVE  IInv' /\ StepsOK
<1>1. /\ Exists(r) /\ runs[r].status = "running"
      /\ ~HasProgressRegression(runs[r].progress, p)
  BY DEF ReportCollectionRunProgress, AcceptsReport
<1>2. /\ runs' = [runs EXCEPT ![r] = Reported(runs[r], RulesOf(r), p)]
      /\ UNCHANGED <<campaign, ruleVersions>>
  BY DEF ReportCollectionRunProgress
<1> QED
  BY <1>1, <1>2, ExistingRow, ReportedRow, RowUpdate

\* A step that leaves the centre alone.
LEMMA CentreUnchanged ==
  ASSUME IInv, UNCHANGED runVars
  PROVE  IInv' /\ StepsOK
<1>1. campaign' \in [Campaigns -> CampaignRow] /\ UNCHANGED <<ruleVersions, runs>>
  BY DEF runVars, IInv, TypeOK
<1> QED
  BY <1>1, CampaignStep

\* Every action keeps the invariant and changes rows only as StepOK says.
LEMMA NextInvariant == IInv /\ [Next]_runVars => IInv' /\ StepsOK
<1> SUFFICES ASSUME IInv, [Next]_runVars
             PROVE  IInv' /\ StepsOK
  OBVIOUS
<1>1. ASSUME NEW c \in Campaigns, NEW v \in 1..MaxCampaignVersion, NEW limits \in RuleSets,
             UpdateCampaign(c, v, limits)
      PROVE  IInv' /\ StepsOK
  <2>1. campaign' \in [Campaigns -> CampaignRow]
    BY <1>1, ConstantsAssumption DEF UpdateCampaign, IInv, TypeOK, CampaignRow
  <2> QED
    BY <1>1, <2>1, CampaignStep DEF UpdateCampaign
<1>2. ASSUME NEW c \in Campaigns, ArchiveCampaign(c)
      PROVE  IInv' /\ StepsOK
  <2>1. campaign' \in [Campaigns -> CampaignRow]
    BY <1>2 DEF ArchiveCampaign, IInv, TypeOK, CampaignRow
  <2> QED
    BY <1>2, <2>1, CampaignStep DEF ArchiveCampaign
<1>3. CASE MemberRequest
  BY <1>1, <1>2, <1>3, CreateStep, UserStep DEF MemberRequest
<1>4. CASE DeviceRequest
  BY <1>4, ClaimStep, StartStep, DeviceStep, ReportStep, ConstantsAssumption DEF DeviceRequest
<1>5. CASE UNCHANGED runVars
  BY <1>5, CentreUnchanged
<1> QED
  BY <1>3, <1>4, <1>5 DEF Next

-----------------------------------------------------------------------------
(* The theorems.                                                           *)

\* The inductive invariant holds in every reachable state.
THEOREM Invariance == Spec => []IInv
<1>1. IInv /\ [Next]_runVars => IInv'
  BY NextInvariant
<1> QED
  BY <1>1, InitInvariant, PTL DEF Spec

\* Every row has the shape of its table and refers to an existing snapshot.
THEOREM TypeCorrect == Spec => []TypeOK
<1>1. IInv => TypeOK
  BY DEF IInv
<1> QED
  BY <1>1, Invariance, PTL

\* A run is completed exactly when its stored progress has reached a stop
\* condition of its own snapshot, and for the recorded reason.
THEOREM RunsCompleteByTheirRules == Spec => []CompletionMatchesRules
<1>1. IInv => CompletionMatchesRules
  BY DEF IInv, RowOK, CompletionMatchesRules
<1> QED
  BY <1>1, Invariance, PTL

\* ended_at and stop_reason are set exactly on the runs that have ended.
THEOREM EndsAreRecorded == Spec => []EndIsRecorded
<1>1. IInv => EndIsRecorded
  BY DEF IInv, RowOK, EndIsRecorded
<1> QED
  BY <1>1, Invariance, PTL

\* No step moves a claimed run to another device or starts an unclaimed one.
THEOREM RunsAreClaimedOnce == Spec => ClaimedByOneDevice
<1>1. IInv /\ [Next]_runVars =>
        [\A r \in Runs : (Exists(r) /\ Exists(r)') =>
           /\ runs[r].owner # NoDevice => runs'[r].owner = runs[r].owner
           /\ runs'[r].status \in {"claimed", "running", "paused", "completed"} =>
                runs'[r].owner # NoDevice]_runVars
  BY NextInvariant DEF StepsOK, StepOK, IInv, RowOK
<1> QED
  BY <1>1, Invariance, PTL DEF Spec, ClaimedByOneDevice

\* The row of a run that has ended never changes again.
THEOREM EndedRunsStay == Spec => TerminalRunsAreFrozen
<1>1. IInv /\ [Next]_runVars =>
        [\A r \in Runs : (Exists(r) /\ runs[r].status \in TerminalStatuses) =>
           runs'[r] = runs[r]]_runVars
  BY NextInvariant DEF StepsOK, StepOK
<1> QED
  BY <1>1, Invariance, PTL DEF Spec, TerminalRunsAreFrozen

\* No edit, archival or later run changes the rules a run is judged by.
THEOREM SnapshotsAreIsolated == Spec => SnapshotIsolation
<1>1. IInv /\ [Next]_runVars =>
        [\A r \in Runs : Exists(r) => Exists(r)' /\ RulesOf(r)' = RulesOf(r)]_runVars
  BY NextInvariant DEF StepsOK
<1> QED
  BY <1>1, Invariance, PTL DEF Spec, SnapshotIsolation

\* The counters the centre stores for a run never decrease.
THEOREM ProgressGrows == Spec => ProgressNeverRegresses
<1>1. IInv /\ [Next]_runVars =>
        [\A r \in Runs : Exists(r) =>
           \A m \in Metrics : runs'[r].progress[m] >= runs[r].progress[m]]_runVars
  BY NextInvariant DEF StepsOK, StepOK
<1> QED
  BY <1>1, Invariance, PTL DEF Spec, ProgressNeverRegresses
=============================================================================
