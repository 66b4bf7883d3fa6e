----------------------- MODULE CandidateConsoleProofs -----------------------
(***************************************************************************)
(* CandidateConsole, for any members, viewers, candidates, views, batches  *)
(* and bounds.                                                             *)
(*                                                                         *)
(* The argument is about copies.  Whatever the centre writes to a row      *)
(* raises the row's version, so a copy that still has the version of its   *)
(* row is a copy of the row; and every copy the page takes was read        *)
(* version first.  The invariant follows the copies from a request through *)
(* the page to the form that is on its way, given up or not; and a list    *)
(* that is on its way keeps the view it was read for.                      *)
(***************************************************************************)
EXTENDS CandidateConsole, CandidateWorkflowProofs

-----------------------------------------------------------------------------
(* What the centre does to its rows.                                       *)

\* Nothing is written without raising the version it is read under.
Ages ==
  \A c \in Candidates :
    /\ candidate[c].version <= candidate'[c].version
    /\ candidate'[c].version = candidate[c].version =>
         candidate'[c] = candidate[c] /\ reviews'[c] = reviews[c]
    /\ outreach[c].version <= outreach'[c].version
    /\ outreach'[c].version = outreach[c].version => outreach'[c] = outreach[c]

\* A decision is appended under the version that it replaces.
Decided ==
  \A c \in Candidates :
    \/ reviews'[c] = reviews[c]
    \/ \E decision \in ManualDecisions :
         /\ reviews'[c] =
              Append(reviews[c], [decision |-> decision, base |-> candidate[c].version])
         /\ candidate'[c].version = candidate[c].version + 1

CentreStep == IInv' /\ Ages /\ Decided

\* The versions are numbers, and the tables are functions.
LEMMA Versions ==
  ASSUME IInv
  PROVE  /\ candidate \in [Candidates -> CandidateRow]
         /\ outreach \in [Candidates -> OutreachRow]
         /\ reviews \in [Candidates -> Seq(ReviewRow)]
         /\ \A c \in Candidates : candidate[c].version \in Nat /\ outreach[c].version \in Nat
<1>1. /\ candidate \in [Candidates -> CandidateRow]
      /\ outreach \in [Candidates -> OutreachRow]
      /\ reviews \in [Candidates -> Seq(ReviewRow)]
  BY DEF IInv, WorkflowTypeOK
<1> QED
  BY <1>1 DEF CandidateRow, OutreachRow

\* The centre's tables stay as they are.
LEMMA CentreRests ==
  ASSUME IInv, UNCHANGED workflowVars
  PROVE  CentreStep
<1>1. IInv'
  BY StutterKeeps
<1>2. Ages /\ Decided
  BY Versions DEF workflowVars, Ages, Decided
<1> QED
  BY <1>1, <1>2 DEF CentreStep

\* One row of candidates is written under its version.
LEMMA RowAges ==
  ASSUME IInv, NEW c \in Candidates, outreach' = outreach, reviews' = reviews,
         \A d \in Candidates : d # c => candidate'[d] = candidate[d],
         candidate'[c].version = candidate[c].version + 1
  PROVE  Ages /\ Decided
BY Versions DEF Ages, Decided

\* An observation that makes a candidate, or comes after others.
LEMMA IngestStep ==
  ASSUME IInv, Ingest
  PROVE  CentreStep
<1>1. PICK c \in Candidates, run \in Runs, facts \in ObservableFacts :
        ingestCreatorObservation(c, [run |-> run, facts |-> facts])
  BY DEF Ingest
<1>2. [run |-> run, facts |-> facts] \in ObservationRow
  BY DEF ObservationRow
<1>3. IInv'
  BY <1>1, <1>2, ingestKeeps
<1>4. outreach' = outreach /\ reviews' = reviews
  BY <1>1 DEF ingestCreatorObservation
<1>5. /\ \A d \in Candidates : d # c => candidate'[d] = candidate[d]
      /\ candidate' = candidate \/ candidate'[c].version = candidate[c].version + 1
  <2> DEFINE o == [run |-> run, facts |-> facts]
  <2>1. findOrCreateCandidate(c, o)
    BY <1>1 DEF ingestCreatorObservation
  <2> HIDE DEF o
  <2>2. candidate \in [Candidates -> CandidateRow] /\ candidate[c].version \in Nat
    BY Versions
  <2>3. CASE Exists(c)
    <3>1. candidate' = [candidate EXCEPT
            ![c].version = @ + 1, ![c].latest = Len(observations[c]) + 1]
      BY <2>1, <2>3 DEF findOrCreateCandidate
    <3> QED
      BY <2>2, <3>1 DEF CandidateRow
  <2>4. CASE ~Exists(c)
    <3>1. candidate[c].version = 0
      BY <2>2, <2>4 DEF Exists
    <3> DEFINE row == [NoRow EXCEPT !.version = 1, !.latest = Len(observations[c]) + 1]
    <3>2. candidate' = candidate \/ candidate' = [candidate EXCEPT ![c] = row]
      BY <2>1, <2>4 DEF findOrCreateCandidate
    <3>3. row.version = 1
      BY DEF NoRow
    <3> HIDE DEF row
    <3> QED
      BY <2>2, <3>1, <3>2, <3>3
  <2> QED
    BY <2>3, <2>4
<1>6. Ages /\ Decided
  <2>1. CASE candidate' = candidate
    BY <1>4, <2>1, Versions DEF Ages, Decided
  <2>2. CASE candidate' # candidate
    BY <1>4, <1>5, <2>2, RowAges
  <2> QED
    BY <2>1, <2>2
<1> QED
  BY <1>3, <1>6 DEF CentreStep

\* A decision.
LEMMA ReviewStep ==
  ASSUME IInv, NEW m \in Members, NEW c \in Candidates, NEW decision \in ManualDecisions,
         NEW expected \in Nat, submitManualReview(m, c, decision, expected)
  PROVE  CentreStep /\ candidate[c].version = expected
<1>1. IInv'
  BY submitManualReviewKeeps
<1>2. /\ candidate' = [candidate EXCEPT ![c].pipelineStatus = AdvancedStatus(c, decision),
                                        ![c].version = @ + 1]
      /\ reviews' = [reviews EXCEPT ![c] = Append(@, [decision |-> decision, base |-> expected])]
      /\ outreach' = outreach /\ candidate[c].version = expected
  BY DEF submitManualReview
<1>3. /\ candidate'[c].version = candidate[c].version + 1
      /\ reviews'[c] = Append(reviews[c], [decision |-> decision, base |-> candidate[c].version])
      /\ \A d \in Candidates : d # c => candidate'[d] = candidate[d] /\ reviews'[d] = reviews[d]
  BY <1>2, Versions DEF CandidateRow
<1>4. Ages /\ Decided
  BY <1>2, <1>3, Versions DEF Ages, Decided
<1> QED
  BY <1>1, <1>2, <1>3, <1>4 DEF CentreStep

\* An archive mark set or taken away.
LEMMA ArchiveStep ==
  ASSUME IInv, NEW m \in Members, NEW c \in Candidates, NEW archived \in BOOLEAN,
         NEW expected \in Nat, setCandidateArchived(m, c, archived, expected)
  PROVE  CentreStep /\ candidate[c].version = expected
<1>1. IInv'
  BY setCandidateArchivedKeeps
<1>2. /\ candidate' = [candidate EXCEPT ![c].archived = archived, ![c].version = @ + 1]
      /\ reviews' = reviews /\ outreach' = outreach /\ candidate[c].version = expected
  BY DEF setCandidateArchived
<1>3. /\ candidate'[c].version = candidate[c].version + 1
      /\ \A d \in Candidates : d # c => candidate'[d] = candidate[d]
  BY <1>2, Versions DEF CandidateRow
<1> QED
  BY <1>1, <1>2, <1>3, RowAges DEF CentreStep

\* A change of stage.
LEMMA TransitionStep ==
  ASSUME IInv, NEW m \in Members, NEW c \in Candidates, NEW next \in PIPELINE_STATUSES,
         NEW expected \in Nat, transitionCandidatePipeline(m, c, next, expected)
  PROVE  CentreStep /\ candidate[c].version = expected
<1>1. IInv'
  BY transitionCandidatePipelineKeeps
<1>2. /\ candidate' = [candidate EXCEPT ![c].pipelineStatus = next, ![c].version = @ + 1]
      /\ reviews' = reviews /\ outreach' = outreach /\ candidate[c].version = expected
  BY DEF transitionCandidatePipeline
<1>3. /\ candidate'[c].version = candidate[c].version + 1
      /\ \A d \in Candidates : d # c => candidate'[d] = candidate[d]
  BY <1>2, Versions DEF CandidateRow
<1> QED
  BY <1>1, <1>2, <1>3, RowAges DEF CentreStep

\* Contact data and an owner.
LEMMA OutreachStep ==
  ASSUME IInv, NEW m \in Members, NEW c \in Candidates,
         NEW owner \in Members \cup {NoMember, Unchanged},
         NEW contact \in Contacts \cup {NoContact, Unchanged}, NEW expected \in Nat,
         updateCandidateOutreach(m, c, owner, contact, expected)
  PROVE  CentreStep /\ outreach[c].version = expected
<1>1. IInv'
  BY updateCandidateOutreachKeeps
<1>2. /\ \A d \in Candidates : d # c => outreach'[d] = outreach[d]
      /\ outreach'[c].version = outreach[c].version + 1
      /\ candidate' = candidate /\ reviews' = reviews /\ outreach[c].version = expected
  BY Versions DEF updateCandidateOutreach
<1>3. Ages /\ Decided
  BY <1>2, Versions DEF Ages, Decided
<1> QED
  BY <1>1, <1>2, <1>3 DEF CentreStep

\* What a colleague does elsewhere.
LEMMA ColleagueStep ==
  ASSUME IInv, NEW m \in Members, Colleague(m)
  PROVE  CentreStep
<1>1. \A c \in Candidates : candidate[c].version \in Nat /\ outreach[c].version \in Nat
  BY Versions
<1>2. ASSUME NEW c \in Candidates, NEW decision \in Decisions,
             submitManualReview(m, c, decision, candidate[c].version)
      PROVE  CentreStep
  BY <1>1, <1>2, ReviewStep, ConsoleAssumption
<1>3. ASSUME NEW c \in Candidates, NEW next \in Stages,
             transitionCandidatePipeline(m, c, next, candidate[c].version)
      PROVE  CentreStep
  BY <1>1, <1>3, TransitionStep, ConsoleAssumption
<1>4. CASE Archive(m)
  BY <1>1, <1>4, ArchiveStep DEF Archive
<1>5. ASSUME NEW c \in Candidates, NEW owner \in Owners, NEW contact \in Contacts \cup {NoContact},
             updateCandidateOutreach(m, c, owner, contact, outreach[c].version)
      PROVE  CentreStep
  <2>1. owner \in Members \cup {NoMember, Unchanged}
    BY ConsoleAssumption
  <2> QED
    BY <1>1, <1>5, <2>1, OutreachStep
<1> QED
  BY <1>2, <1>3, <1>4, <1>5 DEF Colleague

-----------------------------------------------------------------------------
(* The invariant.                                                          *)

PageRowOK(p) == p \in Pages /\ p.mounted \in {NoCandidate, p.detail.candidate}
FetchRow == [step : {"evidence", "version", "workflow", "answer"}, detail : Details]
Arguments == ManualDecisions \cup PIPELINE_STATUSES \cup {"toggle"} \cup Contacts \cup {NoContact}
SaveRow == [state : {"sent", "accepted", "refused"}, kind : SaveKinds,
            argument : Arguments,
            seen : Details, expected : Nat,
            owner : Members \cup {NoMember}, touched : BOOLEAN]
LateRow == [by : Viewers, form : SaveRow]
BatchRow == [state : {"running", "broken", "reported"}, by : Viewers,
             kind : {"review", "archive"}, waiting : BOOLEAN,
             expected : [Candidates -> Nat], todo : SUBSET Candidates,
             ok : SUBSET Candidates, failed : SUBSET Candidates]

\* A form carries the version of what it was filled in over, and its argument fits.
SaveRowOK(s) ==
  /\ s \in SaveRow
  /\ s.expected = VersionSent(s.seen, s.kind)
  /\ s.kind = "review" => s.argument \in ManualDecisions
  /\ s.kind = "pipeline" => s.argument \in PIPELINE_STATUSES
  /\ s.kind = "outreach" => s.argument \in Contacts \cup {NoContact}

BatchRowOK(b) ==
  /\ b \in BatchRow
  /\ b.todo \cup b.ok \cup b.failed = {c \in Candidates : b.expected[c] > 0}
  /\ b.todo \cap (b.ok \cup b.failed) = {}
  /\ b.ok \cap b.failed = {}

PagesOK == page \in [Viewers -> Pages] /\ \A v \in Viewers : PageRowOK(page[v])
RequestsOK == /\ listing \in [Viewers -> ListRequests \cup {NoList}]
              /\ more \in [Viewers -> ListRequests \cup {NoList}]
FetchesOK == fetch \in [Viewers -> FetchRow \cup {NoFetch}]
SavesOK == /\ save \in [Viewers -> SaveRow \cup {NoSave}]
           /\ \A v \in Viewers : save[v] # NoSave => SaveRowOK(save[v])
LateOK == \A request \in late : request \in LateRow /\ SaveRowOK(request.form)
BatchesOK == /\ batch \in [BatchIds -> BatchRow \cup {NoBatch}]
             /\ \A b \in BatchIds : batch[b] # NoBatch => BatchRowOK(batch[b])

\* A part of a detail that has the version of its row is as good as the row.
EvidenceIsCopy(d, rows) ==
  LET row == rows[d.candidate] IN
  /\ d.version <= row.version
  /\ d.version = row.version => d.archived = row.archived /\ d.evidence = row.latest

StatusIsCopy(d, rows) ==
  LET row == rows[d.candidate] IN
  /\ d.workflow.version <= row.version
  /\ d.workflow.version = row.version => d.workflow.status = row.pipelineStatus

RecordsAreCopies(d, rows, log, records) ==
  LET record == records[d.candidate] IN
  /\ d.workflow.version = rows[d.candidate].version =>
       d.workflow.reviews = Len(log[d.candidate])
  /\ d.workflow.outreach.version <= record.version
  /\ d.workflow.outreach.version = record.version => d.workflow.outreach = record

IsCopy(d, rows, log, records) ==
  EvidenceIsCopy(d, rows) /\ StatusIsCopy(d, rows) /\ RecordsAreCopies(d, rows, log, records)

\* A request has read as much as its step says.
FetchIsCopy(f, rows, log, records) ==
  /\ f.step \in {"version", "workflow", "answer"} => EvidenceIsCopy(f.detail, rows)
  /\ f.step \in {"workflow", "answer"} => StatusIsCopy(f.detail, rows)
  /\ f.step = "answer" => RecordsAreCopies(f.detail, rows, log, records)

PagesAreCopies ==
  \A v \in Viewers :
    page[v].detail # NoDetail => IsCopy(page[v].detail, candidate, reviews, outreach)
FetchesAreCopies ==
  \A v \in Viewers : fetch[v] # NoFetch => FetchIsCopy(fetch[v], candidate, reviews, outreach)
SavesAreCopies ==
  \A v \in Viewers : save[v] # NoSave => IsCopy(save[v].seen, candidate, reviews, outreach)

LateAreCopies ==
  \A request \in late : IsCopy(request.form.seen, candidate, reviews, outreach)

\* A row that was read for a list and still has its version is a row of its view.
RowIsOf(c, version, view, rows) ==
  /\ version <= rows[c].version
  /\ version = rows[c].version =>
       rows[c].archived = view.archived /\ rows[c].pipelineStatus \in view.statuses
ListIsOf(request, rows) ==
  \A c \in Candidates :
    request.rows[c] > 0 => RowIsOf(c, request.rows[c], request.view, rows)

ListsAreCopies ==
  \A v \in Viewers : /\ listing[v] # NoList => ListIsOf(listing[v], candidate)
                     /\ more[v] # NoList => ListIsOf(more[v], candidate)

\* What the page waits for was asked for under the view that is on.
ListsAreOfTheView ==
  \A v \in Viewers :
    /\ listing[v] # NoList => listing[v].view = page[v].view
    /\ more[v] # NoList /\ more[v].current => more[v].view = page[v].view

ConsoleInv ==
  /\ IInv
  /\ PagesOK /\ RequestsOK /\ FetchesOK /\ SavesOK /\ LateOK /\ BatchesOK
  /\ PagesAreCopies /\ FetchesAreCopies /\ SavesAreCopies /\ LateAreCopies
  /\ ListsAreCopies /\ ListsAreOfTheView

-----------------------------------------------------------------------------
(* Rows of the console.                                                    *)

\* A detail is not the empty page.
LEMMA DetailsAreDetails ==
  /\ \A d \in Details : d.candidate \in Candidates /\ d # NoDetail
  /\ NoDetail \notin Details /\ NoDetail.candidate = NoCandidate
  /\ NoCandidate \notin Candidates
BY ConsoleAssumption DEF Details, NoDetail

\* Nothing that is asked for is the row of no request.
LEMMA RowsAreRows ==
  /\ \A f \in FetchRow : f # NoFetch /\ f.step # "none"
  /\ \A s \in SaveRow : s # NoSave
  /\ \A b \in BatchRow : b # NoBatch
  /\ NoFetch.step = "none" /\ NoSave.state = "none" /\ NoBatch.state = "none"
  /\ NoFetch \notin FetchRow /\ NoSave \notin SaveRow /\ NoBatch \notin BatchRow
BY DEF FetchRow, SaveRow, BatchRow, NoFetch, NoSave, NoBatch

\* Closing the detail.
LEMMA UnselectedOK ==
  ASSUME NEW p, PageRowOK(p)
  PROVE  /\ PageRowOK(Unselected(p)) /\ Unselected(p).detail = NoDetail
         /\ Unselected(p).view = p.view /\ Unselected(p).rows = p.rows
         /\ Unselected(p).selected = p.selected /\ Unselected(p).mounted = NoCandidate
BY DEF PageRowOK, Pages, Unselected

\* Showing a detail.
LEMMA MountOK ==
  ASSUME NEW p, PageRowOK(p), NEW d \in Details
  PROVE  /\ PageRowOK(Mount(p, d)) /\ Mount(p, d).detail = d
         /\ Mount(p, d).view = p.view /\ Mount(p, d).rows = p.rows
<1>1. /\ p \in Pages /\ d.candidate \in Candidates
      /\ d.workflow.outreach.owner \in Members \cup {NoMember}
  BY DEF PageRowOK, Details, WorkflowParts, OutreachRow
<1>2. CASE p.mounted = d.candidate
  BY <1>1, <1>2 DEF PageRowOK, Pages, Mount
<1>3. CASE p.mounted # d.candidate
  BY <1>1, <1>3 DEF PageRowOK, Pages, Mount
<1> QED
  BY <1>2, <1>3

\* Opening a candidate keeps the detail that is shown.
LEMMA OpenedOK ==
  ASSUME NEW p, PageRowOK(p), NEW c \in Candidates
  PROVE  /\ PageRowOK(Opened(p, c)) /\ Opened(p, c).detail = p.detail
         /\ Opened(p, c).view = p.view /\ Opened(p, c).rows = p.rows
<1> DEFINE q == [p EXCEPT !.opened = c]
<1>1. /\ PageRowOK(q) /\ q.detail = p.detail /\ q.view = p.view /\ q.rows = p.rows
  BY DEF PageRowOK, Pages
<1>2. CASE p.detail.candidate = c
  <2>1. p.detail \in Details
    BY <1>2, DetailsAreDetails DEF PageRowOK, Pages
  <2>2. Opened(p, c) = Mount(q, p.detail)
    BY <1>2 DEF Opened
  <2> HIDE DEF q
  <2> QED
    BY <1>1, <2>1, <2>2, MountOK
<1>3. CASE p.detail.candidate # c
  BY <1>3 DEF PageRowOK, Pages, Opened
<1> QED
  BY <1>2, <1>3

\* What a form sends as its version is a number.
LEMMA VersionSentIsNat ==
  ASSUME NEW d \in Details, NEW kind \in SaveKinds
  PROVE  VersionSent(d, kind) \in Nat
BY DEF Details, WorkflowParts, OutreachRow, SaveKinds, VersionSent

-----------------------------------------------------------------------------
(* Every step is a step of the centre.                                     *)

\* A form that is served is served at the version it carries.
LEMMA ServedStep ==
  ASSUME IInv, NEW v \in Viewers, NEW s \in SaveRow, SaveRowOK(s), Served(v, s)
  PROVE  /\ CentreStep /\ Target(s) \in Candidates
         /\ s.kind = "outreach" => outreach[Target(s)].version = s.expected
         /\ s.kind # "outreach" => candidate[Target(s)].version = s.expected
<1> DEFINE c == Target(s)
<1>1. /\ s.kind \in SaveKinds /\ s.expected \in Nat /\ c \in Candidates
      /\ v \in Members /\ s.owner \in Members \cup {NoMember, Unchanged}
  BY ConsoleAssumption DEF SaveRow, Details, Target
<1>2. CASE s.kind = "review"
  <2>1. submitManualReview(v, c, s.argument, s.expected) /\ s.argument \in ManualDecisions
    BY <1>2 DEF Served, SaveRowOK
  <2> QED
    BY <1>1, <1>2, <2>1, ReviewStep
<1>3. CASE s.kind = "pipeline"
  <2>1. transitionCandidatePipeline(v, c, s.argument, s.expected)
        /\ s.argument \in PIPELINE_STATUSES
    BY <1>3 DEF Served, SaveRowOK
  <2> QED
    BY <1>1, <1>3, <2>1, TransitionStep
<1>4. CASE s.kind = "archive"
  <2>1. setCandidateArchived(v, c, ~s.seen.archived, s.expected)
    BY <1>4 DEF Served
  <2>2. (~s.seen.archived) \in BOOLEAN
    OBVIOUS
  <2> QED
    BY <1>1, <1>4, <2>1, <2>2, ArchiveStep
<1>5. CASE s.kind = "outreach"
  <2>1. updateCandidateOutreach(v, c, s.owner, s.argument, s.expected)
        /\ s.argument \in Contacts \cup {NoContact, Unchanged}
    BY <1>5 DEF Served, SaveRowOK
  <2> QED
    BY <1>1, <1>5, <2>1, OutreachStep
<1> QED
  BY <1>1, <1>2, <1>3, <1>4, <1>5 DEF SaveKinds

\* Which forms are served.
LEMMA AcceptServes ==
  ASSUME SavesOK, NEW v \in Viewers, AcceptSave(v)
  PROVE  /\ save[v] # NoSave /\ save[v] \in SaveRow /\ SaveRowOK(save[v])
         /\ Served(v, save[v])
BY RowsAreRows DEF AcceptSave, SavesOK, SaveRowOK

\* A form the page gave up is served only while it is on its way.
LEMMA LateServes ==
  ASSUME LateOK, NEW request, AcceptLate(request)
  PROVE  /\ request \in late /\ request.by \in Viewers /\ request.form \in SaveRow
         /\ SaveRowOK(request.form) /\ Served(request.by, request.form)
BY DEF AcceptLate, LateOK, LateRow

\* An item of a batch that is served at the version it was ticked with.
LEMMA ItemStep ==
  ASSUME IInv, BatchesOK, NEW b \in BatchIds, NEW c \in Candidates, BatchItemSucceeds(b, c)
  PROVE  /\ CentreStep
         /\ batch[b].kind = "review" =>
              reviews'[c] = Append(reviews[c], [decision |-> "approved",
                                                base |-> batch[b].expected[c]])
<1>1. batch[b].state = "running" /\ BatchOperate(b, c)
  BY DEF BatchItemSucceeds
<1>2. batch[b] \in BatchRow
  BY <1>1, RowsAreRows DEF BatchesOK, BatchRowOK
<1>3. /\ batch[b].by \in Members /\ batch[b].expected[c] \in Nat
      /\ batch[b].kind \in {"review", "archive"}
  BY <1>2, ConsoleAssumption DEF BatchRow
<1>4. CASE batch[b].kind = "review"
  <2>1. submitManualReview(batch[b].by, c, "approved", batch[b].expected[c])
    BY <1>1, <1>4 DEF BatchOperate
  <2>2. "approved" \in ManualDecisions
    BY DEF ManualDecisions
  <2>3. CentreStep
    BY <1>3, <2>1, <2>2, ReviewStep
  <2>4. reviews'[c] = Append(reviews[c], [decision |-> "approved",
                                          base |-> batch[b].expected[c]])
    BY <2>1, Versions DEF submitManualReview
  <2> QED
    BY <2>3, <2>4
<1>5. CASE batch[b].kind = "archive"
  <2>1. setCandidateArchived(batch[b].by, c, TRUE, batch[b].expected[c])
    BY <1>1, <1>5 DEF BatchOperate
  <2> QED
    BY <1>3, <1>5, <2>1, ArchiveStep
<1> QED
  BY <1>3, <1>4, <1>5

\* A click writes nothing at the centre.
LEMMA ClickRests ==
  ASSUME NEW v \in Viewers, Click(v)
  PROVE  UNCHANGED workflowVars
BY DEF Click, ShowSection, SwitchArchivedView, LoadMore, OpenCandidate, Toggle, ChooseOwner,
       SubmitForm, RunBatch

\* What becomes of the rows of the centre in a step of the page and the centre.
LEMMA EveryStep ==
  ASSUME IInv, SavesOK, LateOK, BatchesOK, ConsoleNext
  PROVE  CentreStep
<1>1. CASE Ingest /\ UNCHANGED consoleVars
  BY <1>1, IngestStep
<1>2. ASSUME NEW m \in Members, Colleague(m)
      PROVE  CentreStep
  BY <1>2, ColleagueStep
<1>3. ASSUME NEW v \in Viewers, Click(v)
      PROVE  CentreStep
  BY <1>3, ClickRests, CentreRests
<1>4. ASSUME NEW v \in Viewers, Respond(v)
      PROVE  CentreStep
  <2>1. CASE AcceptSave(v)
    BY <2>1, AcceptServes, ServedStep
  <2>2. CASE ~AcceptSave(v)
    <3>1. UNCHANGED workflowVars
      BY <1>4, <2>2
         DEF Respond, ReadList, ReadMore, ListArrives, MoreArrives, ListFails, MoreFails, ReadEvidence, ReadVersion,
             ReadWorkflow, DetailArrives, DetailFails, RefuseSave, SaveAnswered,
             SaveWithoutAnswer
    <3> QED
      BY <3>1, CentreRests
  <2> QED
    BY <2>1, <2>2
<1>5. ASSUME NEW b \in BatchIds, ServeBatch(b)
      PROVE  CentreStep
  <2>1. ASSUME NEW c \in Candidates, BatchItemSucceeds(b, c)
        PROVE  CentreStep
    BY <2>1, ItemStep
  <2>2. CASE \A c \in Candidates : ~BatchItemSucceeds(b, c)
    <3>1. UNCHANGED workflowVars
      BY <1>5, <2>2
         DEF ServeBatch, BatchItemFails, BatchBreaks, BatchAnswered, BatchGivenUp
    <3> QED
      BY <3>1, CentreRests
  <2> QED
    BY <2>1, <2>2
<1>6. ASSUME NEW request, AcceptLate(request)
      PROVE  CentreStep
  BY <1>6, LateServes, ServedStep
<1> QED
  BY <1>1, <1>2, <1>3, <1>4, <1>5, <1>6 DEF ConsoleNext

-----------------------------------------------------------------------------
(* Copies age with their rows.                                             *)

\* A row that is written leaves its copies behind.
LEMMA CopiesAge ==
  ASSUME IInv, IInv', Ages
  PROVE  \A d \in Details :
           /\ EvidenceIsCopy(d, candidate) => EvidenceIsCopy(d, candidate')
           /\ StatusIsCopy(d, candidate) => StatusIsCopy(d, candidate')
           /\ StatusIsCopy(d, candidate) /\ RecordsAreCopies(d, candidate, reviews, outreach)
                => RecordsAreCopies(d, candidate', reviews', outreach')
<1> SUFFICES ASSUME NEW d \in Details
             PROVE  /\ EvidenceIsCopy(d, candidate) => EvidenceIsCopy(d, candidate')
                    /\ StatusIsCopy(d, candidate) => StatusIsCopy(d, candidate')
                    /\ StatusIsCopy(d, candidate)
                         /\ RecordsAreCopies(d, candidate, reviews, outreach)
                         => RecordsAreCopies(d, candidate', reviews', outreach')
  OBVIOUS
<1> DEFINE c == d.candidate
<1>1. /\ c \in Candidates /\ d.version \in Nat /\ d.workflow.version \in Nat
      /\ d.workflow.outreach.version \in Nat
  BY DEF Details, WorkflowParts, OutreachRow
<1>2. /\ candidate[c].version \in Nat /\ outreach[c].version \in Nat
      /\ candidate \in [Candidates -> CandidateRow] /\ outreach \in [Candidates -> OutreachRow]
      /\ candidate' \in [Candidates -> CandidateRow] /\ outreach' \in [Candidates -> OutreachRow]
  BY <1>1, Versions DEF IInv, WorkflowTypeOK
<1>3. candidate'[c].version \in Nat /\ outreach'[c].version \in Nat
  BY <1>1, <1>2 DEF CandidateRow, OutreachRow
<1>4. /\ candidate[c].version <= candidate'[c].version
      /\ candidate'[c].version = candidate[c].version =>
           candidate'[c] = candidate[c] /\ reviews'[c] = reviews[c]
      /\ outreach[c].version <= outreach'[c].version
      /\ outreach'[c].version = outreach[c].version => outreach'[c] = outreach[c]
  BY <1>1 DEF Ages
<1> HIDE DEF c
<1>5. EvidenceIsCopy(d, candidate) => EvidenceIsCopy(d, candidate')
  BY <1>1, <1>2, <1>3, <1>4 DEF EvidenceIsCopy, c
<1>6. StatusIsCopy(d, candidate) => StatusIsCopy(d, candidate')
  BY <1>1, <1>2, <1>3, <1>4 DEF StatusIsCopy, c
<1>7. StatusIsCopy(d, candidate) /\ RecordsAreCopies(d, candidate, reviews, outreach)
        => RecordsAreCopies(d, candidate', reviews', outreach')
  BY <1>1, <1>2, <1>3, <1>4 DEF StatusIsCopy, RecordsAreCopies, c
<1> QED
  BY <1>5, <1>6, <1>7

\* So does what a page shows, what a form was filled in over and what a request has read.
LEMMA CopiesStay ==
  ASSUME IInv, IInv', Ages
  PROVE  /\ \A d \in Details :
              IsCopy(d, candidate, reviews, outreach) =>
                IsCopy(d, candidate', reviews', outreach')
         /\ \A f \in FetchRow :
              FetchIsCopy(f, candidate, reviews, outreach) =>
                FetchIsCopy(f, candidate', reviews', outreach')
<1>1. \A d \in Details :
        IsCopy(d, candidate, reviews, outreach) => IsCopy(d, candidate', reviews', outreach')
  BY CopiesAge DEF IsCopy
<1>2. ASSUME NEW f \in FetchRow, FetchIsCopy(f, candidate, reviews, outreach)
      PROVE  FetchIsCopy(f, candidate', reviews', outreach')
  <2>1. f.detail \in Details
    BY DEF FetchRow
  <2> QED
    BY <1>2, <2>1, CopiesAge DEF FetchIsCopy
<1> QED
  BY <1>1, <1>2

-----------------------------------------------------------------------------
(* What a step does to a page.                                             *)

\* A detail goes, or comes from the newest request; rows are added from the view.
PageMove(v, row) ==
  /\ PageRowOK(row)
  /\ \/ row.detail \in {page[v].detail, NoDetail}
     \/ fetch[v].step = "answer" /\ row.detail = fetch[v].detail
  /\ \A c \in Candidates :
       row.rows[c] # page[v].rows[c] /\ row.rows[c] > 0 =>
         RowIsOf(c, row.rows[c], row.view, candidate)

PagesMove == page' \in [Viewers -> Pages] /\ \A v \in Viewers : PageMove(v, page'[v])

\* A page that stays.
LEMMA PagesRest ==
  ASSUME PagesOK, page' = page
  PROVE  PagesMove
BY DEF PagesOK, PagesMove, PageMove

\* One page is written.
LEMMA PageWritten ==
  ASSUME PagesOK, NEW v \in Viewers, NEW row, page' = [page EXCEPT ![v] = row],
         PageMove(v, row)
  PROVE  PagesMove
<1>1. row \in Pages
  BY DEF PageMove, PageRowOK
<1>2. page' \in [Viewers -> Pages] /\ page'[v] = row
      /\ \A w \in Viewers : w # v => page'[w] = page[w]
  BY <1>1 DEF PagesOK
<1>3. \A w \in Viewers : w # v => PageMove(w, page[w])
  BY DEF PagesOK, PageMove
<1> QED
  BY <1>2, <1>3 DEF PagesMove

\* The rows stay, and the detail stays or goes.
LEMMA RowsStay ==
  ASSUME NEW v \in Viewers, NEW row, PageRowOK(row), row.rows = page[v].rows,
         \/ row.detail \in {page[v].detail, NoDetail}
         \/ fetch[v].step = "answer" /\ row.detail = fetch[v].detail
  PROVE  PageMove(v, row)
BY DEF PageMove

\* What a viewer does to the page.
LEMMA ClickMoves ==
  ASSUME IInv, PagesOK, NEW v \in Viewers, Click(v)
  PROVE  PagesMove
<1> DEFINE p == page[v]
<1>1. PageRowOK(p) /\ p \in Pages
  BY DEF PagesOK
<1>2. ASSUME NEW view \in Views, ShowSection(v, view)
      PROVE  PagesMove
  <2> DEFINE row == [Unselected(p) EXCEPT !.view = view]
  <2>1. page' = [page EXCEPT ![v] = row]
    BY <1>2 DEF ShowSection, PagesOK
  <2>2. PageRowOK(row) /\ row.detail = NoDetail /\ row.rows = p.rows
    BY <1>1, UnselectedOK DEF PageRowOK, Pages
  <2> HIDE DEF row
  <2> QED
    BY <2>1, <2>2, RowsStay, PageWritten
<1>3. ASSUME NEW view \in Views, SwitchArchivedView(v, view)
      PROVE  PagesMove
  <2> DEFINE row == [Unselected(p) EXCEPT !.view = view, !.selected = NoRows]
  <2>1. page' = [page EXCEPT ![v] = row]
    BY <1>3 DEF SwitchArchivedView, PagesOK
  <2>2. PageRowOK(row) /\ row.detail = NoDetail /\ row.rows = p.rows
    BY <1>1, UnselectedOK DEF PageRowOK, Pages, NoRows
  <2> HIDE DEF row
  <2> QED
    BY <2>1, <2>2, RowsStay, PageWritten
<1>4. ASSUME NEW c \in Candidates, OpenCandidate(v, c)
      PROVE  PagesMove
  <2>1. page' = [page EXCEPT ![v] = Opened(p, c)]
    BY <1>4 DEF OpenCandidate, PagesOK
  <2> QED
    BY <1>1, <2>1, OpenedOK, RowsStay, PageWritten
<1>5. ASSUME NEW c \in Candidates, Toggle(v, c)
      PROVE  PagesMove
  <2> DEFINE row == [p EXCEPT !.selected[c] = IF @ > 0 THEN 0 ELSE p.rows[c]]
  <2>1. page' = [page EXCEPT ![v] = row]
    BY <1>5 DEF Toggle, PagesOK
  <2>2. PageRowOK(row) /\ row.detail = p.detail /\ row.rows = p.rows
    BY <1>1 DEF PageRowOK, Pages
  <2> HIDE DEF row
  <2> QED
    BY <2>1, <2>2, RowsStay, PageWritten
<1>6. ASSUME NEW owner \in Owners, ChooseOwner(v, owner)
      PROVE  PagesMove
  <2> DEFINE row == [p EXCEPT !.owner = owner, !.touched = TRUE]
  <2>1. page' = [page EXCEPT ![v] = row]
    BY <1>6 DEF ChooseOwner, PagesOK
  <2>2. PageRowOK(row) /\ row.detail = p.detail /\ row.rows = p.rows
    BY <1>1, ConsoleAssumption DEF PageRowOK, Pages
  <2> HIDE DEF row
  <2> QED
    BY <2>1, <2>2, RowsStay, PageWritten
<1>7. CASE page' = page
  BY <1>7, PagesRest
<1> QED
  BY <1>2, <1>3, <1>4, <1>5, <1>6, <1>7 DEF Click, LoadMore, SubmitForm, RunBatch

\* The rows that a list answers.
LEMMA ListMoves ==
  ASSUME ConsoleInv, NEW v \in Viewers, ListArrives(v) \/ MoreArrives(v)
  PROVE  PagesMove
<1> USE DEF ConsoleInv
<1> DEFINE p == page[v]
<1>1. PageRowOK(p) /\ p \in Pages
  BY DEF PagesOK
<1>2. \A r \in ListRequests \cup {NoList} :
        r.step = "read" => r # NoList /\ r \in ListRequests /\ r.rows \in [Candidates -> Nat]
  BY DEF ListRequests, NoList
<1>3. CASE ListArrives(v)
  <2> DEFINE new == listing[v].rows
             ticks == [c \in Candidates |-> IF new[c] > 0 THEN p.selected[c] ELSE 0]
             row == [p EXCEPT !.rows = new, !.selected = ticks]
  <2>1. page' = [page EXCEPT ![v] = row] /\ listing[v].step = "read"
    BY <1>3 DEF ListArrives, PagesOK
  <2>2. listing[v] # NoList /\ new \in [Candidates -> Nat]
    BY <1>2, <2>1 DEF RequestsOK
  <2>3. ticks \in [Candidates -> Nat]
    BY <1>1, <2>2 DEF Pages
  <2>4. /\ listing[v].view = p.view
        /\ \A c \in Candidates : new[c] > 0 => RowIsOf(c, new[c], p.view, candidate)
    BY <2>2 DEF ListsAreCopies, ListsAreOfTheView, ListIsOf
  <2> HIDE DEF ticks, new
  <2>5. PageRowOK(row) /\ row.detail = p.detail /\ row.rows = new /\ row.view = p.view
    BY <1>1, <2>2, <2>3 DEF PageRowOK, Pages
  <2> HIDE DEF row
  <2>6. PageMove(v, row)
    BY <2>4, <2>5 DEF PageMove
  <2> QED
    BY <2>1, <2>6, PageWritten
<1>4. CASE MoreArrives(v) /\ more[v].current
  <2> DEFINE new == more[v].rows
             merged == Merged(p.rows, new)
             row == [p EXCEPT !.rows = merged]
  <2>1. page' = [page EXCEPT ![v] = row] /\ more[v].step = "read"
    BY <1>4 DEF MoreArrives, PagesOK
  <2>2. more[v] # NoList /\ new \in [Candidates -> Nat]
    BY <1>2, <2>1 DEF RequestsOK
  <2>3. /\ more[v].view = p.view
        /\ \A c \in Candidates : new[c] > 0 => RowIsOf(c, new[c], p.view, candidate)
    BY <1>4, <2>2 DEF ListsAreCopies, ListsAreOfTheView, ListIsOf
  <2> HIDE DEF new
  <2>4. merged \in [Candidates -> Nat]
        /\ \A c \in Candidates : merged[c] # p.rows[c] => merged[c] = new[c] /\ new[c] > 0
    BY <1>1, <2>2 DEF Pages, Merged
  <2> HIDE DEF merged
  <2>5. PageRowOK(row) /\ row.detail = p.detail /\ row.rows = merged /\ row.view = p.view
    BY <1>1, <2>4 DEF PageRowOK, Pages
  <2> HIDE DEF row
  <2>6. PageMove(v, row)
    BY <2>3, <2>4, <2>5 DEF PageMove
  <2> QED
    BY <2>1, <2>6, PageWritten
<1>5. CASE MoreArrives(v) /\ ~more[v].current
  BY <1>5, PagesRest DEF MoreArrives
<1> QED
  BY <1>3, <1>4, <1>5

\* Whatever a step does, it moves the pages that way.
LEMMA PagesStep ==
  ASSUME ConsoleInv, ConsoleNext
  PROVE  PagesMove
<1> USE DEF ConsoleInv
<1>1. CASE page' = page
  BY <1>1, PagesRest
<1>2. ASSUME NEW v \in Viewers, Click(v)
      PROVE  PagesMove
  BY <1>2, ClickMoves
<1>3. ASSUME NEW v \in Viewers, ListArrives(v) \/ MoreArrives(v)
      PROVE  PagesMove
  BY <1>3, ListMoves
<1>4. ASSUME NEW v \in Viewers, DetailArrives(v)
      PROVE  PagesMove
  <2>1. fetch[v].step = "answer" /\ page' = [page EXCEPT ![v] = Mount(page[v], fetch[v].detail)]
    BY <1>4 DEF DetailArrives, PagesOK
  <2>2. fetch[v].detail \in Details
    BY <2>1, RowsAreRows DEF FetchesOK, FetchRow
  <2>3. PageMove(v, Mount(page[v], fetch[v].detail))
    BY <2>1, <2>2, MountOK, RowsStay DEF PagesOK
  <2> QED
    BY <2>1, <2>3, PageWritten
<1>5. ASSUME NEW v \in Viewers, DetailFails(v)
      PROVE  PagesMove
  <2> DEFINE row == [page[v] EXCEPT !.detail = NoDetail, !.mounted = NoCandidate]
  <2>1. page' = [page EXCEPT ![v] = row]
    BY <1>5 DEF DetailFails, PagesOK
  <2>2. PageRowOK(row) /\ row.detail = NoDetail /\ row.rows = page[v].rows
    BY DEF PagesOK, PageRowOK, Pages
  <2> HIDE DEF row
  <2> QED
    BY <2>1, <2>2, RowsStay, PageWritten
<1>6. ASSUME NEW v \in Viewers, SaveAnswered(v)
      PROVE  PagesMove
  <2> DEFINE c == Target(save[v])
  <2>1. save[v].state = "accepted" /\ page' = [page EXCEPT ![v] = Opened(page[v], c)]
    BY <1>6 DEF SaveAnswered, PagesOK
  <2>2. c \in Candidates
    BY <2>1, RowsAreRows DEF SavesOK, SaveRowOK, SaveRow, Details, Target
  <2> HIDE DEF c
  <2>3. PageMove(v, Opened(page[v], c))
    BY <2>2, OpenedOK, RowsStay DEF PagesOK
  <2> QED
    BY <2>1, <2>3, PageWritten
<1>7. ASSUME NEW b \in BatchIds, BatchAnswered(b)
      PROVE  PagesMove
  <2> DEFINE v == batch[b].by
             row == [Unselected(page[v]) EXCEPT !.selected = NoRows]
  <2>1. batch[b].state = "running" /\ page' = [page EXCEPT ![v] = row]
    BY <1>7 DEF BatchAnswered, PagesOK
  <2>2. v \in Viewers
    BY <2>1, RowsAreRows DEF BatchesOK, BatchRowOK, BatchRow
  <2> HIDE DEF v
  <2>3. PageRowOK(page[v])
    BY <2>2 DEF PagesOK
  <2>4. PageRowOK(row) /\ row.detail = NoDetail /\ row.rows = page[v].rows
    BY <2>3, UnselectedOK DEF PageRowOK, Pages, NoRows
  <2> HIDE DEF row
  <2> QED
    BY <2>1, <2>2, <2>4, RowsStay, PageWritten
<1>8. ASSUME NEW v \in Viewers, Respond(v)
      PROVE  PagesMove
  BY <1>1, <1>3, <1>4, <1>5, <1>6, <1>8
     DEF Respond, ReadList, ReadMore, ListFails, MoreFails, ReadEvidence, ReadVersion,
         ReadWorkflow, AcceptSave, RefuseSave, SaveWithoutAnswer
<1>9. ASSUME NEW b \in BatchIds, ServeBatch(b)
      PROVE  PagesMove
  BY <1>1, <1>7, <1>9
     DEF ServeBatch, BatchItemSucceeds, BatchItemFails, BatchBreaks, BatchGivenUp
<1> QED
  BY <1>1, <1>2, <1>8, <1>9 DEF ConsoleNext, Colleague, consoleVars, AcceptLate

-----------------------------------------------------------------------------
(* What a step does to a request for a detail.                             *)

\* A request that is new has read nothing, and one that goes on reads what is there.
FetchMove(v, f) ==
  \/ f = NoFetch
  \/ f \in FetchRow /\ f.step = "evidence"
  \/ /\ fetch[v] # NoFetch /\ f \in FetchRow /\ f.detail.candidate = fetch[v].detail.candidate
     /\ LET d == f.detail
            old == fetch[v].detail
            c == d.candidate
        IN  \/ /\ f.step = "version" /\ d.version = candidate[c].version
               /\ d.archived = candidate[c].archived /\ d.evidence = candidate[c].latest
            \/ /\ fetch[v].step = "version" /\ f.step = "workflow"
               /\ d.version = old.version /\ d.archived = old.archived
               /\ d.evidence = old.evidence
               /\ d.workflow.version = candidate[c].version
               /\ d.workflow.status = candidate[c].pipelineStatus
            \/ /\ fetch[v].step = "workflow" /\ f.step = "answer"
               /\ d.version = old.version /\ d.archived = old.archived
               /\ d.evidence = old.evidence
               /\ d.workflow.version = old.workflow.version
               /\ d.workflow.status = old.workflow.status
               /\ d.workflow.reviews = Len(reviews[c]) /\ d.workflow.outreach = outreach[c]

\* The request of one viewer is written, or none is, and then nothing at the centre.
FetchesMove ==
  \/ fetch' = fetch
  \/ /\ UNCHANGED workflowVars
     /\ \E v \in Viewers, f \in FetchRow \cup {NoFetch} :
          fetch' = [fetch EXCEPT ![v] = f] /\ FetchMove(v, f)

\* A new request.
LEMMA StartFetchMoves ==
  ASSUME NEW v \in Viewers, NEW c \in Candidates, StartFetch(v, c), UNCHANGED workflowVars
  PROVE  FetchesMove
<1> DEFINE f == [step |-> "evidence", detail |-> EmptyDetail(c)]
<1>1. EmptyDetail(c) \in Details
  BY ConsoleAssumption, WorkflowAssumption
     DEF EmptyDetail, EmptyWorkflow, Details, WorkflowParts, OutreachRow, NoOutreach,
         PIPELINE_STATUSES
<1>2. fetch' = [fetch EXCEPT ![v] = f] /\ f \in FetchRow /\ f.step = "evidence"
  BY <1>1 DEF StartFetch, FetchRow
<1> HIDE DEF f
<1> QED
  BY <1>2 DEF FetchesMove, FetchMove

\* A request that is dropped, answered or failed.
LEMMA EndFetchMoves ==
  ASSUME NEW v \in Viewers, fetch' = [fetch EXCEPT ![v] = NoFetch], UNCHANGED workflowVars
  PROVE  FetchesMove
BY DEF FetchesMove, FetchMove

\* A request that reads on.
LEMMA ReadMoves ==
  ASSUME IInv, FetchesOK, NEW v \in Viewers,
         ReadEvidence(v) \/ ReadVersion(v) \/ ReadWorkflow(v)
  PROVE  FetchesMove
<1> DEFINE old == fetch[v].detail
           c == old.candidate
<1>1. /\ fetch[v].step \in {"evidence", "version", "workflow"} /\ UNCHANGED workflowVars
  BY DEF ReadEvidence, ReadVersion, ReadWorkflow
<1>2. fetch[v] \in FetchRow /\ old \in Details /\ c \in Candidates /\ fetch[v] # NoFetch
  BY <1>1, RowsAreRows DEF FetchesOK, FetchRow, Details
<1>3. candidate[c] \in CandidateRow /\ outreach[c] \in OutreachRow /\ Len(reviews[c]) \in Nat
  BY <1>2, Versions
<1>4. CASE ReadEvidence(v)
  <2> DEFINE d == [old EXCEPT !.evidence = candidate[c].latest,
                              !.archived = candidate[c].archived,
                              !.version = candidate[c].version]
             f == [step |-> "version", detail |-> d]
  <2>1. fetch' = [fetch EXCEPT ![v] = f]
    BY <1>4 DEF ReadEvidence, Fetched, FetchesOK
  <2>2. /\ d \in Details /\ d.candidate = c /\ d.version = candidate[c].version
        /\ d.archived = candidate[c].archived /\ d.evidence = candidate[c].latest
    BY <1>2, <1>3 DEF Details, CandidateRow
  <2> HIDE DEF d
  <2>3. f \in FetchRow /\ f.step = "version" /\ f.detail = d
    BY <2>2 DEF FetchRow
  <2> HIDE DEF f
  <2>4. FetchMove(v, f)
    BY <1>2, <2>2, <2>3 DEF FetchMove
  <2> QED
    BY <1>1, <2>1, <2>3, <2>4 DEF FetchesMove
<1>5. CASE ReadVersion(v)
  <2> DEFINE d == [old EXCEPT !.workflow.version = candidate[c].version,
                              !.workflow.status = candidate[c].pipelineStatus]
             f == [step |-> "workflow", detail |-> d]
  <2>1. fetch' = [fetch EXCEPT ![v] = f] /\ fetch[v].step = "version"
    BY <1>5 DEF ReadVersion, Fetched, FetchesOK
  <2>2. /\ d \in Details /\ d.candidate = c /\ d.version = old.version
        /\ d.archived = old.archived /\ d.evidence = old.evidence
        /\ d.workflow.version = candidate[c].version
        /\ d.workflow.status = candidate[c].pipelineStatus
    BY <1>2, <1>3 DEF Details, WorkflowParts, CandidateRow
  <2> HIDE DEF d
  <2>3. f \in FetchRow /\ f.step = "workflow" /\ f.detail = d
    BY <2>2 DEF FetchRow
  <2> HIDE DEF f
  <2>4. FetchMove(v, f)
    BY <1>2, <2>1, <2>2, <2>3 DEF FetchMove
  <2> QED
    BY <1>1, <2>1, <2>3, <2>4 DEF FetchesMove
<1>6. CASE ReadWorkflow(v)
  <2> DEFINE w == Workflow(c, old.workflow.version, old.workflow.status)
             d == [old EXCEPT !.workflow = w]
             f == [step |-> "answer", detail |-> d]
  <2>1. fetch' = [fetch EXCEPT ![v] = f] /\ fetch[v].step = "workflow"
    BY <1>2, <1>6 DEF ReadWorkflow, Fetched, FetchesOK, Details
  <2>2. /\ w \in WorkflowParts /\ w.version = old.workflow.version
        /\ w.status = old.workflow.status /\ w.reviews = Len(reviews[c])
        /\ w.outreach = outreach[c]
    BY <1>2, <1>3 DEF Details, WorkflowParts, Workflow
  <2> HIDE DEF w
  <2>3. /\ d \in Details /\ d.candidate = c /\ d.version = old.version
        /\ d.archived = old.archived /\ d.evidence = old.evidence /\ d.workflow = w
    BY <1>2, <2>2 DEF Details
  <2> HIDE DEF d
  <2>4. f \in FetchRow /\ f.step = "answer" /\ f.detail = d
    BY <2>3 DEF FetchRow
  <2> HIDE DEF f
  <2>5. FetchMove(v, f)
    BY <1>2, <2>1, <2>2, <2>3, <2>4 DEF FetchMove
  <2> QED
    BY <1>1, <2>1, <2>4, <2>5 DEF FetchesMove
<1> QED
  BY <1>4, <1>5, <1>6

\* Whatever a step does, it moves the requests for a detail that way.
LEMMA FetchesStep ==
  ASSUME ConsoleInv, ConsoleNext
  PROVE  FetchesMove
<1> USE DEF ConsoleInv
<1>1. CASE fetch' = fetch
  BY <1>1 DEF FetchesMove
<1>2. ASSUME NEW v \in Viewers, Click(v)
      PROVE  FetchesMove
  <2>1. UNCHANGED workflowVars
    BY <1>2, ClickRests
  <2>2. ASSUME NEW view \in Views, ShowSection(v, view)
        PROVE  FetchesMove
    BY <2>1, <2>2, EndFetchMoves DEF ShowSection
  <2>3. ASSUME NEW c \in Candidates, OpenCandidate(v, c)
        PROVE  FetchesMove
    BY <2>1, <2>3, StartFetchMoves DEF OpenCandidate
  <2> QED
    BY <1>1, <1>2, <2>2, <2>3
       DEF Click, SwitchArchivedView, LoadMore, Toggle, ChooseOwner, SubmitForm, RunBatch
<1>3. ASSUME NEW v \in Viewers, ReadEvidence(v) \/ ReadVersion(v) \/ ReadWorkflow(v)
      PROVE  FetchesMove
  BY <1>3, ReadMoves
<1>4. ASSUME NEW v \in Viewers, DetailArrives(v) \/ DetailFails(v)
      PROVE  FetchesMove
  BY <1>4, EndFetchMoves DEF DetailArrives, DetailFails
<1>5. ASSUME NEW v \in Viewers, SaveAnswered(v)
      PROVE  FetchesMove
  <2>1. Target(save[v]) \in Candidates
    BY <1>5, RowsAreRows DEF SaveAnswered, SavesOK, SaveRowOK, SaveRow, Details, Target
  <2> QED
    BY <1>5, <2>1, StartFetchMoves DEF SaveAnswered
<1>6. ASSUME NEW v \in Viewers, Respond(v)
      PROVE  FetchesMove
  BY <1>1, <1>3, <1>4, <1>5, <1>6
     DEF Respond, ReadList, ReadMore, ListArrives, MoreArrives, ListFails, MoreFails, AcceptSave, RefuseSave,
         SaveWithoutAnswer
<1>7. ASSUME NEW b \in BatchIds, ServeBatch(b)
      PROVE  FetchesMove
  BY <1>1, <1>7
     DEF ServeBatch, BatchItemSucceeds, BatchItemFails, BatchBreaks, BatchAnswered, BatchGivenUp
<1> QED
  BY <1>1, <1>2, <1>6, <1>7 DEF ConsoleNext, Colleague, consoleVars, AcceptLate

\* What a request has read remains a copy of its rows.
LEMMA FetchesCopied ==
  ASSUME ConsoleInv, CentreStep, FetchesMove
  PROVE  FetchesOK' /\ FetchesAreCopies'
<1> USE DEF ConsoleInv
<1>1. CASE fetch' = fetch
  <2>1. FetchesOK'
    BY <1>1 DEF FetchesOK
  <2>2. ASSUME NEW v \in Viewers, fetch[v] # NoFetch
        PROVE  FetchIsCopy(fetch[v], candidate', reviews', outreach')
    BY <2>2, CopiesStay DEF CentreStep, FetchesOK, FetchesAreCopies
  <2> QED
    BY <1>1, <2>1, <2>2 DEF FetchesAreCopies
<1>2. CASE fetch' # fetch
  <2>1. PICK v \in Viewers, f \in FetchRow \cup {NoFetch} :
          /\ fetch' = [fetch EXCEPT ![v] = f] /\ FetchMove(v, f)
          /\ candidate' = candidate /\ reviews' = reviews /\ outreach' = outreach
    BY <1>2 DEF FetchesMove, workflowVars
  <2>2. FetchesOK' /\ fetch'[v] = f /\ \A w \in Viewers : w # v => fetch'[w] = fetch[w]
    BY <2>1 DEF FetchesOK
  <2>3. ASSUME f # NoFetch
        PROVE  FetchIsCopy(f, candidate, reviews, outreach)
    <3> DEFINE d == f.detail
               old == fetch[v].detail
               c == d.candidate
    <3>1. f \in FetchRow /\ d \in Details /\ c \in Candidates
      BY <2>3 DEF FetchRow, Details
    <3>2. candidate[c].version \in Nat /\ outreach[c].version \in Nat
      BY <3>1, Versions
    <3>3. CASE f.step = "evidence"
      BY <3>3 DEF FetchIsCopy
    <3>4. CASE f.step = "version"
      BY <2>1, <2>3, <3>2, <3>4 DEF FetchMove, FetchIsCopy, EvidenceIsCopy
    <3>5. CASE f.step = "workflow"
      <4>1. /\ fetch[v] # NoFetch /\ fetch[v].step = "version" /\ old.candidate = c
            /\ d.version = old.version /\ d.archived = old.archived
            /\ d.evidence = old.evidence
            /\ d.workflow.version = candidate[c].version
            /\ d.workflow.status = candidate[c].pipelineStatus
        BY <2>1, <2>3, <3>5 DEF FetchMove
      <4>2. EvidenceIsCopy(old, candidate)
        BY <4>1 DEF FetchesAreCopies, FetchIsCopy
      <4>3. EvidenceIsCopy(d, candidate) /\ StatusIsCopy(d, candidate)
        BY <3>2, <4>1, <4>2 DEF EvidenceIsCopy, StatusIsCopy
      <4> QED
        BY <3>5, <4>3 DEF FetchIsCopy
    <3>6. CASE f.step = "answer"
      <4>1. /\ fetch[v] # NoFetch /\ fetch[v].step = "workflow" /\ old.candidate = c
            /\ d.version = old.version /\ d.archived = old.archived
            /\ d.evidence = old.evidence
            /\ d.workflow.version = old.workflow.version
            /\ d.workflow.status = old.workflow.status
            /\ d.workflow.reviews = Len(reviews[c]) /\ d.workflow.outreach = outreach[c]
        BY <2>1, <2>3, <3>6 DEF FetchMove
      <4>2. EvidenceIsCopy(old, candidate) /\ StatusIsCopy(old, candidate)
        BY <4>1 DEF FetchesAreCopies, FetchIsCopy
      <4>3. EvidenceIsCopy(d, candidate) /\ StatusIsCopy(d, candidate)
        BY <3>2, <4>1, <4>2 DEF EvidenceIsCopy, StatusIsCopy
      <4>4. RecordsAreCopies(d, candidate, reviews, outreach)
        BY <3>2, <4>1 DEF RecordsAreCopies
      <4> QED
        BY <3>6, <4>3, <4>4 DEF FetchIsCopy
    <3> QED
      BY <3>1, <3>3, <3>4, <3>5, <3>6 DEF FetchRow
  <2>4. FetchesAreCopies'
    BY <2>1, <2>2, <2>3 DEF FetchesAreCopies
  <2> QED
    BY <2>2, <2>4
<1> QED
  BY <1>1, <1>2

\* What a page shows remains a copy of its rows.
LEMMA PagesCopied ==
  ASSUME ConsoleInv, CentreStep, PagesMove
  PROVE  PagesOK' /\ PagesAreCopies'
<1> USE DEF ConsoleInv
<1>1. PagesOK'
  BY DEF PagesMove, PageMove, PagesOK
<1>2. ASSUME NEW v \in Viewers, page'[v].detail # NoDetail
      PROVE  IsCopy(page'[v].detail, candidate', reviews', outreach')
  <2> DEFINE d == page'[v].detail
  <2>1. PageMove(v, page'[v]) /\ d \in Details
    BY <1>2 DEF PagesMove, PageMove, PageRowOK, Pages
  <2>2. CASE d = page[v].detail
    <3>1. IsCopy(d, candidate, reviews, outreach)
      BY <1>2, <2>2 DEF PagesAreCopies
    <3> QED
      BY <2>1, <3>1, CopiesStay DEF CentreStep
  <2>3. CASE fetch[v].step = "answer" /\ d = fetch[v].detail
    <3>1. IsCopy(d, candidate, reviews, outreach)
      BY <2>3, RowsAreRows DEF FetchesAreCopies, FetchIsCopy, IsCopy
    <3> QED
      BY <2>1, <3>1, CopiesStay DEF CentreStep
  <2> QED
    BY <1>2, <2>1, <2>2, <2>3 DEF PageMove
<1> QED
  BY <1>1, <1>2 DEF PagesAreCopies

-----------------------------------------------------------------------------
(* What a step does to the forms.                                          *)

\* One form goes, is new over what the page shows, or is answered by the centre.
SaveMove(v, s) ==
  \/ s = NoSave
  \/ SaveRowOK(s) /\ s.state = "sent" /\ s.seen = page[v].detail /\ s.seen # NoDetail
  \/ /\ SaveRowOK(s) /\ save[v] # NoSave /\ s.seen = save[v].seen
     /\ s.state = "accepted" => AcceptSave(v)

SavesMove ==
  \/ save' = save
  \/ \E v \in Viewers, s \in SaveRow \cup {NoSave} :
       save' = [save EXCEPT ![v] = s] /\ SaveMove(v, s)

\* A form that is sent off.
LEMMA SubmitMoves ==
  ASSUME PagesOK, SavesOK, NEW v \in Viewers, NEW kind \in SaveKinds,
         NEW argument \in Arguments,
         kind = "review" => argument \in ManualDecisions,
         kind = "pipeline" => argument \in PIPELINE_STATUSES,
         kind = "outreach" => argument \in Contacts \cup {NoContact},
         SubmitForm(v, kind, argument)
  PROVE  SavesMove
<1> DEFINE s == [state |-> "sent", kind |-> kind, argument |-> argument, seen |-> Shown(v),
                 expected |-> VersionSent(Shown(v), kind),
                 owner |-> page[v].owner, touched |-> page[v].touched]
<1>1. save' = [save EXCEPT ![v] = s] /\ page[v].mounted # NoCandidate
  BY DEF SubmitForm
<1>2. PageRowOK(page[v]) /\ page[v] \in Pages
  BY DEF PagesOK
<1>3. /\ Shown(v) = page[v].detail /\ Shown(v) \in Details
      /\ page[v].owner \in Members \cup {NoMember} /\ page[v].touched \in BOOLEAN
  BY <1>1, <1>2, DetailsAreDetails DEF PageRowOK, Pages, Shown
<1>4. VersionSent(Shown(v), kind) \in Nat
  BY <1>3, VersionSentIsNat
<1>5. s \in SaveRow
  BY <1>3, <1>4 DEF SaveRow
<1>6. /\ s.state = "sent" /\ s.seen = page[v].detail /\ s.seen # NoDetail
      /\ s.expected = VersionSent(s.seen, s.kind) /\ s.kind = kind /\ s.argument = argument
  BY <1>3, DetailsAreDetails
<1> HIDE DEF s
<1>7. SaveRowOK(s)
  BY <1>5, <1>6 DEF SaveRowOK
<1>8. SaveMove(v, s)
  BY <1>6, <1>7 DEF SaveMove
<1> QED
  BY <1>1, <1>5, <1>8 DEF SavesMove

\* A form that is answered.
LEMMA ServedMoves ==
  ASSUME SavesOK, NEW v \in Viewers, AcceptSave(v) \/ RefuseSave(v)
  PROVE  SavesMove
<1> DEFINE state == IF AcceptSave(v) THEN "accepted" ELSE "refused"
           s == [save[v] EXCEPT !.state = state]
<1>1. save[v] # NoSave /\ SaveRowOK(save[v]) /\ save[v] \in SaveRow
  BY RowsAreRows DEF AcceptSave, RefuseSave, SavesOK, SaveRowOK
<1>2. save' = [save EXCEPT ![v] = s]
  BY DEF AcceptSave, RefuseSave, SavesOK
<1>3. /\ s \in SaveRow /\ s.state = state /\ s.seen = save[v].seen
      /\ s.expected = save[v].expected /\ s.kind = save[v].kind
      /\ s.argument = save[v].argument
  BY <1>1 DEF SaveRow
<1>4. state = "accepted" => AcceptSave(v)
  OBVIOUS
<1> HIDE DEF s, state
<1>5. SaveRowOK(s)
  BY <1>1, <1>3 DEF SaveRowOK
<1>6. SaveMove(v, s)
  BY <1>1, <1>3, <1>4, <1>5 DEF SaveMove
<1> QED
  BY <1>2, <1>3, <1>6 DEF SavesMove

\* A form that goes.
LEMMA EndSaveMoves ==
  ASSUME NEW v \in Viewers, save' = [save EXCEPT ![v] = NoSave]
  PROVE  SavesMove
BY DEF SavesMove, SaveMove

\* Whatever a step does, it moves the forms that way.
LEMMA SavesStep ==
  ASSUME ConsoleInv, ConsoleNext
  PROVE  SavesMove
<1> USE DEF ConsoleInv
<1>1. CASE save' = save
  BY <1>1 DEF SavesMove
<1>2. ASSUME NEW v \in Viewers, NEW decision \in Decisions, SubmitForm(v, "review", decision)
      PROVE  SavesMove
  BY <1>2, SubmitMoves, ConsoleAssumption DEF SaveKinds, Arguments
<1>3. ASSUME NEW v \in Viewers, NEW next \in Stages, SubmitForm(v, "pipeline", next)
      PROVE  SavesMove
  BY <1>3, SubmitMoves, ConsoleAssumption DEF SaveKinds, Arguments
<1>4. ASSUME NEW v \in Viewers, SubmitForm(v, "archive", "toggle")
      PROVE  SavesMove
  BY <1>4, SubmitMoves DEF SaveKinds, Arguments
<1>5. ASSUME NEW v \in Viewers, NEW contact \in Contacts \cup {NoContact},
             SubmitForm(v, "outreach", contact)
      PROVE  SavesMove
  BY <1>5, SubmitMoves DEF SaveKinds, Arguments
<1>6. ASSUME NEW v \in Viewers, Click(v)
      PROVE  SavesMove
  BY <1>1, <1>2, <1>3, <1>4, <1>5, <1>6
     DEF Click, ShowSection, SwitchArchivedView, LoadMore, OpenCandidate, Toggle, ChooseOwner,
         RunBatch
<1>7. ASSUME NEW v \in Viewers, AcceptSave(v) \/ RefuseSave(v)
      PROVE  SavesMove
  BY <1>7, ServedMoves
<1>8. ASSUME NEW v \in Viewers, SaveAnswered(v) \/ SaveWithoutAnswer(v)
      PROVE  SavesMove
  BY <1>8, EndSaveMoves DEF SaveAnswered, SaveWithoutAnswer
<1>9. ASSUME NEW v \in Viewers, Respond(v)
      PROVE  SavesMove
  BY <1>1, <1>7, <1>8, <1>9
     DEF Respond, ReadList, ReadMore, ListArrives, MoreArrives, ListFails, MoreFails, ReadEvidence, ReadVersion,
         ReadWorkflow, DetailArrives, DetailFails
<1>10. ASSUME NEW b \in BatchIds, ServeBatch(b)
       PROVE  SavesMove
  BY <1>1, <1>10
     DEF ServeBatch, BatchItemSucceeds, BatchItemFails, BatchBreaks, BatchAnswered, BatchGivenUp
<1> QED
  BY <1>1, <1>6, <1>9, <1>10 DEF ConsoleNext, Colleague, consoleVars, AcceptLate

\* What a form was filled in over remains a copy of its rows.
LEMMA SavesCopied ==
  ASSUME ConsoleInv, CentreStep, SavesMove
  PROVE  SavesOK' /\ SavesAreCopies'
<1> USE DEF ConsoleInv
<1>1. \A v \in Viewers :
        save[v] # NoSave => IsCopy(save[v].seen, candidate', reviews', outreach')
  <2> SUFFICES ASSUME NEW v \in Viewers, save[v] # NoSave
               PROVE  IsCopy(save[v].seen, candidate', reviews', outreach')
    OBVIOUS
  <2>1. save[v].seen \in Details
    BY DEF SavesOK, SaveRowOK, SaveRow
  <2> QED
    BY <2>1, CopiesStay DEF CentreStep, SavesAreCopies
<1>2. CASE save' = save
  BY <1>1, <1>2 DEF SavesOK, SavesAreCopies
<1>3. CASE save' # save
  <2>1. PICK v \in Viewers, s \in SaveRow \cup {NoSave} :
          save' = [save EXCEPT ![v] = s] /\ SaveMove(v, s)
    BY <1>3 DEF SavesMove
  <2>2. save'[v] = s /\ \A w \in Viewers : w # v => save'[w] = save[w]
    BY <2>1 DEF SavesOK
  <2>3. s # NoSave => SaveRowOK(s)
    BY <2>1 DEF SaveMove
  <2>4. SavesOK'
    BY <2>1, <2>2, <2>3 DEF SavesOK
  <2>5. ASSUME s # NoSave
        PROVE  IsCopy(s.seen, candidate', reviews', outreach')
    <3>1. s.seen \in Details
      BY <2>3, <2>5 DEF SaveRowOK, SaveRow
    <3>2. CASE s.seen = page[v].detail /\ s.seen # NoDetail
      BY <3>1, <3>2, CopiesStay DEF CentreStep, PagesAreCopies
    <3>3. CASE save[v] # NoSave /\ s.seen = save[v].seen
      BY <1>1, <3>3
    <3> QED
      BY <2>1, <2>5, <3>2, <3>3 DEF SaveMove
  <2>6. SavesAreCopies'
    BY <1>1, <2>2, <2>5 DEF SavesAreCopies
  <2> QED
    BY <2>4, <2>6
<1> QED
  BY <1>2, <1>3

\* The forms that were given up were on their way.
LateMove ==
  \A request \in late' :
    \/ request \in late
    \/ \E v \in Viewers : save[v] # NoSave /\ request = [by |-> v, form |-> save[v]]

\* What the centre serves of the forms that were given up keeps the rest sound.
LEMMA LateStep ==
  ASSUME ConsoleNext
  PROVE  LateMove
<1>1. CASE late' \subseteq late
  BY <1>1 DEF LateMove
<1>2. ASSUME NEW v \in Viewers, SaveWithoutAnswer(v)
      PROVE  LateMove
  BY <1>2 DEF SaveWithoutAnswer, LateMove
<1>3. ASSUME NEW v \in Viewers, Click(v)
      PROVE  late' = late
  BY <1>3
     DEF Click, ShowSection, SwitchArchivedView, LoadMore, OpenCandidate, Toggle, ChooseOwner,
         SubmitForm, RunBatch
<1>4. ASSUME NEW v \in Viewers, Respond(v), ~SaveWithoutAnswer(v)
      PROVE  late' = late
  BY <1>4
     DEF Respond, ReadList, ReadMore, ListArrives, MoreArrives, ListFails, MoreFails,
         ReadEvidence, ReadVersion, ReadWorkflow, DetailArrives, DetailFails, AcceptSave,
         RefuseSave, SaveAnswered
<1>5. ASSUME NEW b \in BatchIds, ServeBatch(b)
      PROVE  late' = late
  BY <1>5
     DEF ServeBatch, BatchItemSucceeds, BatchItemFails, BatchBreaks, BatchAnswered, BatchGivenUp
<1> QED
  BY <1>1, <1>2, <1>3, <1>4, <1>5 DEF ConsoleNext, Colleague, consoleVars, AcceptLate

\* They remain copies as they were.
LEMMA LateCopied ==
  ASSUME ConsoleInv, CentreStep, LateMove
  PROVE  LateOK' /\ LateAreCopies'
<1> USE DEF ConsoleInv
<1> SUFFICES ASSUME NEW request \in late'
             PROVE  /\ request \in LateRow /\ SaveRowOK(request.form)
                    /\ IsCopy(request.form.seen, candidate', reviews', outreach')
  BY DEF LateOK, LateAreCopies
<1>1. /\ request \in LateRow /\ SaveRowOK(request.form)
      /\ IsCopy(request.form.seen, candidate, reviews, outreach)
  <2>1. CASE request \in late
    BY <2>1 DEF LateOK, LateAreCopies
  <2>2. ASSUME NEW v \in Viewers, save[v] # NoSave, request = [by |-> v, form |-> save[v]]
        PROVE  /\ request \in LateRow /\ SaveRowOK(request.form)
               /\ IsCopy(request.form.seen, candidate, reviews, outreach)
    <3>1. request.by = v /\ request.form = save[v]
      BY <2>2
    <3>2. SaveRowOK(save[v]) /\ save[v] \in SaveRow
      BY <2>2 DEF SavesOK, SaveRowOK
    <3>3. request \in LateRow
      BY <2>2, <3>2 DEF LateRow
    <3> QED
      BY <2>2, <3>1, <3>2, <3>3 DEF SavesAreCopies
  <2> QED
    BY <2>1, <2>2 DEF LateMove
<1>2. request.form.seen \in Details
  BY <1>1 DEF LateRow, SaveRow
<1> QED
  BY <1>1, <1>2, CopiesStay DEF CentreStep

-----------------------------------------------------------------------------
(* What a step does to the requests for rows.                              *)

\* A request goes on under the view that stays, and may be answered.
GoesOn(v, old, new) ==
  /\ old # NoList /\ new \in ListRequests
  /\ new.view = old.view /\ new.current = old.current /\ page'[v].view = page[v].view
  /\ new.rows = old.rows \/ ListIsOf(new, candidate)

RequestMove(v, old, new) ==
  \/ new = NoList
  \/ page'[v].view \in Views /\ new = Asked(page'[v].view)
  \/ GoesOn(v, old, new)

ListMove(v) ==
  /\ RequestMove(v, listing[v], listing'[v])
  /\ \/ RequestMove(v, more[v], more'[v])
     \/ more[v] # NoList /\ more'[v] = Disowned(more[v])

ListsMove ==
  /\ listing' \in [Viewers -> ListRequests \cup {NoList}]
  /\ more' \in [Viewers -> ListRequests \cup {NoList}]
  /\ \A v \in Viewers : ListMove(v)

\* A page whose view stays, and its requests with it.
LEMMA ListRests ==
  ASSUME RequestsOK, NEW v \in Viewers, page'[v].view = page[v].view,
         listing'[v] = listing[v], more'[v] = more[v]
  PROVE  ListMove(v)
BY DEF RequestsOK, ListMove, RequestMove, GoesOn

\* Requests for rows are well formed.
LEMMA RequestRows ==
  /\ \A view \in Views : Asked(view) \in ListRequests /\ Asked(view).view = view
  /\ \A view : \A c \in Candidates : Asked(view).rows[c] = 0
  /\ \A view : Asked(view) # NoList
  /\ \A r \in ListRequests :
       /\ r # NoList /\ Disowned(r) \in ListRequests /\ Disowned(r).view = r.view
       /\ Disowned(r).rows = r.rows /\ ~Disowned(r).current
  /\ Disowned(NoList) = NoList /\ NoList.step = "none"
<1>1. \A view \in Views : Asked(view) \in ListRequests /\ Asked(view).view = view
  BY DEF ListRequests, Asked, NoRows
<1>2. \A view : \A c \in Candidates : Asked(view).rows[c] = 0
  BY DEF Asked, NoRows
<1>3. NoList.step = "none" /\ Disowned(NoList) = NoList
  BY DEF NoList, Disowned
<1>4. \A view : Asked(view) # NoList
  <2> SUFFICES ASSUME NEW view
               PROVE  Asked(view).step # NoList.step
    OBVIOUS
  <2> QED
    BY <1>3 DEF Asked
<1>5. \A r \in ListRequests : r # NoList
  BY DEF ListRequests, NoList
<1>6. ASSUME NEW r \in ListRequests
      PROVE  /\ Disowned(r) \in ListRequests /\ Disowned(r).view = r.view
             /\ Disowned(r).rows = r.rows /\ ~Disowned(r).current
  BY <1>5 DEF ListRequests, Disowned
<1> QED
  BY <1>1, <1>2, <1>3, <1>4, <1>5, <1>6

\* A request that is read, or was, is one.
LEMMA StepsOfRequests ==
  ASSUME NEW r \in ListRequests \cup {NoList}, r.step \in {"asked", "read"}
  PROVE  r # NoList /\ r \in ListRequests
BY RequestRows

\* The requests of one page are written.
LEMMA OneListMoves ==
  ASSUME RequestsOK, NEW v \in Viewers, ListMove(v),
         \A w \in Viewers : w # v => page'[w] = page[w],
         \/ listing' = listing
         \/ \E r \in ListRequests \cup {NoList} : listing' = [listing EXCEPT ![v] = r],
         \/ more' = more
         \/ \E r \in ListRequests \cup {NoList} : more' = [more EXCEPT ![v] = r]
  PROVE  ListsMove
<1>1. /\ listing' \in [Viewers -> ListRequests \cup {NoList}]
      /\ more' \in [Viewers -> ListRequests \cup {NoList}]
      /\ \A w \in Viewers : w # v => listing'[w] = listing[w] /\ more'[w] = more[w]
  BY DEF RequestsOK
<1>2. \A w \in Viewers : w # v => ListMove(w)
  BY <1>1, ListRests
<1> QED
  BY <1>1, <1>2 DEF ListsMove

\* The list of a page is asked for anew.
LEMMA ReloadMoves ==
  ASSUME RequestsOK, PagesOK, NEW v \in Viewers, NEW view \in Views, ReloadList(v, view),
         NEW row, page' = [page EXCEPT ![v] = row], row.view = view
  PROVE  ListsMove
<1>1. /\ Asked(view) \in ListRequests /\ Disowned(more[v]) \in ListRequests \cup {NoList}
      /\ more[v] = NoList => Disowned(more[v]) = NoList
  BY RequestRows DEF RequestsOK
<1>2. /\ listing' = [listing EXCEPT ![v] = Asked(view)]
      /\ more' = [more EXCEPT ![v] = Disowned(more[v])]
  BY DEF ReloadList, RequestsOK
<1>3. listing'[v] = Asked(view) /\ more'[v] = Disowned(more[v])
      /\ page'[v].view = view /\ \A w \in Viewers : w # v => page'[w] = page[w]
  BY <1>2 DEF RequestsOK, PagesOK
<1>4. ListMove(v)
  BY <1>1, <1>3 DEF ListMove, RequestMove
<1> QED
  BY <1>1, <1>2, <1>3, <1>4, OneListMoves

\* A page is written whose view stays.
LEMMA ViewRests ==
  ASSUME RequestsOK, PagesOK, NEW v \in Viewers, UNCHANGED <<listing, more>>,
         NEW row, page' = [page EXCEPT ![v] = row], row.view = page[v].view
  PROVE  ListsMove
<1>1. page'[v].view = page[v].view /\ \A w \in Viewers : w # v => page'[w] = page[w]
  BY DEF PagesOK
<1> QED
  BY <1>1, ListRests, OneListMoves

\* Nothing is written.
LEMMA ListsRest ==
  ASSUME RequestsOK, page' = page, UNCHANGED <<listing, more>>
  PROVE  ListsMove
BY ListRests DEF ListsMove, RequestsOK

\* A request is dropped, answered or failed, over a page whose view stays.
LEMMA EndListMoves ==
  ASSUME RequestsOK, NEW v \in Viewers, page'[v].view = page[v].view,
         \A w \in Viewers : w # v => page'[w] = page[w],
         \/ listing' = [listing EXCEPT ![v] = NoList] /\ more' = more
         \/ more' = [more EXCEPT ![v] = NoList] /\ listing' = listing
  PROVE  ListsMove
<1>1. \/ listing'[v] = NoList /\ more'[v] = more[v]
      \/ more'[v] = NoList /\ listing'[v] = listing[v]
  BY DEF RequestsOK
<1>2. ListMove(v)
  BY <1>1 DEF RequestsOK, ListMove, RequestMove, GoesOn
<1> QED
  BY <1>2, OneListMoves

\* The centre reads rows of the view that was asked for.
LEMMA ReadRowsMoves ==
  ASSUME IInv, NEW v \in Viewers, NEW rows \in SUBSET Candidates,
         NEW r \in ListRequests \cup {NoList}, ReadRows(v, r, rows), page'[v].view = page[v].view
  PROVE  Answered(r, rows) \in ListRequests /\ GoesOn(v, r, Answered(r, rows))
<1> DEFINE read == [c \in Candidates |-> IF c \in rows THEN candidate[c].version ELSE 0]
           new == [r EXCEPT !.step = "read", !.rows = read]
<1>1. r # NoList /\ r \in ListRequests /\ Answered(r, rows) = new
  BY StepsOfRequests DEF ReadRows, Answered
<1>2. \A c \in Candidates : candidate[c].version \in Nat
  BY Versions
<1>3. read \in [Candidates -> Nat]
  BY <1>2
<1>4. \A c \in Candidates : read[c] > 0 => c \in rows /\ read[c] = candidate[c].version
  BY <1>2
<1>5. \A c \in rows : candidate[c].archived = r.view.archived
                      /\ candidate[c].pipelineStatus \in r.view.statuses
  BY DEF ReadRows, listCandidatePage
<1> HIDE DEF read
<1>6. /\ new \in ListRequests /\ new.view = r.view /\ new.current = r.current
      /\ new.rows = read
  BY <1>1, <1>3 DEF ListRequests
<1> HIDE DEF new
<1>7. ListIsOf(new, candidate)
  BY <1>2, <1>4, <1>5, <1>6 DEF ListIsOf, RowIsOf
<1> QED
  BY <1>1, <1>6, <1>7 DEF GoesOn

\* Whatever a step does, it moves the requests for rows that way.
LEMMA ListsStep ==
  ASSUME ConsoleInv, ConsoleNext
  PROVE  ListsMove
<1> USE DEF ConsoleInv
<1>1. CASE page' = page /\ UNCHANGED <<listing, more>>
  BY <1>1, ListsRest
<1>2. ASSUME NEW v \in Viewers, Click(v)
      PROVE  ListsMove
  <2> DEFINE p == page[v]
  <2>1. PageRowOK(p) /\ p \in Pages /\ p.view \in Views
    BY DEF PagesOK, Pages
  <2>2. ASSUME NEW view \in Views, ShowSection(v, view)
        PROVE  ListsMove
    <3> DEFINE row == [Unselected(p) EXCEPT !.view = view]
    <3>1. page' = [page EXCEPT ![v] = row] /\ ReloadList(v, view)
      BY <2>2 DEF ShowSection, PagesOK
    <3>2. row.view = view
      BY <2>1, UnselectedOK DEF PageRowOK, Pages
    <3> HIDE DEF row
    <3> QED
      BY <3>1, <3>2, ReloadMoves
  <2>3. ASSUME NEW view \in Views, SwitchArchivedView(v, view)
        PROVE  ListsMove
    <3> DEFINE row == [Unselected(p) EXCEPT !.view = view, !.selected = NoRows]
    <3>1. page' = [page EXCEPT ![v] = row] /\ ReloadList(v, view)
      BY <2>3 DEF SwitchArchivedView, PagesOK
    <3>2. row.view = view
      BY <2>1, UnselectedOK DEF PageRowOK, Pages
    <3> HIDE DEF row
    <3> QED
      BY <3>1, <3>2, ReloadMoves
  <2>4. CASE LoadMore(v)
    <3>1. /\ more' = [more EXCEPT ![v] = Asked(p.view)] /\ listing' = listing /\ page' = page
          /\ Asked(p.view) \in ListRequests
      BY <2>1, <2>4, RequestRows DEF LoadMore
    <3>2. more'[v] = Asked(page'[v].view) /\ listing'[v] = listing[v]
      BY <3>1 DEF RequestsOK
    <3>3. ListMove(v)
      BY <2>1, <3>1, <3>2 DEF RequestsOK, ListMove, RequestMove, GoesOn
    <3> QED
      BY <3>1, <3>3, OneListMoves
  <2>5. ASSUME NEW c \in Candidates, OpenCandidate(v, c)
        PROVE  ListsMove
    <3>1. page' = [page EXCEPT ![v] = Opened(p, c)] /\ UNCHANGED <<listing, more>>
      BY <2>5 DEF OpenCandidate, PagesOK
    <3> QED
      BY <2>1, <3>1, OpenedOK, ViewRests
  <2>6. ASSUME NEW c \in Candidates, Toggle(v, c)
        PROVE  ListsMove
    <3> DEFINE row == [p EXCEPT !.selected[c] = IF @ > 0 THEN 0 ELSE p.rows[c]]
    <3>1. page' = [page EXCEPT ![v] = row] /\ UNCHANGED <<listing, more>>
      BY <2>6 DEF Toggle, PagesOK
    <3>2. row.view = p.view
      BY <2>1 DEF Pages
    <3> HIDE DEF row
    <3> QED
      BY <3>1, <3>2, ViewRests
  <2>7. ASSUME NEW owner \in Owners, ChooseOwner(v, owner)
        PROVE  ListsMove
    <3> DEFINE row == [p EXCEPT !.owner = owner, !.touched = TRUE]
    <3>1. page' = [page EXCEPT ![v] = row] /\ UNCHANGED <<listing, more>>
      BY <2>7 DEF ChooseOwner, PagesOK
    <3>2. row.view = p.view
      BY <2>1 DEF Pages
    <3> HIDE DEF row
    <3> QED
      BY <3>1, <3>2, ViewRests
  <2> QED
    BY <1>1, <1>2, <2>2, <2>3, <2>4, <2>5, <2>6, <2>7 DEF Click, SubmitForm, RunBatch
<1>3. ASSUME NEW v \in Viewers, Respond(v)
      PROVE  ListsMove
  <2> DEFINE p == page[v]
  <2>1. PageRowOK(p) /\ p \in Pages /\ p.view \in Views
    BY DEF PagesOK, Pages
  <2>2. ASSUME NEW rows \in SUBSET Candidates, ReadList(v, rows)
        PROVE  ListsMove
    <3> DEFINE new == Answered(listing[v], rows)
    <3>1. /\ listing' = [listing EXCEPT ![v] = new] /\ more' = more /\ page' = page
          /\ ReadRows(v, listing[v], rows)
      BY <2>2 DEF ReadList, RequestsOK
    <3>2. new \in ListRequests /\ GoesOn(v, listing[v], new)
      BY <3>1, ReadRowsMoves DEF RequestsOK
    <3> HIDE DEF new
    <3>3. listing'[v] = new /\ more'[v] = more[v]
      BY <3>1 DEF RequestsOK
    <3>4. ListMove(v)
      BY <3>1, <3>2, <3>3 DEF RequestsOK, ListMove, RequestMove, GoesOn
    <3> QED
      BY <3>1, <3>2, <3>4, OneListMoves
  <2>3. ASSUME NEW rows \in SUBSET Candidates, ReadMore(v, rows)
        PROVE  ListsMove
    <3> DEFINE new == Answered(more[v], rows)
    <3>1. /\ more' = [more EXCEPT ![v] = new] /\ listing' = listing /\ page' = page
          /\ ReadRows(v, more[v], rows)
      BY <2>3 DEF ReadMore, RequestsOK
    <3>2. new \in ListRequests /\ GoesOn(v, more[v], new)
      BY <3>1, ReadRowsMoves DEF RequestsOK
    <3> HIDE DEF new
    <3>3. more'[v] = new /\ listing'[v] = listing[v]
      BY <3>1 DEF RequestsOK
    <3>4. ListMove(v)
      BY <3>1, <3>2, <3>3 DEF RequestsOK, ListMove, RequestMove, GoesOn
    <3> QED
      BY <3>1, <3>2, <3>4, OneListMoves
  <2>4. CASE ListArrives(v)
    <3> DEFINE ticks == [c \in Candidates |-> IF listing[v].rows[c] > 0 THEN p.selected[c] ELSE 0]
               row == [p EXCEPT !.rows = listing[v].rows, !.selected = ticks]
    <3>1. page' = [page EXCEPT ![v] = row] /\ row.view = p.view
      BY <2>1, <2>4 DEF ListArrives, PagesOK, Pages
    <3> HIDE DEF row
    <3>2. page'[v].view = p.view /\ \A w \in Viewers : w # v => page'[w] = page[w]
      BY <3>1 DEF PagesOK
    <3> QED
      BY <2>4, <3>2, EndListMoves DEF ListArrives
  <2>5. CASE MoreArrives(v)
    <3> DEFINE row == [p EXCEPT !.rows = Merged(p.rows, more[v].rows)]
    <3>1. page' = page \/ (page' = [page EXCEPT ![v] = row] /\ row.view = p.view)
      BY <2>1, <2>5 DEF MoreArrives, PagesOK, Pages
    <3> HIDE DEF row
    <3>2. page'[v].view = p.view /\ \A w \in Viewers : w # v => page'[w] = page[w]
      BY <3>1 DEF PagesOK
    <3> QED
      BY <2>5, <3>2, EndListMoves DEF MoreArrives
  <2>6. CASE ListFails(v) \/ MoreFails(v)
    BY <2>6, EndListMoves DEF ListFails, MoreFails
  <2>7. CASE DetailArrives(v)
    <3>1. fetch[v].step = "answer" /\ page' = [page EXCEPT ![v] = Mount(p, fetch[v].detail)]
          /\ UNCHANGED <<listing, more>>
      BY <2>7 DEF DetailArrives, PagesOK
    <3>2. fetch[v].detail \in Details
      BY <3>1, RowsAreRows DEF FetchesOK, FetchRow
    <3> QED
      BY <2>1, <3>1, <3>2, MountOK, ViewRests
  <2>8. CASE DetailFails(v)
    <3> DEFINE row == [p EXCEPT !.detail = NoDetail, !.mounted = NoCandidate]
    <3>1. page' = [page EXCEPT ![v] = row] /\ UNCHANGED <<listing, more>>
      BY <2>8 DEF DetailFails, PagesOK
    <3>2. row.view = p.view
      BY <2>1 DEF Pages
    <3> HIDE DEF row
    <3> QED
      BY <3>1, <3>2, ViewRests
  <2>9. CASE SaveAnswered(v)
    <3> DEFINE c == Target(save[v])
    <3>1. /\ save[v].state = "accepted" /\ page' = [page EXCEPT ![v] = Opened(p, c)]
          /\ ReloadList(v, p.view)
      BY <2>9 DEF SaveAnswered, PagesOK
    <3>2. c \in Candidates
      BY <3>1, RowsAreRows DEF SavesOK, SaveRowOK, SaveRow, Details, Target
    <3> HIDE DEF c
    <3> QED
      BY <2>1, <3>1, <3>2, OpenedOK, ReloadMoves
  <2> QED
    BY <1>1, <1>3, <2>2, <2>3, <2>4, <2>5, <2>6, <2>7, <2>8, <2>9
       DEF Respond, ReadEvidence, ReadVersion, ReadWorkflow, AcceptSave, RefuseSave,
           SaveWithoutAnswer
<1>4. ASSUME NEW b \in BatchIds, BatchAnswered(b)
      PROVE  ListsMove
  <2> DEFINE v == batch[b].by
             row == [Unselected(page[v]) EXCEPT !.selected = NoRows]
  <2>1. batch[b].state = "running" /\ page' = [page EXCEPT ![v] = row]
        /\ ReloadList(v, page[v].view)
    BY <1>4 DEF BatchAnswered, PagesOK
  <2>2. v \in Viewers
    BY <2>1, RowsAreRows DEF BatchesOK, BatchRowOK, BatchRow
  <2> HIDE DEF v
  <2>3. PageRowOK(page[v]) /\ page[v].view \in Views
    BY <2>2 DEF PagesOK, Pages
  <2>4. row.view = page[v].view
    BY <2>3, UnselectedOK DEF PageRowOK, Pages
  <2> HIDE DEF row
  <2> QED
    BY <2>1, <2>2, <2>3, <2>4, ReloadMoves
<1>5. ASSUME NEW b \in BatchIds, ServeBatch(b)
      PROVE  ListsMove
  BY <1>1, <1>4, <1>5
     DEF ServeBatch, BatchItemSucceeds, BatchItemFails, BatchBreaks, BatchGivenUp
<1> QED
  BY <1>1, <1>2, <1>3, <1>5 DEF ConsoleNext, Colleague, consoleVars, AcceptLate

\* What was read for a list remains a copy of its rows, and what the page waits for
\* remains a request of the view that is on.
LEMMA ListsCopied ==
  ASSUME ConsoleInv, CentreStep, ListsMove
  PROVE  RequestsOK' /\ ListsAreCopies' /\ ListsAreOfTheView'
<1> USE DEF ConsoleInv
<1>1. RequestsOK'
  BY DEF ListsMove, RequestsOK
<1>2. ASSUME NEW r \in ListRequests, ListIsOf(r, candidate)
      PROVE  ListIsOf(r, candidate')
  <2> SUFFICES ASSUME NEW c \in Candidates, r.rows[c] > 0
               PROVE  RowIsOf(c, r.rows[c], r.view, candidate')
    BY DEF ListIsOf
  <2>1. RowIsOf(c, r.rows[c], r.view, candidate) /\ r.rows[c] \in Nat
    BY <1>2 DEF ListIsOf, ListRequests
  <2>2. /\ candidate[c].version \in Nat /\ candidate'[c].version \in Nat
        /\ candidate[c].version <= candidate'[c].version
        /\ candidate'[c].version = candidate[c].version => candidate'[c] = candidate[c]
    BY Versions DEF CentreStep, Ages, IInv, WorkflowTypeOK, CandidateRow
  <2> QED
    BY <2>1, <2>2 DEF RowIsOf
<1>3. ASSUME NEW v \in Viewers
      PROVE  /\ listing'[v] # NoList =>
                  listing'[v].view = page'[v].view /\ ListIsOf(listing'[v], candidate')
             /\ more'[v] # NoList =>
                  /\ more'[v].current => more'[v].view = page'[v].view
                  /\ ListIsOf(more'[v], candidate')
  <2>1. ASSUME NEW old \in ListRequests \cup {NoList}, NEW new \in ListRequests \cup {NoList},
               RequestMove(v, old, new), new # NoList,
               old # NoList => ListIsOf(old, candidate)
        PROVE  /\ ListIsOf(new, candidate')
               /\ \/ new.view = page'[v].view
                  \/ /\ old # NoList /\ new.view = old.view /\ new.current = old.current
                     /\ page'[v].view = page[v].view
    <3>1. CASE page'[v].view \in Views /\ new = Asked(page'[v].view)
      BY <3>1, RequestRows DEF ListIsOf
    <3>2. CASE GoesOn(v, old, new)
      <4>1. ListIsOf(new, candidate)
        BY <2>1, <3>2 DEF GoesOn, ListIsOf
      <4> QED
        BY <1>2, <3>2, <4>1 DEF GoesOn
    <3> QED
      BY <2>1, <3>1, <3>2 DEF RequestMove
  <2>2. /\ listing[v] \in ListRequests \cup {NoList} /\ more[v] \in ListRequests \cup {NoList}
        /\ listing'[v] \in ListRequests \cup {NoList} /\ more'[v] \in ListRequests \cup {NoList}
        /\ listing[v] # NoList => ListIsOf(listing[v], candidate)
        /\ more[v] # NoList => ListIsOf(more[v], candidate)
        /\ listing[v] # NoList => listing[v].view = page[v].view
        /\ more[v] # NoList /\ more[v].current => more[v].view = page[v].view
        /\ ListMove(v)
    BY DEF RequestsOK, ListsMove, ListsAreCopies, ListsAreOfTheView
  <2>3. listing'[v] # NoList =>
          listing'[v].view = page'[v].view /\ ListIsOf(listing'[v], candidate')
    BY <2>1, <2>2 DEF ListMove
  <2>4. CASE RequestMove(v, more[v], more'[v])
    BY <2>1, <2>2, <2>3, <2>4
  <2>5. CASE more[v] # NoList /\ more'[v] = Disowned(more[v])
    <3> DEFINE r == Disowned(more[v])
    <3>1. /\ r \in ListRequests /\ r.view = more[v].view /\ r.rows = more[v].rows /\ ~r.current
      BY <2>2, <2>5, RequestRows
    <3> HIDE DEF r
    <3>2. ListIsOf(r, candidate)
      BY <2>2, <2>5, <3>1 DEF ListIsOf
    <3>3. ListIsOf(r, candidate')
      BY <1>2, <3>1, <3>2
    <3> QED
      BY <2>3, <2>5, <3>1, <3>3 DEF r
  <2> QED
    BY <2>2, <2>4, <2>5 DEF ListMove
<1> QED
  BY <1>1, <1>3 DEF ListsAreCopies, ListsAreOfTheView

-----------------------------------------------------------------------------
(* What a step does to the batches.                                        *)
\* One batch is changed, and remains a partition of what was ticked.
BatchesMove ==
  \/ batch' = batch
  \/ \E b \in BatchIds, row \in BatchRow :
       batch' = [batch EXCEPT ![b] = row] /\ BatchRowOK(row)

\* A batch keeps its form when one of its rows is written well.
LEMMA BatchesKept ==
  ASSUME BatchesOK, BatchesMove
  PROVE  BatchesOK'
<1>1. CASE batch' = batch
  BY <1>1 DEF BatchesOK
<1>2. CASE batch' # batch
  <2>1. PICK b \in BatchIds, row \in BatchRow :
          batch' = [batch EXCEPT ![b] = row] /\ BatchRowOK(row)
    BY <1>2 DEF BatchesMove
  <2>2. batch'[b] = row /\ \A o \in BatchIds : o # b => batch'[o] = batch[o]
    BY <2>1 DEF BatchesOK
  <2> QED
    BY <2>1, <2>2 DEF BatchesOK
<1> QED
  BY <1>1, <1>2

\* A batch that is submitted.
LEMMA RunMoves ==
  ASSUME PagesOK, BatchesOK, NEW v \in Viewers, NEW b \in BatchIds,
         NEW kind \in {"review", "archive"}, RunBatch(v, b, kind)
  PROVE  BatchesMove
<1> DEFINE ticks == page[v].selected
           open == {c \in Candidates : ticks[c] > 0}
           row == [state |-> "running", by |-> v, kind |-> kind, waiting |-> TRUE,
                   expected |-> ticks, todo |-> open, ok |-> {}, failed |-> {}]
<1>1. batch' = [batch EXCEPT ![b] = row]
  BY DEF RunBatch
<1>2. ticks \in [Candidates -> Nat] /\ open \in SUBSET Candidates
  BY DEF PagesOK, Pages
<1>3. row \in BatchRow
  BY <1>2 DEF BatchRow
<1>4. BatchRowOK(row)
  BY <1>3 DEF BatchRowOK
<1> QED
  BY <1>1, <1>3, <1>4 DEF BatchesMove

\* An item that is done or fails.
LEMMA ItemMoves ==
  ASSUME BatchesOK, NEW b \in BatchIds, NEW c \in Candidates,
         BatchItemSucceeds(b, c) \/ BatchItemFails(b, c)
  PROVE  BatchesMove
<1> DEFINE old == batch[b]
           rowOk == [old EXCEPT !.todo = @ \ {c}, !.ok = @ \cup {c}]
           rowFailed == [old EXCEPT !.todo = @ \ {c}, !.failed = @ \cup {c}]
<1>1. BatchRowOK(old) /\ old \in BatchRow /\ c \in old.todo
  BY RowsAreRows DEF BatchesOK, BatchRowOK, BatchItemSucceeds, BatchItemFails
<1>2. \/ batch' = [batch EXCEPT ![b] = rowOk]
      \/ batch' = [batch EXCEPT ![b] = rowFailed]
  BY DEF BatchItemSucceeds, BatchItemFails, BatchesOK
<1>3. rowOk \in BatchRow /\ BatchRowOK(rowOk)
  BY <1>1 DEF BatchRow, BatchRowOK
<1>4. rowFailed \in BatchRow /\ BatchRowOK(rowFailed)
  BY <1>1 DEF BatchRow, BatchRowOK
<1> HIDE DEF rowOk, rowFailed
<1> QED
  BY <1>2, <1>3, <1>4 DEF BatchesMove

\* A batch that ends, or that nobody waits for any longer.
LEMMA EndBatchMoves ==
  ASSUME BatchesOK, NEW b \in BatchIds, BatchBreaks(b) \/ BatchAnswered(b) \/ BatchGivenUp(b)
  PROVE  BatchesMove
<1> DEFINE old == batch[b]
           broken == [old EXCEPT !.state = "broken"]
           reported == [old EXCEPT !.state = "reported", !.waiting = FALSE]
           left == [old EXCEPT !.waiting = FALSE]
<1>1. BatchRowOK(old) /\ old \in BatchRow
  BY RowsAreRows DEF BatchesOK, BatchRowOK, BatchBreaks, BatchAnswered, BatchGivenUp
<1>2. \/ batch' = [batch EXCEPT ![b] = broken]
      \/ batch' = [batch EXCEPT ![b] = reported]
      \/ batch' = [batch EXCEPT ![b] = left]
  BY DEF BatchBreaks, BatchAnswered, BatchGivenUp, BatchesOK
<1>3. broken \in BatchRow /\ BatchRowOK(broken)
  BY <1>1 DEF BatchRow, BatchRowOK
<1>4. reported \in BatchRow /\ BatchRowOK(reported)
  BY <1>1 DEF BatchRow, BatchRowOK
<1>5. left \in BatchRow /\ BatchRowOK(left)
  BY <1>1 DEF BatchRow, BatchRowOK
<1> HIDE DEF broken, reported, left
<1> QED
  BY <1>2, <1>3, <1>4, <1>5 DEF BatchesMove

\* Whatever a step does, it moves the batches that way.
LEMMA BatchesStep ==
  ASSUME ConsoleInv, ConsoleNext
  PROVE  BatchesMove
<1> USE DEF ConsoleInv
<1>1. CASE batch' = batch
  BY <1>1 DEF BatchesMove
<1>2. ASSUME NEW v \in Viewers, Click(v)
      PROVE  BatchesMove
  BY <1>1, <1>2, RunMoves
     DEF Click, ShowSection, SwitchArchivedView, LoadMore, OpenCandidate, Toggle, ChooseOwner,
         SubmitForm
<1>3. ASSUME NEW v \in Viewers, Respond(v)
      PROVE  BatchesMove
  BY <1>1, <1>3
     DEF Respond, ReadList, ReadMore, ListArrives, MoreArrives, ListFails, MoreFails, ReadEvidence, ReadVersion,
         ReadWorkflow, DetailArrives, DetailFails, AcceptSave, RefuseSave, SaveAnswered,
         SaveWithoutAnswer
<1>4. ASSUME NEW b \in BatchIds, ServeBatch(b)
      PROVE  BatchesMove
  BY <1>4, ItemMoves, EndBatchMoves DEF ServeBatch
<1> QED
  BY <1>1, <1>2, <1>3, <1>4 DEF ConsoleNext, Colleague, consoleVars, AcceptLate

-----------------------------------------------------------------------------
(* The invariant holds.                                                    *)

\* It holds of the empty page and the empty tables.
LEMMA ConsoleStarts == ConsoleInit => ConsoleInv
<1> SUFFICES ASSUME ConsoleInit
             PROVE  ConsoleInv
  OBVIOUS
<1> USE DEF ConsoleInit
<1>1. IInv
  BY InitHolds
<1>2. PagesOK
  <2> DEFINE p == [view |-> FirstView, rows |-> NoRows, opened |-> NoCandidate,
                   detail |-> NoDetail, mounted |-> NoCandidate, owner |-> NoMember,
                   touched |-> FALSE, selected |-> NoRows]
  <2>1. PageRowOK(p)
    BY ConsoleAssumption DEF PageRowOK, Pages, NoRows
  <2>2. page = [v \in Viewers |-> p]
    OBVIOUS
  <2> HIDE DEF p
  <2> QED
    BY <2>1, <2>2 DEF PagesOK, PageRowOK
<1>3. RequestsOK /\ FetchesOK /\ SavesOK /\ LateOK /\ BatchesOK
  BY RequestRows, ConsoleAssumption DEF RequestsOK, FetchesOK, SavesOK, LateOK, BatchesOK
<1>4. PagesAreCopies /\ FetchesAreCopies /\ SavesAreCopies /\ LateAreCopies
  BY DEF PagesAreCopies, FetchesAreCopies, SavesAreCopies, LateAreCopies
<1>5. ListsAreCopies /\ ListsAreOfTheView
  BY RequestRows, ConsoleAssumption DEF ListsAreCopies, ListsAreOfTheView, ListIsOf
<1> QED
  BY <1>1, <1>2, <1>3, <1>4, <1>5 DEF ConsoleInv

\* Every step keeps it.
LEMMA ConsoleKeeps == ConsoleInv /\ [ConsoleNext]_vars => ConsoleInv'
<1> SUFFICES ASSUME ConsoleInv, [ConsoleNext]_vars
             PROVE  ConsoleInv'
  OBVIOUS
<1>1. CASE ConsoleNext
  <2>1. CentreStep
    BY <1>1, EveryStep DEF ConsoleInv
  <2>2. PagesOK' /\ PagesAreCopies'
    BY <1>1, <2>1, PagesStep, PagesCopied
  <2>3. FetchesOK' /\ FetchesAreCopies'
    BY <1>1, <2>1, FetchesStep, FetchesCopied
  <2>4. SavesOK' /\ SavesAreCopies'
    BY <1>1, <2>1, SavesStep, SavesCopied
  <2>5. RequestsOK' /\ ListsAreCopies' /\ ListsAreOfTheView'
    BY <1>1, <2>1, ListsStep, ListsCopied
  <2>6. LateOK' /\ LateAreCopies'
    BY <1>1, <2>1, LateStep, LateCopied
  <2>7. BatchesOK'
    BY <1>1, BatchesStep, BatchesKept DEF ConsoleInv
  <2> QED
    BY <2>1, <2>2, <2>3, <2>4, <2>5, <2>6, <2>7 DEF ConsoleInv, CentreStep
<1>2. CASE UNCHANGED vars
  <2>1. IInv'
    BY <1>2, StutterKeeps DEF ConsoleInv, vars
  <2> QED
    BY <1>2, <2>1
       DEF vars, consoleVars, workflowVars, ConsoleInv, PagesOK, RequestsOK, FetchesOK, SavesOK,
           LateOK, BatchesOK, PagesAreCopies, FetchesAreCopies, SavesAreCopies, LateAreCopies,
           ListsAreCopies, ListsAreOfTheView
<1> QED
  BY <1>1, <1>2

\* Every copy on a page, in a form or in a request that still has its row's version is
\* as good as the row, whatever the centre and its colleagues wrote meanwhile
\* (CandidatesPage.tsx, the state of CandidateDetailView).
THEOREM ConsoleInvariance == ConsoleSpec => []ConsoleInv
<1> QED
  BY ConsoleStarts, ConsoleKeeps, PTL DEF ConsoleSpec

\* The page, its requests, its forms and its batches are well formed, and every item of
\* a batch is open, done or failed and only one of them (candidate-batch.ts).
THEOREM ConsoleTypeCorrect == ConsoleSpec => []ConsoleTypeOK
<1>1. ConsoleInv => ConsoleTypeOK
  <2> SUFFICES ASSUME ConsoleInv
               PROVE  ConsoleTypeOK
    OBVIOUS
  <2> USE DEF ConsoleInv
  <2>1. /\ page \in [Viewers -> Pages]
        /\ \A v \in Viewers : page[v].mounted \in {NoCandidate, page[v].detail.candidate}
    BY DEF PagesOK, PageRowOK
  <2>2. /\ \A v \in Viewers : fetch[v] # NoFetch => fetch[v].detail \in Details
        /\ \A v \in Viewers : save[v] # NoSave =>
             save[v].kind \in SaveKinds /\ save[v].seen \in Details
    BY DEF FetchesOK, FetchRow, SavesOK, SaveRow
  <2>3. \A b \in BatchIds : batch[b] # NoBatch => BatchRowOK(batch[b])
    BY DEF BatchesOK
  <2>4. \A request \in late : request.by \in Viewers /\ request.form.seen \in Details
    BY DEF LateOK, LateRow, SaveRow
  <2> QED
    BY <2>1, <2>2, <2>3, <2>4 DEF ConsoleTypeOK, RequestsOK, BatchRowOK
<1> QED
  BY <1>1, ConsoleInvariance, PTL

-----------------------------------------------------------------------------
(* What a member decides on.                                               *)

\* A form that is served was filled in over what its rows still are.
LEMMA ServedIsInformed ==
  ASSUME IInv, NEW v \in Viewers, NEW s \in SaveRow, SaveRowOK(s), Served(v, s),
         IsCopy(s.seen, candidate, reviews, outreach)
  PROVE  Informed(s)
<1> DEFINE d == s.seen
           c == d.candidate
<1>1. /\ s.expected = VersionSent(d, s.kind) /\ s.kind \in SaveKinds /\ c = Target(s)
      /\ s.kind = "outreach" => outreach[c].version = s.expected
      /\ s.kind # "outreach" => candidate[c].version = s.expected
  BY ServedStep DEF SaveRowOK, SaveRow, Target
<1> HIDE DEF c
<1>2. CASE s.kind \in {"review", "pipeline"}
  <2>1. d.workflow.version = candidate[c].version
    BY <1>1, <1>2 DEF VersionSent
  <2>2. d.workflow.status = candidate[c].pipelineStatus /\ d.workflow.reviews = Len(reviews[c])
    BY <2>1 DEF IsCopy, StatusIsCopy, RecordsAreCopies, c
  <2> QED
    BY <1>1, <1>2, <2>2 DEF Informed
<1>3. CASE s.kind = "outreach"
  <2>1. d.workflow.outreach.version = outreach[c].version
    BY <1>1, <1>3 DEF VersionSent
  <2>2. d.workflow.outreach = outreach[c]
    BY <2>1 DEF IsCopy, RecordsAreCopies, c
  <2> QED
    BY <1>1, <1>3, <2>2 DEF Informed
<1>4. CASE s.kind = "archive"
  <2>1. d.version = candidate[c].version
    BY <1>1, <1>4 DEF VersionSent
  <2>2. d.archived = candidate[c].archived /\ d.evidence = candidate[c].latest
    BY <2>1 DEF IsCopy, EvidenceIsCopy, c
  <2> QED
    BY <1>1, <1>4, <2>2 DEF Informed
<1> QED
  BY <1>1, <1>2, <1>3, <1>4 DEF SaveKinds

\* A form is accepted by the centre and by nothing else.
LEMMA AcceptedByTheCentre ==
  ASSUME ConsoleInv, ConsoleNext, NEW v \in Viewers, Accepted(v)
  PROVE  AcceptSave(v)
<1>1. SavesMove
  BY SavesStep
<1>2. save' # save /\ save'[v].state = "accepted" /\ save'[v] # save[v]
  BY DEF Accepted
<1>3. PICK w \in Viewers, s \in SaveRow \cup {NoSave} :
        save' = [save EXCEPT ![w] = s] /\ SaveMove(w, s)
  BY <1>1, <1>2 DEF SavesMove
<1>4. w = v /\ s = save'[v]
  BY <1>2, <1>3 DEF ConsoleInv, SavesOK
<1> QED
  BY <1>2, <1>3, <1>4, RowsAreRows DEF SaveMove

\* A request that was given up is taken away when it is served, and only then.
LEMMA TakenByTheCentre ==
  ASSUME ConsoleNext, NEW request \in late \ late'
  PROVE  AcceptLate(request)
<1>1. ASSUME NEW r \in late, AcceptLate(r)
      PROVE  request = r
  BY <1>1 DEF AcceptLate
<1>2. ASSUME NEW v \in Viewers, Click(v)
      PROVE  late' = late
  BY <1>2
     DEF Click, ShowSection, SwitchArchivedView, LoadMore, OpenCandidate, Toggle, ChooseOwner,
         SubmitForm, RunBatch
<1>3. ASSUME NEW v \in Viewers, Respond(v)
      PROVE  late \subseteq late'
  BY <1>3
     DEF Respond, ReadList, ReadMore, ListArrives, MoreArrives, ListFails, MoreFails,
         ReadEvidence, ReadVersion, ReadWorkflow, DetailArrives, DetailFails, AcceptSave,
         RefuseSave, SaveAnswered, SaveWithoutAnswer
<1>4. ASSUME NEW b \in BatchIds, ServeBatch(b)
      PROVE  late' = late
  BY <1>4
     DEF ServeBatch, BatchItemSucceeds, BatchItemFails, BatchBreaks, BatchAnswered, BatchGivenUp
<1> QED
  BY <1>1, <1>2, <1>3, <1>4 DEF ConsoleNext, Colleague, consoleVars

\* A decision, a stage, contact data or an archive mark is accepted only from a member
\* whose page showed the rows it is written to as they are (candidate-workflow.ts:171,
\* 545), whatever was lost, sent again or served after it was given up.
THEOREM DecisionsAreInformed == ConsoleSpec => InformedDecisions
<1>1. ASSUME ConsoleInv, ConsoleNext, NEW v \in Viewers, Accepted(v)
      PROVE  Informed(save[v])
  <2>1. AcceptSave(v)
    BY <1>1, AcceptedByTheCentre
  <2>2. save[v] # NoSave /\ save[v] \in SaveRow /\ SaveRowOK(save[v]) /\ Served(v, save[v])
    BY <1>1, <2>1, AcceptServes DEF ConsoleInv
  <2> QED
    BY <1>1, <2>2, ServedIsInformed DEF ConsoleInv, SavesAreCopies
<1>2. ASSUME ConsoleInv, ConsoleNext, NEW request \in late \ late'
      PROVE  Informed(request.form)
  <2>1. AcceptLate(request)
    BY <1>2, TakenByTheCentre
  <2> QED
    BY <1>2, <2>1, LateServes, ServedIsInformed DEF ConsoleInv, LateAreCopies
<1>3. UNCHANGED vars => late \ late' = {} /\ \A v \in Viewers : ~Accepted(v)
  BY DEF Accepted, vars, consoleVars
<1>4. ConsoleInv /\ [ConsoleNext]_vars =>
        [/\ \A v \in Viewers : Accepted(v) => Informed(save[v])
         /\ \A request \in late \ late' : Informed(request.form)]_vars
  BY <1>1, <1>2, <1>3
<1> QED
  BY <1>4, ConsoleInvariance, PTL DEF ConsoleSpec, InformedDecisions

\* A row that an answer brings to a list, and that nobody wrote since it was read, is a
\* row of the view that is on (CandidatesPage.tsx:161): the answer of another view is
\* dropped.
THEOREM RowsAreOfTheView == ConsoleSpec => AddedRowsAreOfTheView
<1>1. ConsoleInv /\ [ConsoleNext]_vars =>
        [\A v \in Viewers, c \in Candidates :
           LET added == page'[v].rows[c] IN
           added # page[v].rows[c] /\ added > 0 /\ added = candidate[c].version =>
             /\ candidate[c].archived = page'[v].view.archived
             /\ candidate[c].pipelineStatus \in page'[v].view.statuses]_vars
  <2> SUFFICES ASSUME ConsoleInv, ConsoleNext, NEW v \in Viewers, NEW c \in Candidates,
                      page'[v].rows[c] # page[v].rows[c], page'[v].rows[c] > 0,
                      page'[v].rows[c] = candidate[c].version
               PROVE  /\ candidate[c].archived = page'[v].view.archived
                      /\ candidate[c].pipelineStatus \in page'[v].view.statuses
    OBVIOUS
  <2>1. PageMove(v, page'[v])
    BY PagesStep DEF PagesMove
  <2> QED
    BY <2>1 DEF PageMove, RowIsOf
<1> QED
  BY <1>1, ConsoleInvariance, PTL DEF ConsoleSpec, AddedRowsAreOfTheView

-----------------------------------------------------------------------------
(* Decisions and what is reported of them.                                 *)

\* A decision replaced a version that is gone.
DecisionsReplaced ==
  \A c \in Candidates : \A i \in DOMAIN reviews[c] : reviews[c][i].base < candidate[c].version

\* The decisions of a candidate stay, and a new one comes last, under the version it
\* replaces.
LEMMA DecisionsGrow ==
  ASSUME ConsoleInv, CentreStep, NEW c \in Candidates
  PROVE  /\ DOMAIN reviews[c] \subseteq DOMAIN reviews'[c]
         /\ \A i \in DOMAIN reviews[c] : reviews'[c][i] = reviews[c][i]
         /\ \A i \in DOMAIN reviews'[c] \ DOMAIN reviews[c] :
              /\ i = Len(reviews[c]) + 1 /\ reviews'[c][i].base = candidate[c].version
              /\ candidate'[c].version = candidate[c].version + 1
<1>1. reviews[c] \in Seq(ReviewRow)
  BY Versions DEF ConsoleInv
<1>2. CASE reviews'[c] = reviews[c]
  BY <1>2
<1>3. ASSUME NEW decision \in ManualDecisions,
             reviews'[c] = Append(reviews[c], [decision |-> decision,
                                               base |-> candidate[c].version]),
             candidate'[c].version = candidate[c].version + 1
      PROVE  /\ DOMAIN reviews[c] \subseteq DOMAIN reviews'[c]
             /\ \A i \in DOMAIN reviews[c] : reviews'[c][i] = reviews[c][i]
             /\ \A i \in DOMAIN reviews'[c] \ DOMAIN reviews[c] :
                  /\ i = Len(reviews[c]) + 1 /\ reviews'[c][i].base = candidate[c].version
                  /\ candidate'[c].version = candidate[c].version + 1
  <2> DEFINE row == [decision |-> decision, base |-> candidate[c].version]
  <2>1. row.base = candidate[c].version /\ reviews'[c] = Append(reviews[c], row)
    BY <1>3
  <2> HIDE DEF row
  <2> QED
    BY <1>1, <1>3, <2>1
<1> QED
  BY <1>2, <1>3 DEF CentreStep, Decided

\* No version carries two decisions (candidate-batch.ts:117), however often a form or a
\* batch is sent again.
THEOREM DecisionsAreDistinct == ConsoleSpec => []DecisionsUseDistinctVersions
<1>1. ConsoleInit => DecisionsUseDistinctVersions /\ DecisionsReplaced
  BY DEF ConsoleInit, WorkflowInit, DecisionsUseDistinctVersions, DecisionsReplaced
<1>2. ConsoleInv /\ DecisionsUseDistinctVersions /\ DecisionsReplaced /\ [ConsoleNext]_vars
        => (DecisionsUseDistinctVersions /\ DecisionsReplaced)'
  <2> SUFFICES ASSUME ConsoleInv, DecisionsUseDistinctVersions, DecisionsReplaced,
                      [ConsoleNext]_vars
               PROVE  (DecisionsUseDistinctVersions /\ DecisionsReplaced)'
    OBVIOUS
  <2>1. CentreStep
    BY EveryStep, CentreRests DEF ConsoleInv, vars
  <2>2. ASSUME NEW c \in Candidates
        PROVE  /\ \A i \in DOMAIN reviews'[c] : reviews'[c][i].base < candidate'[c].version
               /\ \A i, j \in DOMAIN reviews'[c] :
                    i < j => reviews'[c][i].base < reviews'[c][j].base
    <3>1. /\ DOMAIN reviews[c] \subseteq DOMAIN reviews'[c]
          /\ \A i \in DOMAIN reviews[c] : reviews'[c][i] = reviews[c][i]
          /\ \A i \in DOMAIN reviews'[c] \ DOMAIN reviews[c] :
               /\ i = Len(reviews[c]) + 1 /\ reviews'[c][i].base = candidate[c].version
               /\ candidate'[c].version = candidate[c].version + 1
      BY <2>1, DecisionsGrow
    <3>2. /\ \A i \in DOMAIN reviews[c] : reviews[c][i].base < candidate[c].version
          /\ \A i, j \in DOMAIN reviews[c] : i < j => reviews[c][i].base < reviews[c][j].base
      BY DEF DecisionsUseDistinctVersions, DecisionsReplaced
    <3>3. /\ candidate[c].version \in Nat /\ candidate[c].version <= candidate'[c].version
          /\ candidate'[c].version \in Nat
      BY <2>1, Versions DEF ConsoleInv, CentreStep, Ages, IInv, WorkflowTypeOK, CandidateRow
    <3>4. /\ DOMAIN reviews[c] = 1 .. Len(reviews[c]) /\ Len(reviews[c]) \in Nat
          /\ \A i \in DOMAIN reviews[c] : reviews[c][i].base \in Nat
      <4>1. reviews[c] \in Seq(ReviewRow)
        BY Versions DEF ConsoleInv
      <4>2. \A row \in ReviewRow : row.base \in Nat
        BY DEF ReviewRow
      <4> QED
        BY <4>1, <4>2
    <3> QED
      BY <3>1, <3>2, <3>3, <3>4
  <2> QED
    BY <2>2 DEF DecisionsUseDistinctVersions, DecisionsReplaced
<1> QED
  BY <1>1, <1>2, ConsoleInvariance, PTL DEF ConsoleSpec

\* What a batch has done grows by the item that was just decided on.
OkGrows ==
  \A b \in BatchIds : batch'[b] # NoBatch =>
    \/ batch'[b].ok = {}
    \/ /\ batch[b] # NoBatch /\ batch'[b].kind = batch[b].kind
       /\ batch'[b].expected = batch[b].expected
       /\ \A c \in batch'[b].ok :
            \/ c \in batch[b].ok
            \/ batch[b].kind = "review" =>
                 reviews'[c] = Append(reviews[c], [decision |-> "approved",
                                                   base |-> batch[b].expected[c]])

\* A step of a batch.
LEMMA ServeGrows ==
  ASSUME ConsoleInv, NEW b \in BatchIds, ServeBatch(b)
  PROVE  OkGrows
<1> DEFINE old == batch[b]
<1> USE DEF ConsoleInv
<1>1. batch[b] # NoBatch /\ old \in BatchRow
  BY RowsAreRows
     DEF ServeBatch, BatchItemSucceeds, BatchItemFails, BatchBreaks, BatchAnswered,
         BatchGivenUp, BatchesOK, BatchRowOK
<1>2. ASSUME NEW c \in Candidates, BatchItemSucceeds(b, c)
      PROVE  OkGrows
  <2> DEFINE row == [old EXCEPT !.todo = @ \ {c}, !.ok = @ \cup {c}]
  <2>1. batch' = [batch EXCEPT ![b] = row]
    BY <1>2 DEF BatchItemSucceeds, BatchesOK
  <2>2. row.ok = old.ok \cup {c} /\ row.kind = old.kind /\ row.expected = old.expected
    BY <1>1 DEF BatchRow
  <2>3. old.kind = "review" =>
          reviews'[c] = Append(reviews[c], [decision |-> "approved", base |-> old.expected[c]])
    BY <1>2, ItemStep
  <2> HIDE DEF row
  <2>4. batch'[b] = row /\ \A o \in BatchIds : o # b => batch'[o] = batch[o]
    BY <2>1 DEF BatchesOK
  <2> QED
    BY <1>1, <2>2, <2>3, <2>4 DEF OkGrows
<1>3. ASSUME ~ \E c \in Candidates : BatchItemSucceeds(b, c)
      PROVE  OkGrows
  <2> DEFINE same(row) == row.ok = old.ok /\ row.kind = old.kind /\ row.expected = old.expected
  <2>1. \A o \in BatchIds : o # b => batch'[o] = batch[o]
    BY <1>3
       DEF ServeBatch, BatchItemFails, BatchBreaks, BatchAnswered, BatchGivenUp, BatchesOK
  <2>2. ASSUME NEW c \in Candidates, BatchItemFails(b, c)
        PROVE  same(batch'[b])
    BY <1>1, <2>2 DEF BatchItemFails, BatchesOK, BatchRow
  <2>3. ASSUME BatchBreaks(b) \/ BatchAnswered(b) \/ BatchGivenUp(b)
        PROVE  same(batch'[b])
    BY <1>1, <2>3 DEF BatchBreaks, BatchAnswered, BatchGivenUp, BatchesOK, BatchRow
  <2>4. same(batch'[b])
    BY <1>3, <2>2, <2>3 DEF ServeBatch
  <2> QED
    BY <1>1, <2>1, <2>4 DEF OkGrows
<1> QED
  BY <1>2, <1>3

\* So it is in every step.
LEMMA OkStep ==
  ASSUME ConsoleInv, ConsoleNext
  PROVE  OkGrows
<1> USE DEF ConsoleInv
<1>1. CASE batch' = batch
  BY <1>1 DEF OkGrows
<1>2. ASSUME NEW v \in Viewers, NEW b \in BatchIds, NEW kind \in {"review", "archive"},
             RunBatch(v, b, kind)
      PROVE  OkGrows
  BY <1>2 DEF RunBatch, BatchesOK, OkGrows
<1>3. ASSUME NEW b \in BatchIds, ServeBatch(b)
      PROVE  OkGrows
  BY <1>3, ServeGrows
<1>4. ASSUME NEW v \in Viewers, Click(v)
      PROVE  OkGrows
  BY <1>1, <1>2, <1>4
     DEF Click, ShowSection, SwitchArchivedView, LoadMore, OpenCandidate, Toggle, ChooseOwner,
         SubmitForm
<1>5. ASSUME NEW v \in Viewers, Respond(v)
      PROVE  OkGrows
  BY <1>1, <1>5
     DEF Respond, ReadList, ReadMore, ListArrives, MoreArrives, ListFails, MoreFails, ReadEvidence, ReadVersion,
         ReadWorkflow, DetailArrives, DetailFails, AcceptSave, RefuseSave, SaveAnswered,
         SaveWithoutAnswer
<1> QED
  BY <1>1, <1>3, <1>4, <1>5 DEF ConsoleNext, Colleague, consoleVars, AcceptLate

\* What a batch reports as done was decided by it at the version that was ticked,
\* although its items commit one by one among those of other batches
\* (candidate-batch.ts).
THEOREM ReportsAreTrue == ConsoleSpec => []BatchReportIsTrue
<1>1. ConsoleInit => BatchReportIsTrue
  BY DEF ConsoleInit, BatchReportIsTrue
<1>2. ConsoleInv /\ BatchReportIsTrue /\ [ConsoleNext]_vars => BatchReportIsTrue'
  <2> SUFFICES ASSUME ConsoleInv, BatchReportIsTrue, [ConsoleNext]_vars,
                      NEW b \in BatchIds, batch'[b] # NoBatch, batch'[b].kind = "review",
                      NEW c \in batch'[b].ok
               PROVE  \E i \in DOMAIN reviews'[c] :
                        reviews'[c][i] = [decision |-> "approved",
                                          base |-> batch'[b].expected[c]]
    BY DEF BatchReportIsTrue
  <2> DEFINE row == [decision |-> "approved", base |-> batch'[b].expected[c]]
  <2>1. CentreStep
    BY EveryStep, CentreRests DEF ConsoleInv, vars
  <2>2. OkGrows
    <3>1. CASE UNCHANGED vars
      BY <3>1 DEF OkGrows, vars, consoleVars
    <3> QED
      BY <3>1, OkStep
  <2>3. BatchesOK'
    BY ConsoleKeeps DEF ConsoleInv
  <2>4. c \in Candidates
    BY <2>3 DEF BatchesOK, BatchRowOK, BatchRow
  <2>5. CASE /\ batch[b] # NoBatch /\ batch[b].kind = "review" /\ c \in batch[b].ok
             /\ batch'[b].expected = batch[b].expected
    <3>1. PICK i \in DOMAIN reviews[c] : reviews[c][i] = row
      BY <2>5 DEF BatchReportIsTrue
    <3>2. i \in DOMAIN reviews'[c] /\ reviews'[c][i] = reviews[c][i]
      BY <2>1, <2>4, <3>1, DecisionsGrow
    <3> QED
      BY <3>1, <3>2
  <2>6. CASE reviews'[c] = Append(reviews[c], row)
    <3>1. reviews[c] \in Seq(ReviewRow)
      BY <2>4, Versions DEF ConsoleInv
    <3> HIDE DEF row
    <3>2. /\ Len(reviews[c]) + 1 \in DOMAIN reviews'[c]
          /\ reviews'[c][Len(reviews[c]) + 1] = row
      BY <2>6, <3>1
    <3> QED
      BY <3>2 DEF row
  <2>7. \/ /\ batch[b] # NoBatch /\ batch[b].kind = "review" /\ c \in batch[b].ok
           /\ batch'[b].expected = batch[b].expected
        \/ reviews'[c] = Append(reviews[c], row)
    BY <2>2 DEF OkGrows
  <2> QED
    BY <2>5, <2>6, <2>7
<1> QED
  BY <1>1, <1>2, ConsoleInvariance, PTL DEF ConsoleSpec

-----------------------------------------------------------------------------
(* The page only does what the centre allows.                              *)

\* A write at the version it carries is one at the version that is there.
LEMMA WritesAreSteps ==
  ASSUME NEW m \in Members, NEW c \in Candidates, NEW expected,
         \/ \E decision \in ManualDecisions : submitManualReview(m, c, decision, expected)
         \/ \E next \in PIPELINE_STATUSES : transitionCandidatePipeline(m, c, next, expected)
         \/ \E archived \in BOOLEAN : setCandidateArchived(m, c, archived, expected)
         \/ \E owner \in Members \cup {NoMember}, contact \in Contacts \cup {NoContact} :
              updateCandidateOutreach(m, c, owner, contact, expected)
  PROVE  WorkflowNext
<1>1. ASSUME NEW decision \in ManualDecisions, submitManualReview(m, c, decision, expected)
      PROVE  Review(m)
  <2>1. expected = candidate[c].version
    BY <1>1 DEF submitManualReview
  <2> QED
    BY <1>1, <2>1 DEF Review
<1>2. ASSUME NEW next \in PIPELINE_STATUSES, transitionCandidatePipeline(m, c, next, expected)
      PROVE  Transition(m)
  <2>1. expected = candidate[c].version
    BY <1>2 DEF transitionCandidatePipeline
  <2> QED
    BY <1>2, <2>1 DEF Transition
<1>3. ASSUME NEW archived \in BOOLEAN, setCandidateArchived(m, c, archived, expected)
      PROVE  Archive(m)
  <2>1. expected = candidate[c].version
    BY <1>3 DEF setCandidateArchived
  <2> QED
    BY <1>3, <2>1 DEF Archive
<1>4. ASSUME NEW owner \in Members \cup {NoMember}, NEW contact \in Contacts \cup {NoContact},
             updateCandidateOutreach(m, c, owner, contact, expected)
      PROVE  Contact(m)
  <2>1. expected = outreach[c].version
    BY <1>4 DEF updateCandidateOutreach
  <2> QED
    BY <1>4, <2>1 DEF Contact
<1> QED
  BY <1>1, <1>2, <1>3, <1>4 DEF WorkflowNext

\* A form that is served is a write of the member who sent it.
LEMMA ServedIsWrite ==
  ASSUME NEW v \in Viewers, NEW s \in SaveRow, SaveRowOK(s), Served(v, s)
  PROVE  WorkflowNext
<1> DEFINE c == Target(s)
<1>1. v \in Members /\ c \in Candidates /\ s.owner \in Members \cup {NoMember}
  BY ConsoleAssumption DEF SaveRow, Details, Target
<1>2. CASE s.kind = "review"
  BY <1>1, <1>2, WritesAreSteps DEF Served, SaveRowOK
<1>3. CASE s.kind = "pipeline"
  BY <1>1, <1>3, WritesAreSteps DEF Served, SaveRowOK
<1>4. CASE s.kind = "archive"
  <2>1. setCandidateArchived(v, c, ~s.seen.archived, s.expected)
        /\ (~s.seen.archived) \in BOOLEAN
    BY <1>4 DEF Served
  <2> QED
    BY <1>1, <2>1, WritesAreSteps
<1>5. CASE s.kind = "outreach"
  BY <1>1, <1>5, WritesAreSteps DEF Served, SaveRowOK
<1> QED
  BY <1>2, <1>3, <1>4, <1>5 DEF SaveRow, SaveKinds

\* An item of a batch that is done is a write of the member who ticked it.
LEMMA ItemIsWrite ==
  ASSUME ConsoleInv, NEW b \in BatchIds, NEW c \in Candidates, BatchItemSucceeds(b, c)
  PROVE  WorkflowNext
<1>1. batch[b] \in BatchRow /\ BatchOperate(b, c)
  BY RowsAreRows DEF BatchItemSucceeds, ConsoleInv, BatchesOK, BatchRowOK
<1>2. batch[b].by \in Members
  BY <1>1, ConsoleAssumption DEF BatchRow
<1> QED
  BY <1>1, <1>2, WritesAreSteps DEF BatchOperate, ManualDecisions

\* What a colleague does is in the workflow.
LEMMA ColleagueIsWrite ==
  ASSUME NEW m \in Members, Colleague(m)
  PROVE  WorkflowNext
BY ConsoleAssumption DEF Colleague, WorkflowNext, Review, Transition, Contact

\* Whatever the page sends, and however late or often, the centre goes through its own
\* workflow: each theorem about WorkflowSpec holds of the composition
\* (candidate-workflow.ts, candidate-batch.ts).
THEOREM ConsoleImplementsWorkflow == ConsoleSpec => WorkflowSpec
<1>1. ConsoleInit => WorkflowInit
  BY DEF ConsoleInit
<1>2. ConsoleInv /\ [ConsoleNext]_vars => [WorkflowNext]_workflowVars
  <2> SUFFICES ASSUME ConsoleInv, [ConsoleNext]_vars
               PROVE  WorkflowNext \/ UNCHANGED workflowVars
    OBVIOUS
  <2>1. CASE Ingest /\ UNCHANGED consoleVars
    BY <2>1 DEF WorkflowNext
  <2>2. ASSUME NEW m \in Members, Colleague(m)
        PROVE  WorkflowNext
    BY <2>2, ColleagueIsWrite
  <2>3. ASSUME NEW v \in Viewers, Click(v)
        PROVE  UNCHANGED workflowVars
    BY <2>3, ClickRests
  <2>4. ASSUME NEW v \in Viewers, Respond(v), ~AcceptSave(v)
        PROVE  UNCHANGED workflowVars
    BY <2>4
       DEF Respond, ReadList, ReadMore, ListArrives, MoreArrives, ListFails, MoreFails, ReadEvidence, ReadVersion,
           ReadWorkflow, DetailArrives, DetailFails, RefuseSave, SaveAnswered, SaveWithoutAnswer
  <2>5. ASSUME NEW b \in BatchIds, ServeBatch(b), ~ \E c \in Candidates : BatchItemSucceeds(b, c)
        PROVE  UNCHANGED workflowVars
    BY <2>5 DEF ServeBatch, BatchItemFails, BatchBreaks, BatchAnswered, BatchGivenUp
  <2>6. CASE UNCHANGED vars
    BY <2>6 DEF vars
  <2>7. ASSUME NEW v \in Viewers, AcceptSave(v)
        PROVE  WorkflowNext
    BY <2>7, AcceptServes, ServedIsWrite DEF ConsoleInv
  <2>8. ASSUME NEW request, AcceptLate(request)
        PROVE  WorkflowNext
    BY <2>8, LateServes, ServedIsWrite DEF ConsoleInv
  <2> QED
    BY <2>1, <2>2, <2>3, <2>4, <2>5, <2>6, <2>7, <2>8, ItemIsWrite DEF ConsoleNext
<1> QED
  BY <1>1, <1>2, ConsoleInvariance, PTL DEF ConsoleSpec, WorkflowSpec

=============================================================================
