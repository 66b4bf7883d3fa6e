-------------------------- MODULE CandidateConsole --------------------------
(***************************************************************************)
(* The candidate page of the web console (apps/web/src/pages/              *)
(* CandidatesPage.tsx) on top of the centre (CandidateWorkflow): what a    *)
(* member sees is a copy that ages while requests are on the way, and what *)
(* the member submits carries the versions of that copy.                   *)
(*                                                                         *)
(* Viewers work through the page.  The other members are colleagues whose  *)
(* writes arrive one by one.  What the centre reads for an answer may be   *)
(* old when the answer arrives.  A request or its answer may be lost, and  *)
(* a request that the page has given up may still be served.  The forms    *)
(* for tags and notes, which carry no version, are left out.               *)
(***************************************************************************)
EXTENDS CandidateWorkflow

CONSTANTS
  Viewers,      \* the members whose page is modelled
  Views,        \* the views of the library: [archived, statuses]
  FirstView,    \* the one the page opens with
  BatchIds,     \* identities of batch requests
  Decisions, Stages, Owners,  \* the decisions, stages and owners that are tried
  MaxClicks,    \* bound on what a viewer does
  NoCandidate

VARIABLES
  page,     \* page[v]: the state of the CandidatesPage component
  listing,  \* listing[v]: the request for the first rows of the view
  more,     \* more[v]: the request for the next rows
  fetch,    \* fetch[v]: the request for a detail, of which only the newest counts
  save,     \* save[v]: the request of a form
  late,     \* the forms that a page has given up before the centre served them
  batch,    \* batch[b]: a batch operation
  clicks    \* clicks[v]: how often v has done something, for the bound

consoleVars == <<page, listing, more, fetch, save, late, batch, clicks>>
vars == <<workflowVars, consoleVars>>

-----------------------------------------------------------------------------
(* What is displayed.                                                      *)

\* The workflow part of a detail, and the whole of it: "evidence" is the newest
\* observation shown, "version" the version read with it.
Workflow(c, version, status) ==
  [version |-> version, status |-> status, reviews |-> Len(reviews[c]), outreach |-> outreach[c]]

WorkflowParts == [version : Nat, status : PIPELINE_STATUSES, reviews : Nat, outreach : OutreachRow]
Details == [candidate : Candidates, evidence : Nat, archived : BOOLEAN, version : Nat,
            workflow : WorkflowParts]
EmptyWorkflow == [version |-> 0, status |-> "pending_review", reviews |-> 0, outreach |-> NoOutreach]
EmptyDetail(c) == [candidate |-> c, evidence |-> 0, archived |-> FALSE, version |-> 0,
                   workflow |-> EmptyWorkflow]

NoDetail == [candidate |-> NoCandidate]
NoFetch == [step |-> "none"]
NoSave == [state |-> "none"]
NoList == [step |-> "none"]
NoBatch == [state |-> "none"]
NoRows == [c \in Candidates |-> 0]

\* A request for rows: the view it was made under, the versions of the rows that the
\* centre has read for it, and whether the page still waits for it.
ListRequests == [step : {"asked", "read"}, view : Views, rows : [Candidates -> Nat],
                 current : BOOLEAN]
Asked(view) == [step |-> "asked", view |-> view, rows |-> NoRows, current |-> TRUE]

Pages == [view     : Views,
          rows     : [Candidates -> Nat],     \* the listed versions, 0: not listed
          opened   : Candidates \cup {NoCandidate},
          detail   : Details \cup {NoDetail},
          mounted  : Candidates \cup {NoCandidate},  \* whose CandidateDetailView is alive
          owner    : Members \cup {NoMember}, \* its owner selector
          touched  : BOOLEAN,                 \* the member has used the selector
          selected : [Candidates -> Nat]]     \* ticked rows with their versions

ASSUME ConsoleAssumption ==
  /\ Viewers \subseteq Members
  /\ Views \subseteq [archived : BOOLEAN, statuses : SUBSET PIPELINE_STATUSES]
  /\ FirstView \in Views
  /\ Decisions \subseteq ManualDecisions /\ Stages \subseteq PIPELINE_STATUSES
  /\ Owners \subseteq Members \cup {NoMember}
  /\ MaxClicks \in Nat
  /\ NoCandidate \notin Candidates

ConsoleInit ==
  /\ WorkflowInit
  /\ page = [v \in Viewers |->
       [view |-> FirstView, rows |-> NoRows, opened |-> NoCandidate,
        detail |-> NoDetail, mounted |-> NoCandidate, owner |-> NoMember, touched |-> FALSE,
        selected |-> NoRows]]
  /\ listing = [v \in Viewers |-> Asked(FirstView)]
  /\ more = [v \in Viewers |-> NoList]
  /\ fetch = [v \in Viewers |-> NoFetch]
  /\ save = [v \in Viewers |-> NoSave]
  /\ late = {}
  /\ batch = [b \in BatchIds |-> NoBatch]
  /\ clicks = [v \in Viewers |-> 0]

-----------------------------------------------------------------------------
(* The library list.                                                       *)

\* (mutant) The count of requests is not advanced.
NotDisowned(request) == request

Disowned(request) ==
  IF request = NoList THEN NoList ELSE [request EXCEPT !.current = FALSE]

\* The effect that runs when the view or the reload token changes: it aborts the
\* request for the first rows, disowns that for more, and starts anew.
ReloadList(v, view) ==
  /\ listing' = [listing EXCEPT ![v] = Asked(view)]
  /\ more' = [more EXCEPT ![v] = Disowned(@)]

Unselected(p) == [p EXCEPT !.opened = NoCandidate, !.detail = NoDetail, !.mounted = NoCandidate]

\* showCandidateSection: another stage of the pipeline; a detail on its way is dropped.
ShowSection(v, view) ==
  /\ view # page[v].view /\ view.archived = page[v].view.archived
  /\ page' = [page EXCEPT ![v] = [Unselected(@) EXCEPT !.view = view]]
  /\ fetch' = [fetch EXCEPT ![v] = NoFetch]
  /\ ReloadList(v, view)
  /\ UNCHANGED <<workflowVars, save, late, batch>>

\* switchArchivedView also unticks everything; a detail on its way is not dropped.
SwitchArchivedView(v, view) ==
  /\ view.archived # page[v].view.archived
  /\ page' = [page EXCEPT ![v] = [Unselected(@) EXCEPT !.view = view,
                                                       !.selected = NoRows]]
  /\ ReloadList(v, view)
  /\ UNCHANGED <<workflowVars, fetch, save, late, batch>>

\* listCandidatePage at the centre: some rows of the view that was asked for, as they
\* are now.
ReadRows(v, request, rows) ==
  /\ request.step = "asked"
  /\ rows \subseteq listCandidatePage(v, request.view.archived, request.view.statuses)
Answered(request, rows) ==
  [request EXCEPT !.step = "read",
     !.rows = [c \in Candidates |-> IF c \in rows THEN candidate[c].version ELSE 0]]

ReadList(v, rows) ==
  /\ ReadRows(v, listing[v], rows)
  /\ listing' = [listing EXCEPT ![v] = Answered(@, rows)]
  /\ UNCHANGED <<workflowVars, page, more, fetch, save, late, batch>>

ReadMore(v, rows) ==
  /\ ReadRows(v, more[v], rows)
  /\ more' = [more EXCEPT ![v] = Answered(@, rows)]
  /\ UNCHANGED <<workflowVars, page, listing, fetch, save, late, batch>>

\* The first rows replace the list and prune the ticks to the listed ids, which keep the
\* version they were ticked with.
ListArrives(v) ==
  /\ listing[v].step = "read"
  /\ LET rows == listing[v].rows IN
     page' = [page EXCEPT
       ![v].rows = rows,
       ![v].selected = [c \in Candidates |-> IF rows[c] > 0 THEN @[c] ELSE 0]]
  /\ listing' = [listing EXCEPT ![v] = NoList]
  /\ UNCHANGED <<workflowVars, more, fetch, save, late, batch>>

\* The rows stay, under an error message.
ListFails(v) ==
  /\ listing[v] # NoList
  /\ listing' = [listing EXCEPT ![v] = NoList]
  /\ UNCHANGED <<workflowVars, page, more, fetch, save, late, batch>>

\* The request for more rows is bound to the view it was made under.  It may take the
\* place of a disowned one, whose answer changes nothing.
LoadMore(v) ==
  /\ listing[v] = NoList /\ (more[v] # NoList => ~more[v].current)
  /\ more' = [more EXCEPT ![v] = Asked(page[v].view)]
  /\ UNCHANGED <<workflowVars, page, listing, fetch, save, late, batch>>

Merged(old, new) == [c \in Candidates |-> IF new[c] > 0 THEN new[c] ELSE old[c]]

\* The next rows are merged, unless the request has been disowned since.
MoreArrives(v) ==
  /\ more[v].step = "read"
  /\ page' = IF more[v].current
               THEN [page EXCEPT ![v].rows = Merged(@, more[v].rows)] ELSE page
  /\ more' = [more EXCEPT ![v] = NoList]
  /\ UNCHANGED <<workflowVars, listing, fetch, save, late, batch>>

MoreFails(v) ==
  /\ more[v] # NoList
  /\ more' = [more EXCEPT ![v] = NoList]
  /\ UNCHANGED <<workflowVars, page, listing, fetch, save, late, batch>>

-----------------------------------------------------------------------------
(* The detail.                                                             *)

\* A view that is alive for the same candidate keeps its state, the owner selector
\* included; a new one starts from the detail.
Mount(p, d) ==
  IF p.mounted = d.candidate
    THEN [p EXCEPT !.detail = d]
    ELSE [p EXCEPT !.detail = d, !.mounted = d.candidate,
                   !.owner = d.workflow.outreach.owner, !.touched = FALSE]

\* openCandidate: while the newest request is on its way, the view of another candidate
\* is taken down, and that of the same candidate stays usable.
Opened(p, c) ==
  IF p.detail.candidate = c
    THEN Mount([p EXCEPT !.opened = c], p.detail)
    ELSE [p EXCEPT !.opened = c, !.mounted = NoCandidate]
StartFetch(v, c) ==
  fetch' = [fetch EXCEPT ![v] = [step |-> "evidence", detail |-> EmptyDetail(c)]]

OpenCandidate(v, c) ==
  /\ page[v].rows[c] > 0
  /\ page' = [page EXCEPT ![v] = Opened(@, c)]
  /\ StartFetch(v, c)
  /\ UNCHANGED <<workflowVars, listing, more, save, late, batch>>

Fetched(v) == fetch[v].detail.candidate

\* getCandidateDetail, then getCandidateWorkflow: first its row, then the rest.
ReadEvidence(v) ==
  /\ fetch[v].step = "evidence" /\ Readable(v, Fetched(v))
  /\ LET c == Fetched(v) IN
     fetch' = [fetch EXCEPT ![v] =
       [step |-> "version",
        detail |-> [@.detail EXCEPT !.evidence = candidate[c].latest,
                                    !.archived = candidate[c].archived,
                                    !.version = candidate[c].version]]]
  /\ UNCHANGED <<workflowVars, page, listing, more, save, late, batch>>

ReadVersion(v) ==
  /\ fetch[v].step = "version" /\ Readable(v, Fetched(v))
  /\ LET c == Fetched(v) IN
     fetch' = [fetch EXCEPT ![v] =
       [step |-> "workflow",
        detail |-> [@.detail EXCEPT !.workflow.version = candidate[c].version,
                                    !.workflow.status = candidate[c].pipelineStatus]]]
  /\ UNCHANGED <<workflowVars, page, listing, more, save, late, batch>>

\* (mutant) The version is read again with the last part.
ReadWorkflowAndVersion(v) ==
  /\ fetch[v].step = "workflow"
  /\ LET d == fetch[v].detail IN
     fetch' = [fetch EXCEPT ![v] =
       [step |-> "answer",
        detail |-> [d EXCEPT !.workflow = Workflow(Fetched(v), candidate[Fetched(v)].version,
                                                   d.workflow.status)]]]
  /\ UNCHANGED <<workflowVars, page, listing, more, save, late, batch>>

ReadWorkflow(v) ==
  /\ fetch[v].step = "workflow"
  /\ LET d == fetch[v].detail IN
     fetch' = [fetch EXCEPT ![v] =
       [step |-> "answer",
        detail |-> [d EXCEPT !.workflow = Workflow(Fetched(v), d.workflow.version,
                                                   d.workflow.status)]]]
  /\ UNCHANGED <<workflowVars, page, listing, more, save, late, batch>>

DetailArrives(v) ==
  /\ fetch[v].step = "answer"
  /\ page' = [page EXCEPT ![v] = Mount(@, fetch[v].detail)]
  /\ fetch' = [fetch EXCEPT ![v] = NoFetch]
  /\ UNCHANGED <<workflowVars, listing, more, save, late, batch>>

DetailFails(v) ==
  /\ fetch[v] # NoFetch
  /\ page' = [page EXCEPT ![v].detail = NoDetail, ![v].mounted = NoCandidate]
  /\ fetch' = [fetch EXCEPT ![v] = NoFetch]
  /\ UNCHANGED <<workflowVars, listing, more, save, late, batch>>

-----------------------------------------------------------------------------
(* The forms of the detail.                                                *)

\* onChange of the owner selector.
ChooseOwner(v, owner) ==
  /\ page[v].mounted # NoCandidate
  /\ page' = [page EXCEPT ![v].owner = owner, ![v].touched = TRUE]
  /\ UNCHANGED <<workflowVars, listing, more, fetch, save, late, batch>>

Shown(v) == page[v].detail
SaveKinds == {"review", "pipeline", "archive", "outreach"}

\* The version a form sends: the archive button that of the evidence, the outreach form
\* that of its own record, the others that of the workflow.
VersionSent(d, kind) ==
  CASE kind = "archive"  -> d.version
    [] kind = "outreach" -> d.workflow.outreach.version
    [] kind \in {"review", "pipeline"} -> d.workflow.version

\* A review offers the decisions, the stage form the stages, the archive button the
\* other archive state; the outreach form sends its owner selector and all of its
\* contact fields, which hold what was shown in them or typed.
SubmitForm(v, kind, argument) ==
  /\ page[v].mounted # NoCandidate /\ MayWrite(v)
  /\ save[v] = NoSave
  /\ save' = [save EXCEPT ![v] =
       [state |-> "sent", kind |-> kind, argument |-> argument, seen |-> Shown(v),
        expected |-> VersionSent(Shown(v), kind),
        owner |-> page[v].owner, touched |-> page[v].touched]]
  /\ UNCHANGED <<workflowVars, page, listing, more, fetch, late, batch>>

Target(form) == form.seen.candidate

Served(v, form) ==
  LET c == Target(form) IN
  CASE form.kind = "review"   -> submitManualReview(v, c, form.argument, form.expected)
    [] form.kind = "pipeline" -> transitionCandidatePipeline(v, c, form.argument, form.expected)
    [] form.kind = "archive"  -> setCandidateArchived(v, c, ~form.seen.archived, form.expected)
    [] form.kind = "outreach" -> updateCandidateOutreach(v, c, form.owner, form.argument,
                                                         form.expected)

AcceptSave(v) ==
  /\ save[v].state = "sent"
  /\ Served(v, save[v])
  /\ save' = [save EXCEPT ![v].state = "accepted"]
  /\ UNCHANGED <<page, listing, more, fetch, late, batch>>

\* 404, or 409 for a version or a transition that does not fit.
RefuseSave(v) ==
  LET s == save[v]
      c == Target(s)
  IN
  /\ s.state = "sent"
  /\ \/ ~Readable(v, c)
     \/ s.kind = "outreach" /\ s.expected # outreach[c].version
     \/ s.kind # "outreach" /\ s.expected # candidate[c].version
     \/ s.kind = "pipeline" /\ s.argument \notin allowedTransitions[candidate[c].pipelineStatus]
  /\ save' = [save EXCEPT ![v].state = "refused"]
  /\ UNCHANGED <<workflowVars, page, listing, more, fetch, late, batch>>

\* refreshAfterSave: reload the list with the selection kept, and the detail saved.
SaveAnswered(v) ==
  LET c == Target(save[v]) IN
  /\ save[v].state = "accepted"
  /\ page' = [page EXCEPT ![v] = Opened(@, c)]
  /\ StartFetch(v, c)
  /\ ReloadList(v, page[v].view)
  /\ save' = [save EXCEPT ![v] = NoSave]
  /\ UNCHANGED <<workflowVars, late, batch>>

\* The answer says no, or nothing comes back, whatever the centre has done or will yet
\* do: a message, and the form stays as it is.
SaveWithoutAnswer(v) ==
  /\ save[v] # NoSave
  /\ save' = [save EXCEPT ![v] = NoSave]
  /\ late' = late \cup IF save[v].state = "sent" THEN {[by |-> v, form |-> save[v]]} ELSE {}
  /\ UNCHANGED <<workflowVars, page, listing, more, fetch, batch>>

\* The centre serves a form that was given up.  Refusing one changes nothing.
AcceptLate(request) ==
  /\ request \in late
  /\ Served(request.by, request.form)
  /\ late' = late \ {request}
  /\ UNCHANGED <<page, listing, more, fetch, save, batch>>

-----------------------------------------------------------------------------
(* Batch operations (candidate-batch.ts).                                  *)

Toggle(v, c) ==
  /\ page[v].rows[c] > 0 /\ ~page[v].view.archived
  /\ \A b \in BatchIds : batch[b] # NoBatch => ~(batch[b].by = v /\ batch[b].waiting)
  /\ page' = [page EXCEPT ![v].selected[c] = IF @ > 0 THEN 0 ELSE page[v].rows[c]]
  /\ UNCHANGED <<workflowVars, listing, more, fetch, save, late, batch>>

\* A batch is submitted while no other one is awaited by the same page: one that was
\* given up may still run at the centre.
RunBatch(v, b, kind) ==
  /\ batch[b] = NoBatch /\ MayWrite(v) /\ ~page[v].view.archived
  /\ \A other \in BatchIds : batch[other] # NoBatch => ~(batch[other].by = v /\ batch[other].waiting)
  /\ page[v].selected # NoRows
  /\ batch' = [batch EXCEPT ![b] =
       [state |-> "running", by |-> v, kind |-> kind, waiting |-> TRUE,
        expected |-> page[v].selected,
        todo |-> {c \in Candidates : page[v].selected[c] > 0}, ok |-> {}, failed |-> {}]]
  /\ UNCHANGED <<workflowVars, page, listing, more, fetch, save, late>>

BatchOperate(b, c) ==
  IF batch[b].kind = "review"
    THEN submitManualReview(batch[b].by, c, "approved", batch[b].expected[c])
    ELSE setCandidateArchived(batch[b].by, c, TRUE, batch[b].expected[c])

\* Items are served one after the other, each in a transaction of its own.
BatchItemSucceeds(b, c) ==
  /\ batch[b].state = "running" /\ c \in batch[b].todo
  /\ BatchOperate(b, c)
  /\ batch' = [batch EXCEPT ![b].todo = @ \ {c}, ![b].ok = @ \cup {c}]
  /\ UNCHANGED <<page, listing, more, fetch, save, late>>

\* (mutant) An item that failed is counted with the others.
BatchItemFailsUnseen(b, c) ==
  /\ batch[b].state = "running" /\ c \in batch[b].todo
  /\ ~Readable(batch[b].by, c) \/ candidate[c].version # batch[b].expected[c]
  /\ batch' = [batch EXCEPT ![b].todo = @ \ {c}, ![b].ok = @ \cup {c}]
  /\ UNCHANGED <<workflowVars, page, listing, more, fetch, save, late>>

\* A known error is an item's result and does not stop the batch.
BatchItemFails(b, c) ==
  /\ batch[b].state = "running" /\ c \in batch[b].todo
  /\ ~Readable(batch[b].by, c) \/ candidate[c].version # batch[b].expected[c]
  /\ batch' = [batch EXCEPT ![b].todo = @ \ {c}, ![b].failed = @ \cup {c}]
  /\ UNCHANGED <<workflowVars, page, listing, more, fetch, save, late>>

\* Any other error ends the batch; what was committed stays.
BatchBreaks(b) ==
  /\ batch[b].state = "running" /\ batch[b].todo # {}
  /\ batch' = [batch EXCEPT ![b].state = "broken"]
  /\ UNCHANGED <<workflowVars, page, listing, more, fetch, save, late>>

BatchAnswered(b) ==
  /\ batch[b].state = "running" /\ batch[b].todo = {} /\ batch[b].waiting
  /\ batch' = [batch EXCEPT ![b].state = "reported", ![b].waiting = FALSE]
  /\ page' = [page EXCEPT ![batch[b].by] = [Unselected(@) EXCEPT !.selected = NoRows]]
  /\ ReloadList(batch[b].by, page[batch[b].by].view)
  /\ UNCHANGED <<workflowVars, fetch, save, late>>

\* An error is answered or the connection breaks: the ticks stay, and the centre goes on.
BatchGivenUp(b) ==
  /\ batch[b].state \in {"running", "broken"} /\ batch[b].waiting
  /\ batch' = [batch EXCEPT ![b].waiting = FALSE]
  /\ UNCHANGED <<workflowVars, page, listing, more, fetch, save, late>>

-----------------------------------------------------------------------------
Colleague(m) ==
  /\ \/ \E c \in Candidates, decision \in Decisions :
          submitManualReview(m, c, decision, candidate[c].version)
     \/ \E c \in Candidates, next \in Stages :
          transitionCandidatePipeline(m, c, next, candidate[c].version)
     \/ Archive(m)
     \/ \E c \in Candidates, owner \in Owners, contact \in Contacts \cup {NoContact} :
          updateCandidateOutreach(m, c, owner, contact, outreach[c].version)
  /\ UNCHANGED consoleVars

\* What the viewer does.
Click(v) ==
  \/ \E view \in Views : ShowSection(v, view) \/ SwitchArchivedView(v, view)
  \/ LoadMore(v)
  \/ \E c \in Candidates : OpenCandidate(v, c) \/ Toggle(v, c)
  \/ \E owner \in Owners : ChooseOwner(v, owner)
  \/ \E decision \in Decisions : SubmitForm(v, "review", decision)
  \/ \E next \in Stages : SubmitForm(v, "pipeline", next)
  \/ SubmitForm(v, "archive", "toggle")
  \/ \E contact \in Contacts \cup {NoContact} : SubmitForm(v, "outreach", contact)
  \/ \E b \in BatchIds, kind \in {"review", "archive"} : RunBatch(v, b, kind)

\* What happens to the viewer's requests.
Respond(v) ==
  \/ \E rows \in SUBSET Candidates : ReadList(v, rows) \/ ReadMore(v, rows)
  \/ ListArrives(v) \/ MoreArrives(v) \/ ListFails(v) \/ MoreFails(v)
  \/ ReadEvidence(v) \/ ReadVersion(v) \/ ReadWorkflow(v) \/ DetailArrives(v) \/ DetailFails(v)
  \/ AcceptSave(v) \/ RefuseSave(v) \/ SaveAnswered(v) \/ SaveWithoutAnswer(v)

ServeBatch(b) ==
  \/ \E c \in Candidates : BatchItemSucceeds(b, c) \/ BatchItemFails(b, c)
  \/ BatchBreaks(b) \/ BatchAnswered(b) \/ BatchGivenUp(b)

ConsoleNext ==
  \/ Ingest /\ UNCHANGED consoleVars
  \/ \E m \in Members \ Viewers : Colleague(m)
  \/ \E v \in Viewers :
       clicks[v] < MaxClicks /\ Click(v) /\ clicks' = [clicks EXCEPT ![v] = @ + 1]
  \/ \E v \in Viewers : Respond(v) /\ UNCHANGED clicks
  \/ \E request \in late : AcceptLate(request) /\ UNCHANGED clicks
  \/ \E b \in BatchIds : ServeBatch(b) /\ UNCHANGED clicks

ConsoleSpec == ConsoleInit /\ [][ConsoleNext]_vars

-----------------------------------------------------------------------------
(* Properties.                                                             *)

\* The copies on the page are well formed, forms are only alive over the detail of
\* their candidate, and every item of a batch is either open, done or failed.
ConsoleTypeOK ==
  /\ page \in [Viewers -> Pages]
  /\ \A v \in Viewers : page[v].mounted \in {NoCandidate, page[v].detail.candidate}
  /\ listing \in [Viewers -> ListRequests \cup {NoList}]
  /\ more \in [Viewers -> ListRequests \cup {NoList}]
  /\ \A v \in Viewers : fetch[v] # NoFetch => fetch[v].detail \in Details
  /\ \A v \in Viewers : save[v] # NoSave =>
       save[v].kind \in SaveKinds /\ save[v].seen \in Details
  /\ \A request \in late : request.by \in Viewers /\ request.form.seen \in Details
  /\ \A b \in BatchIds : batch[b] # NoBatch =>
       /\ batch[b].todo \cup batch[b].ok \cup batch[b].failed
            = {c \in Candidates : batch[b].expected[c] > 0}
       /\ batch[b].todo \cap (batch[b].ok \cup batch[b].failed) = {}
       /\ batch[b].ok \cap batch[b].failed = {}

Accepted(v) == save[v].state = "sent" /\ save'[v].state = "accepted"

\* What a form was filled in over is what the centre has.
Informed(form) ==
  LET seen == form.seen
      c == Target(form)
  IN  /\ form.kind \in {"review", "pipeline"} =>
           /\ seen.workflow.status = candidate[c].pipelineStatus
           /\ seen.workflow.reviews = Len(reviews[c])
      /\ form.kind = "outreach" => seen.workflow.outreach = outreach[c]
      /\ form.kind = "archive" =>
           seen.archived = candidate[c].archived /\ seen.evidence = candidate[c].latest

\* A decision or a stage change is accepted only from a member whose page showed the
\* present stage and every review so far, and contact data only over the record that
\* was shown, be it long after the page has given the request up: the version is read
\* before what it stands for and compared under the lock (candidate-workflow.ts:545,
\* 171; the answers may be lost and sent again).
InformedDecisions ==
  [][/\ \A v \in Viewers : Accepted(v) => Informed(save[v])
     /\ \A request \in late \ late' : Informed(request.form)]_vars

\* No version of a candidate carries two decisions, however often a form or a batch is
\* sent again after an answer was lost (candidate-batch.ts:117, CandidatesPage.tsx:827).
DecisionsUseDistinctVersions ==
  \A c \in Candidates : \A i, j \in DOMAIN reviews[c] :
    i < j => reviews[c][i].base < reviews[c][j].base

\* A row that an answer brings to the list, and that nobody has written since the centre
\* read it, is a row of the view that is on, although the view may have changed and the
\* row been written while the answer was on its way: the answer of an older view does
\* not reach the list (CandidatesPage.tsx:161, libraryRequest; 146, the abort).
AddedRowsAreOfTheView ==
  [][\A v \in Viewers, c \in Candidates :
        LET added == page'[v].rows[c] IN
        added # page[v].rows[c] /\ added > 0 /\ added = candidate[c].version =>
          /\ candidate[c].archived = page'[v].view.archived
          /\ candidate[c].pipelineStatus \in page'[v].view.statuses]_vars

\* What a batch reports as done was done by it at the version that was ticked, although
\* items commit one by one and an overlapping batch, a form or a colleague may have been
\* there before it (candidate-batch.ts:117).
BatchReportIsTrue ==
  \A b \in BatchIds : batch[b] # NoBatch /\ batch[b].kind = "review" =>
    \A c \in batch[b].ok :
      \E i \in DOMAIN reviews[c] : reviews[c][i] = [decision |-> "approved",
                                                    base |-> batch[b].expected[c]]

\* "Batch review and batch archiving are done in the active list" (the page's own words,
\* CandidatesPage.tsx:391): no batch changes a candidate that is archived.
BatchesAreOfTheActiveList ==
  [][\A b \in BatchIds : batch[b] # NoBatch =>
        \A c \in batch'[b].ok \ batch[b].ok : ~candidate[c].archived]_vars

\* "The system must keep concurrent edits of team members from silently overwriting
\* newer review or follow-up data" (openspec/specs/creator-review-and-outreach/
\* spec.md:35): a member who has not touched the owner selector does not change the
\* owner.
OwnerNotReverted ==
  [][\A v \in Viewers :
        Accepted(v) /\ save[v].kind = "outreach" /\ ~save[v].touched =>
          outreach'[Target(save[v])].owner = outreach[Target(save[v])].owner]_vars
=============================================================================
