# A verification project for the Douyin influencer operations platform

The repository is a small distributed system.  A **collector** on an operator's
machine drives a visible browser through a recommendation feed, inspects
authors, and sends what it observed to a **centre** (an API over MySQL), which
judges it, keeps a candidate library and lets members review it.  A **worker**
cleans up screenshots in an object store.  This directory keeps the TLA+
modules of the parts where order, failure and concurrency matter, the TLC
configurations that check them and the TLAPS proofs about them.

## 1. Inventory

Paths are relative to `src/`; `domain` is `packages/domain/src`, `collector`
is `apps/collector/src`.

| Component | State it keeps | Operations | Interacts with |
|---|---|---|---|
| run life cycle, `domain/campaigns/run-service.ts` | `collection_runs`, `run_devices`, `campaign_rule_versions` | create, claim, start, pause, resume, terminate (member or device), report progress | every collector request; campaigns |
| campaigns, `domain/campaigns/campaign-service.ts` | `campaigns`, `campaign_templates` | create, copy, edit with an expected version, archive | runs take a snapshot of the rules |
| collector runtime, `collector/runtime.ts` | one checkpoint file per run, `this.checkpoint`, `busy`, `activeRunId`, `stopped`, the browser context | restore, start, control, collect, flushPending, recovery of pages | queue, API client, browser, upload |
| ingestion queue, `collector/ingestion-queue.ts` | one file per batch | enqueue, processNext (send, acknowledge, unlink) | runtime, ingestion |
| control server and client, `collector/control-server.ts` | a `mutating` flag | the local page's requests; requests to the centre with a 15 s timeout | runtime, centre |
| ingestion, `domain/ingestion/collector-ingestion.ts` | `ingestion_keys`, creators, observations, posts, candidates, evaluations | ingest a batch, in one transaction | runs (status, owner), hard filter |
| media, `domain/media/media-service.ts`, `collector/media-upload.ts` | `media_objects`, the object store | grant, PUT, confirm, signed access | runs, observations, cleanup |
| cleanup worker, `domain/media/media-cleanup.ts`, `apps/worker` | the same rows and objects | select, claim, delete, in batches | media, campaigns, candidates |
| candidate workflow, `domain/candidates/candidate-workflow.ts`, `candidate-batch.ts` | `campaign_candidates`, `manual_reviews`, `outreach_records`, `candidate_events`, tags, notes | review, archive, tags, stage, contact and owner, notes, batches | ingestion, access, console |
| candidate library, `domain/candidates/candidate-access.ts`, `candidate-library.ts` | none | who sees which candidate, since when, with which observations; list, detail, export | console, access |
| access, `domain/auth/*` | users, memberships, invitations, sessions, devices, pairing codes | log in, invite, accept, disable, pair, rotate, revoke | every request |
| console, `apps/web/src/pages/CandidatesPage.tsx` | copies of rows, a detail, forms, a selection | list, load more, open, submit a form, run a batch | the API's routes |
| hard filter, `domain/screening/hard-filter.ts` | none | evaluate rules over observed posts | ingestion, listings of a run |
| page recovery, `collector/recovery-controller.ts`, `safety-gate.ts` | recovery part of the checkpoint, low-confidence count | choose a step, count restarts, decide to pause | runtime |
| device identity, `collector/device-identity.ts` | token file, cached token | load, save, pair | API client |
| migrations, `domain/database/migrations.ts` | journal table, advisory lock | apply pending migrations | start-up |
| API server, `apps/api/src/server.ts` | none | authorise, call one operation, map its error to an answer | everything above |
| parsers, other pages, audit, dashboard, export, legacy import | none of their own, or append-only | - | - |

What is hard here, and what would make each part correct:

- *Two writers, one run.*  Members on the web, the device that claimed the run
  and late requests of the same device all change one row.  A run must be
  claimed once, judged by the rules of its creation, completed exactly when a
  stop condition is reached, and never reopened.
- *At-least-once sending.*  A request with no answer may have been served, may
  be served later, or not at all.  The collector saves first, sends through a
  persistent queue and retries; the centre must take each observation once, and
  the counters of the checkpoint must agree with what was taken.
- *Crashes between any two awaits.*  Checkpoint, queue record, acknowledgement,
  unlink, upload and the clearing save are six steps; a restart must be able to
  go on from between any two of them.
- *One asynchronous loop and its controls.*  `control()` sets a flag and awaits
  the loop; every wait must notice it, and every way out of the loop should tell
  the centre.
- *Time.*  Elapsed time is computed in memory and reported before it is saved.
- *Pages that fail.*  A page may show a fault, a request for a person, or both,
  and change between two looks.  The feed must come back, an author may be
  skipped, restarts of the browser must stay rare through crashes and
  resumptions, and no automatism may go on in front of a person's task.
- *Copies that age.*  What a member sees is older than the centre, requests are
  answered late, twice or never, and a decision must be made on what was shown.
- *Administrators against each other.*  A request is authorised, waits, and works
  with what it read: the last administrator must remain, and what is disabled or
  revoked must stay so.
- *Facts that are missing.*  Follower counts, likes and dates may be hidden; an
  unknown must never become a verdict that the full facts contradict.

`PROJECT.json` lists each of these as a hazard, at its line, with the properties
that would catch it going wrong, and notes which ones nothing covers yet.

## 2. Modules

| Module | Models | Kind |
|---|---|---|
| `CollectionRun` | the centre's side of a run, one action per handler | component |
| `CollectionRunProofs` | theorems about it | proofs |
| `ObservationDelivery` | the promise: at most one observation outstanding, delivered once, kept until delivered | abstract specification |
| `CollectorSync` | the collector's process, disk and queue, composed with `CollectionRun`, members, another device and a lossy network | composition |
| `CollectorSyncProofs` | its inductive invariant, its theorems and that it implements `ObservationDelivery` | proofs |
| `MediaLifecycle` | screenshots: grant, PUT, confirmation, and the cleanup worker | component |
| `MediaLifecycleProofs` | its inductive invariant and theorems | proofs |
| `HardFilter` | the verdict of a campaign's hard rules over partial facts | pure operators |
| `HardFilterProofs` | a verdict survives whatever was missing | proofs |
| `CandidateWorkflow` | the centre's candidate: admission, visibility, decisions, timeline | component, uses `HardFilter` |
| `CandidateWorkflowProofs` | its inductive invariant and theorems | proofs |
| `CandidateConsole` | the candidates' page, its requests and batches, over `CandidateWorkflow` | composition |
| `CandidateConsoleProofs` | the invariant about copies, its theorems and that the page keeps to `CandidateWorkflow` | proofs |
| `MemberAccess` | accounts, sessions, invitations, devices and the requests that change them | component |
| `MemberAccessProofs` | its inductive invariant and theorems | proofs |
| `PageRecovery` | the collection loop in front of its pages: safety gate, recovery, restarts | component |
| `PageRecoveryProofs` | its inductive invariant and theorems | proofs |
| the modules whose names begin with `MC` | values of the constants | for TLC |

### CollectionRun

`campaign[c]`, `ruleVersions[c]` and `runs[r]` are the rows of `campaigns`,
`campaign_rule_versions` and `collection_runs` joined with `run_devices`.  Every
handler of `run-service.ts` runs in a transaction that first locks the row it
changes, so each is one action whose guard is the chain of assertions that throw
and whose effect is the UPDATE.  A handler that throws rolls back and is the
absence of a step.  `failed` is in the transition table but no operation of the
code ever moves a run there, so no action does.  Edits name the version they saw (`UpdateCampaign`);
archival does not, and an archived campaign can still be edited, as in the code.
Progress is a function of four counters and a rule set is a function from the
four stop conditions to a limit, 0 for "not set" (the schema demands at least
1).  `DetermineRunStopReason` is the code's chain of tests in the code's order.

### CollectorSync

`pc` is the await at which `start()` or `collect()` stands.  What the code does
between two awaits is one action; each await on the centre is an action that
includes the handler of `CollectionRun` it calls.  `disk[r]` is the checkpoint
file, `mem` the checkpoint in memory, `loaded` its run, `queue` the batch files,
`ingested` the rows of `creator_observations`, `evidence` the observations with a
confirmed screenshot.  `view` is the status that `start()` read before it opened
the browser, acted upon when it may be stale.  `firstPass` stands for "the
clock of this `collect()` has just started": only then can a batch be left over
from before, and only then does no time pass.

The network is in the actions that end in *Lost*: the request was applied, or
was not, or - batches and reports - is kept in `lateBatches`/`lateReports` and
served at any later moment by `LateBatch`/`LateReport`.  A `Crash` is possible
at every await and loses memory only, because files are written to a temporary
name and renamed.  Members (`Elsewhere`) pause, resume and terminate at any
moment, another device claims ready runs, the operator starts, pauses and
terminates at the machine and closes the browser.

Abstractions, each on the side of more behaviour unless it says otherwise:

- an observation is its identity, run, creator and whether it passes the hard
  rules; the JSON, posts and page parsing are left out;
- the recovery of a page is a wait (`recovering`) that may be entered from any
  pass and left at any time; its steps and their times are `PageRecovery`'s;
- `not_due` of the queue and a retry share `SendLost`, since both save and
  wait; a wait always polls at least once, although a retry time that passed
  during the save itself would make the code skip the poll;
- a revoked device, an upgrade demand and every other 4xx are one refusal;
- the queue's answers `rejected` and `empty` are not modelled: the first needs
  an observation identity of another workspace, the second a queue that was
  emptied between two lines;
- writes to the local disk succeed (less behaviour than the code);
- grant, PUT and confirmation of a screenshot are one step: only the grant
  checks the run's status, so the step stands where the grant does.

`ObservationInvalid` is a batch that the collector's own schema refuses: the
screenshot is in memory by then, so the catch saves a screenshot without a batch.
It does no harm because the next observation sets it anew, passing or not, and that
is what `SyncTypeOK` asks: a batch waits with a screenshot exactly when it passes.

### ObservationDelivery

Three actions, Observe, Accept and Release, of a stop-and-wait sender.
`CollectorSync` implements it under `pending` <- the batches of the checkpoint
files and `delivered` <- `ingested` (`DeliversOnce`).

### MediaLifecycle

`media[m]` is a row of `media_objects`, `objects` the keys in the bucket.  The
two are in different systems and no transaction spans them, so each await is a
step.  A confirmation is `ConfirmMediaUpload` (read and judge the row at the
request's time), `HeadObject`, `ConfirmUpdate` (`WHERE status = 'pending'`).  A
round of the worker is `StartRound`, `SelectRetention`, `SelectOrphans` (the
three queries), `Claim`, `DeleteObject`, `MarkDeleted` for each selected row,
and `EndRound`; `worker[w].todo` keeps the ids *with the status they had when
they were selected*, which is all that the claim compares.  A deletion or a mark
that fails moves on to the next row; anything else that fails, and a restart,
is `AbortRound`.

Abstractions: the three lifetimes and the clock are small numbers in the code's
order, and all hosts read one clock (the code needs them to agree to within the
25 minutes between the end of a signature and the end of a grant); a PUT is
stored in the unit of time in which the bucket accepted it; a URL is signed when
its row is inserted (a collector waits 15 s for both); a refused or repeated
answer that changes nothing is no step; deleting a missing object succeeds, as
in OSS; a run belongs to a campaign of its own; a candidate is the creation time
of a creator's first row.  `campaign.id IS NULL` of the retention query cannot
happen under the foreign keys.  `issueMediaAccessUrl` only reads.

### HardFilter and CandidateWorkflow

`EvaluateHardFilters(rules, facts)` is the code's: `Missing` is null, a rule
answers pass, fail or unknown, and the outcomes combine.  `Completes(full, facts)`
says that `full` fills in what `facts` lacks: hidden numbers and dates, and the
posts of a window that was not read to its end.  What a verdict is judged by is the
verdict over complete facts: none that was reached over less may differ from it.

A candidate is a creator in one campaign: `candidate[c]` is its row, and
`observations`, `reviews`, `outreach`, `timeline`, `candidateTags` and `notes` are
the tables that hang on it.  Every handler runs in a transaction that locks the
candidate's row first, so it is one action guarded by `LockCandidate` (existence
and `assertCandidateAccess`), the expected version and the transition table;
throwing is no step.  `appendCandidateNote` has no transaction: `CheckNote`,
`InsertNote`, `AnnounceNote`, `AnswerNote` and `AbandonNote` are its statements.
`candidateVisibilityPredicate`, `firstVisibleAt` and `visibleObservationIds` are the
three SQL expressions of `candidate-access.ts`, each written out on its own, so that
their agreement is a property and not a definition.  `StoredFacts` is an
observation as its rows can be read back: what the listing of a run recomputes.

Abstractions: one campaign, whose rule versions are the runs' snapshots; a date is
the position in the order of arrival; contact data are one value; tag names are
compared by `Fold`, the collation's equality.

### CandidateConsole

`page[v]` is what the component's `useState` holds: the listed rows with their
versions, the selection, the opened candidate, the detail, the mounted form and
its owner selector.  `listing`, `more`, `fetch`, `save` and `batch` are requests
under way; each is answered late, in any order, or not at all.  Rows are read at the
centre (`ReadList`, `ReadMore`) before they arrive at the page (`ListArrives`,
`MoreArrives`), and a colleague may write in between, so a row may be older than the
centre, or no longer of the view, when it is listed.  A newer request for the first
rows takes the place of the older one (AbortController) and disowns a request for
further rows (the `libraryRequest` counter, `Disowned`), whose answer is then
dropped.  A detail is read
by several queries of one request without a transaction, so `ReadEvidence`,
`ReadVersion` and `ReadWorkflow` are three steps.  A newer request for a detail makes
the answer of an older one void.  A form that the page gives up while it is on its way
stays in `late`, and the centre may serve it at any later time (`AcceptLate`).
`AddedRowsAreOfTheView` is about the rows that nobody wrote after the read: of those,
none of another view reaches the list.  A batch is one transaction per item with the
workflow's own handlers; the page may give up while it runs, and a second batch
may then overlap it.  Items are independent of each other, so one candidate in two
batches suffices.  `Colleague` is any write of another member.

Left out: tag and note forms (they carry no version), the button that restores an
archived candidate from the list, two requests for more rows that the page still waits
for, and media links.  The list of members that the owner selector offers is taken as
loaded, and the contact form sends an owner and one value for all of its other fields:
what was shown in them or typed.  `ConsoleTypeOK` is proved and not one of the properties of the run.

### MemberAccess

A browser request is `Authorize`d with the role its session has *then*; the work
comes later.  `requests[q]` says how far it is: reads, row locks that it holds, the
password hash during which nothing is locked, and the commit.  `memberLock` is the
lock over the members' rows taken by `lockWorkspaceMembers`; `InvitationLocked`,
`CodeLocked`, `OwnerLocked` and `CountedAsAdmin` are the rows that `FOR UPDATE`
holds and that another writer waits for.  A wait is the absence of a step.
`Refuse` ends a request at any point, with its locks: an error, a rollback, a
server that stops.

Abstractions: an address, a hash or a token is an identity; an expired invitation
or code is one that nobody uses any more; a session ends at any time; the lists,
last-seen times and audit rows are left out.

### PageRecovery

`loop.phase` is the await at which `collect()` stands, `recovery` the recovery part
of the checkpoint, `outcomes` what the checkpoint counted for each author.  A page
is a set of signals and `detectCollectionSafetyIssue` returns the foremost in the
order of the code's tests; how text and DOM give a signal is abstracted.  A cycle
is `BeginRecovery` (at the stage that `recoveryStartIndex` gives), `WaitSlice`,
`WaitOver`, then `RenewPage` or `RestartBrowser`, judged by another look; a cycle
that is exhausted cools down (feed) or skips the author.  `CheckProfile` is the
second look at an author's page after the recovery.  `Crash`, `OperatorStops`,
`OperatorCloses`, `RemoteChanges`, `Fails` and a site that is bad until
`WeatherClears` surround it.

Time is in ticks; a restart is kept as its age.  The limit is over the instants at
which restarts are *decided*, as the code records them: a wait stretched by a
sleeping machine may bring the restarts themselves closer together.  The record is
saved before each await, so one variable is memory and disk.  The delivery of an
observation is `CollectorSync`'s; here it ends with the save.  A feed that was
redirected within the site (`reloadRecommendationFeed`) is repaired a limited number
of times and then pauses, which `Fails` includes.

## 3. Runs

| Run | Instance | What it shows |
|---|---|---|
| `collection_run` | 1 campaign with 3 versions, 2 runs, 2 devices, 2 rule sets, reports up to 2 | rows judged by their own snapshot |
| `collector_sync` | 1 run, 2 creators, 3 feed items, 2 observations, 2 requests under way | exactly-once delivery, balanced counters |
| `two_runs` | 2 runs, 1 creator each, 2 observations | restart and switching between runs |
| `sync_liveness` | 1 run that ends by elapsed time, 2 units to the minute, fair event loop | a resumed run flushes before it completes; controls, terminations and retries come to an end |
| `media_lifecycle` | 1 screenshot, 1 confirmation at a time, 2 workers, orphan path on, times 0..4 | rows agree with objects; what may be given up and when |
| `media_liveness` | 3 screenshots, batches of 2, 1 undeletable object | every other grant is settled |
| `candidate_workflow` | 1 candidate, 2 runs with different rules and owners, an administrator and an operator, 2 observations, 3 events, 2 spellings of a tag, 1 note | the tables of a candidate agree |
| `candidate_console` | 1 page, 1 colleague, 1 candidate, 3 views, 2 batches, 3 clicks, 2 events, 1 owner to choose | decisions are made on what was shown; lists keep to their view |
| `member_access` | 3 accounts, 2 addresses, 2 invitations, 2 sessions, 1 code, 1 device, 2 requests at once | administrators, invitations and devices under races |
| `page_recovery` | 1 author, pages with a fault, a person's task, both, or low confidence; the third restart in 5 ticks is refused; fair loop | restarts, people, outcomes, the feed |
| `owner_overwrite`, `late_fault` | instances of the last modules | disagreements with the documentation, section 6 |

`collection_run` checks the type invariant, `CompletionMatchesRules` and, over
steps, `SnapshotIsolation`; the other four properties of the module
(`EndIsRecorded`, `ClaimedByOneDevice`, `TerminalRunsAreFrozen`,
`ProgressNeverRegresses`) are proved and not run.  Two devices are enough for a
race of claims, two runs for two snapshots of one campaign, three versions for
an edit before, between and after them; one rule set makes two conditions
compete and the other uses the scaled clock.

`collector_sync` checks `CheckpointConservation` (the candidates a checkpoint
counts are the passing observations at the centre and the outstanding one),
`EvidenceBeforeRelease`,
`ServerCountsBehindCheckpoint` and the refinement `DeliversOnce`.  Two
observations give one that is delivered while another is outstanding; two late
requests give a late batch beside its own retry, or beside a late report.  `two_runs` checks
`QueueMatchesCheckpoint`, `PendingCheckpointIsLoaded` and
`TerminateKeepsEvidence`; `sync_liveness` checks `CompletionDrainsPending`, without
late reports: with one it is false, since a report sent before a crash may be served
while the restarted collector flushes, and complete the run under it.

The media runs use lifetimes 1 (signature), 2 (grant), 2 (grace) and 3
(retention).  A confirmation, repeated as often as it fails, races the claims of
two overlapping workers; time 4 lets a row be confirmed late and still pass
retention; two workers suffice for every overlap because a step depends on the
row and on one round only, and `MediaLifecycleProofs` covers any number of both.
Properties are about one row at a time, so one row is enough for safety; the
batch limit couples rows, and `media_liveness` has more rows than a batch.  It
has fewer undeletable objects than a batch: as many as a batch would occupy the
head of `ORDER BY created_at` for ever and starve the rest, and the property
then fails.

`candidate_workflow`: one candidate is enough because no handler reads two, and
the vocabulary of tags, which candidates share, only grows; two owners of runs make
every case of visibility (own observation, assigned, both, neither), two
observations put an admitting and a non-admitting verdict in either order, and
three events hold a decision, a move and its reversal.  The facts leave a verdict
open in each of the ways the rules know; the complete facts they are compared with
are listed in `MCCandidateWorkflow`.  `HardFilterProofs` covers all others.

`candidate_console`: three clicks open a candidate, save and go on, or change the
view during a request and click again; the bound is on what the member does, not on
answers, reads or the colleague's writes, which `MaxEvents` bounds.  `late` has no
bound of its own, since each form in it was a click.  One candidate is enough for rows,
because they do not meet on the list; it also means that a batch has one item, and that
what a batch meets on its way is another batch, a form or a colleague, never an item of
its own.  `DecisionsUseDistinctVersions`, `InformedDecisions` (forms, not batches) and
the others are proved for any number of candidates.

`member_access`: two requests race for a row, and `MemberAccessProofs` covers any
number of them.  Three accounts are an administrator, a second one, and one who is
invited; `InvitedRoles` and `RolesTried` keep the roles that matter to a count of
administrators.

`page_recovery`: the recurrence window (1 tick for 2 minutes) is shorter than the
window of the limit (5 ticks for an hour), and the limit is the code's (the third
restart is refused), so that recurrences, refusals and forgetting all happen; one
author is enough because `outcomes` of two never meet; the low-confidence policy
pauses at the first page.

Bounds: `MaxClock` (the last grant is a grant's life before it, so that every
grant can expire), `MaxCampaignVersion`, `MaxFeedItems`, `MaxElapsed`,
`MaxObservations`, `MaxLate`, `MaxEvents`, `MaxClicks` and `MaxCycles` bound counters
and identities; each bound disables the action that would pass it and nothing else.  `CHECK_DEADLOCK FALSE` is used throughout
because the system may stop: every run has ended, or a bound is reached.
Creators, runs, batches, accounts and requests are symmetric in the runs that say so; no liveness property is
checked under symmetry.

### Fairness

`FairSyncSpec` assumes weak fairness of the collector's own steps - the event
loop resumes an await that has an answer or a timeout, and every request and page operation has one -
and strong fairness of `SendAnswered` and `EvidenceAnswered`: a centre that can
serve a request again and again serves it at last.  Nothing is assumed of the
operator, of members, of crashes, of lost requests or of the browser.

`FairSpec` of `MediaLifecycle` assumes that time passes, that the timer starts
rounds and that calls return (weak fairness), and that a failure does not hit
the same step for ever (strong fairness of the claim of each row, of deletions
and of marks).  It assumes nothing of uploads and confirmations.

`FairRecoverySpec` assumes weak fairness of the loop's own steps: every wait is a
timer and every call of the browser and of the centre has a time limit.  Nothing
is assumed of the site: `FeedComesBack` speaks of the time after it works again.

## 4. Proofs

`CollectionRunProofs` proves all seven properties of `CollectionRun` for any
sets of campaigns, runs and devices, any rule sets and any reports, from
`ConstantsAssumption` (limits are naturals and each rule set sets one; a minute
has at least one second; the sentinels are no real values).

The type invariant is not inductive for the other properties.  `IInv` adds, per
row (`RowOK`), that its completion and end mark agree with the rules of its own
snapshot and that a run past `ready` has an owner: without the last,
`ClaimedByOneDevice` cannot be shown of a report.  The argument is by row:
`ClaimedRow`, `MovedRow` and `ReportedRow` show what one operation makes of a
row that satisfies `RowOK`; `RowUpdate` lifts that to the table; `CampaignStep`
and `CreateStep` show that edits leave snapshots alone and that a new version
does not disturb the old ones (an `Append` keeps every index).  `NextInvariant`
combines them, with one case per action, and also yields the step property
(`StepOK`) from which the four action properties follow.  Two lemmas are about
the stop conditions: `StopReasonType` (the priority order never hides that a
condition is reached) and `NothingReachedAtZero` (a new run has reached none,
because a limit is at least 1).

`MediaLifecycleProofs` proves all six safety properties of `media_lifecycle` for
any numbers of rows, requests and workers and any lifetimes with
`MediaAssumption`: the signature ends before the grant, and neither grace nor
retention is shorter than the signature.  No property is inductive, because a
confirmation, a selection and a claim outlive the state they read.  `IInv` adds
what stays true meanwhile: `ConfirmationOK` (after the HEAD, a row that is still
pending has its object), `SelectedOK` (a row selected as confirmed was old
enough, and its campaign is archived or it is an orphan's), `OrphanOK` (a
candidate of its creator is younger than the round), `RoundOK` (a claimed row
never comes back; at the mark its object is gone) and `RowOK` (a row given up is
past its PUT deadline and past `Keep`).  There is one lemma per action;
`OnlyAClaimGivesUp` shows that no other step takes a confirmed row, from which
the two action properties follow.

`HardFilterProofs` proves for any rules, posts and numbers that a verdict other than
unknown is the verdict of every completion (`VerdictIsSound`), and that complete
facts are decided (`TruthIsDecided`).  The argument is per rule: completing the
facts only adds to the matching posts, and every post that is added was counted as
uncertain before or lies in a window that was not read to its end.

`CandidateWorkflowProofs` proves the six properties of `candidate_workflow` for any
members, creators, runs, rules, facts and tags, from the module's assumption on its
constants.  `IInv` adds to the type invariant `Latest` (the row's latest
observation is stored), `Blank` (nothing is decided about a creator before it is
a candidate), `Dated` (an owner has a date) and `NotesInWork` (a note between its
statements is where its step says): without `Latest` and `Dated` a candidate could
be visible and have nothing to show, and without `NotesInWork` nothing is known of
a note when it is answered.  There is one lemma per handler and conjunct that it
can disturb.

`MemberAccessProofs` proves the four properties of `member_access` and the type
invariant for any numbers of accounts, sessions, devices and requests.  None is
inductive, because a request outlives what it read.  `Fits` says that a request's
locks keep it true: the holder's count of administrators is not above the present
one, an invitation that is being accepted is open, the owner of a device that is
being paired is active; `Alone` that no two requests hold one row.

`PageRecoveryProofs` proves `RestartsAreLimited`, `PeopleComeFirst`,
`OneOutcomePerAuthor` and the type invariant for any authors, pages, waits, windows
and limits.  The limit is inductive only with the fact that a restart is recorded
before it is waited for: the restarts carried out are among those recorded, and
whoever waits for a restart found the record below the limit.

`CollectorSyncProofs` proves the seven safety invariants of the three collector
runs, the step property `TerminateKeepsEvidence` and the refinement `DeliversOnce`,
for any numbers of runs, creators, devices and requests under way, with crashes at
every await.  None is inductive.  `SyncInv` is the conjunction of

- `IInv` of `CollectionRunProofs`: what the centre knows of a run.  It gained one
  conjunct for this use: a run that nobody has claimed has counted nothing;
- `SyncTypeOK`;
- `FilesOK`: memory differs from the file of its run in the clock only (`Mirrors`),
  at most one file holds a batch, and it is the loaded run's unless the process is
  off; the queue and the late requests hold only that batch or what the centre has;
- `AwaitsOK`: what each await may rely on, for instance that the batch is at the
  centre from the acknowledgement on, and its screenshot when it is cleared.  This is
  the part that a crash destroys and a restart builds up again from the file;
- `CountersOK`: no report, stored or on its way, is ahead of the file.

The steps are sorted by what they do to the files (`FileStep`): a batch is made
(`Observed`), let go (`Released`), or neither (`Kept`, which includes its delivery).
Those are the three actions of `ObservationDelivery` and its stutter, which gives the
refinement (`ObservationsAreDeliveredOnce`); with the cardinality of the observations
of a run they give the books (`BooksBalance`).  What the centre may do meanwhile
without this device is `QuietCentre`, one lemma per handler.  That a run completes
only with an empty hand (`CompletionFollowsDelivery`) needs one more invariant, that
the loop does not look for creators of a completed run, and the hypothesis that no
report is served late.
The hypothesis is needed, and the collector's 15 s timeout does not give it: section 3
says how a late report completes a run under the collector's feet.  Three theorems about `CollectionRun`
(`SyncRunsCompleteByTheirRules`, `SyncEndedRunsStay`, `SyncProgressGrows`) are restated
for the composition, where the device's actions come with its process.

`CandidateConsoleProofs` proves the four properties of `candidate_console` and
`ConsoleTypeOK` for any members, viewers, candidates, views, batches and bounds.  The
argument is about copies.  Each write of the centre raises the version of the row that
it changes (`Ages`), and a detail is read version first; so a part of a copy that still
has the version of its row *is* the row.  `ConsoleInv` says so of each copy on its way
from a request (as far as it has been read, `FetchIsCopy`) to the page, to the form
that is submitted over it and to the forms in `late`, beside the types of all of them
and `IInv` of `CandidateWorkflowProofs`.  Of a row under way it says that, while it has
the candidate's version, the candidate is of the view that was *asked for*, and of a
request that the page still waits for, that this is the view that is on; the two give
`AddedRowsAreOfTheView`.  `InformedDecisions` follows because a form is accepted only
at the version of its copy; that no version carries two decisions follows because a
decision is appended under the version it replaces (`Decided`).  `PageMove`,
`FetchMove`, `SaveMove` and `BatchesMove` say what one step may do to each kind of
request, so that the proof has a case per variable instead of one per action and
variable.  `ConsoleImplementsWorkflow` shows that the composition is a behaviour of
`WorkflowSpec`, so every theorem of `CandidateWorkflowProofs` holds of it.

Left to TLC: liveness under fairness (`sync_liveness`, `media_liveness`,
`FeedComesBack`): it rests on ENABLED, which the prover does not handle.  The two
properties of section 6 that TLC refutes are false, so there is nothing to prove.

## 5. Properties and mutants

Each property of a passing run has a mutant in the module itself, next to the
definition it changes and marked `(mutant)`: a plausible bug (a dropped guard,
an off-by-one, a missing save) with which TLC finds that property violated.

## 6. Where the code and its documents disagree

Two runs expect a violation:

- **`OwnerNotReverted`** (`apps/web/src/pages/CandidatesPage.tsx:716`,
  `OwnerOverwrite.cfg`).  The owner selector keeps the value of the first detail;
  after a save the detail and its outreach version are fetched anew and the
  selector is not.  A colleague's assignment made in between is taken back by the
  next contact form, without the conflict that
  `openspec/specs/creator-review-and-outreach/spec.md:35` promises.
- **`FaultsAreNotPaused`** (`collector/runtime.ts:588`, `627`, `LateFault.cfg`).  The
  second look at an author's page pauses the run for a transient fault too, which
  `openspec/changes/stabilize-long-running-collection/specs/douyin-local-collection/spec.md:23`
  forbids at its first appearance.  A browser that does not start during an
  author's recovery pauses the run in the same way.

Seven more configurations beside them reproduce disagreements in the same manner
(`tlc -config X.cfg` on the module named; each finds its property violated):

- **`ReportsNeverRegress`** (`collector/runtime.ts:459`; `MCCollectorSync`,
  `ElapsedRegression.cfg`).  The report carries elapsed time that no checkpoint
  holds yet.  After a crash the collector resumes from the older value and its
  first report regresses; the centre refuses it and the run pauses - every time it
  is started, because the first pass of a `collect()` adds no time.
  `docs/releases/collector-v0.1.9.md:23` tells operators to close and continue.
- **`PendingRunCanContinue`** (`collector/runtime.ts:334`; `MCCollectorSync`,
  `WebTermination.cfg`).  A run terminated on the web while a batch is on the
  machine can neither be continued nor be left for another run, though the
  message asks to continue it.
- **`OutageKeepsWaiting`** (`collector/runtime.ts:1070`; `MCCollectorSync`,
  `OutageWait.cfg`).  The wait between retries polls the centre and does not catch
  its failure;
  `openspec/changes/keep-runs-alive-through-recoverable-failures/specs/douyin-local-collection/spec.md:69`
  says that the run is not paused.
- **`BrowserClosePausesRun`** (`collector/runtime.ts:357`; `MCCollectorSync`,
  `BrowserClose.cfg`).  A browser closed during a recovery wait ends the loop by an
  error whose handler returns before it asks the centre to pause;
  `apps/collector/src/runtime-recovery.test.ts:961` says that it pauses.
- **`CandidateKeepsMedia`** (`domain/media/media-cleanup.ts:150`;
  `MCMediaLifecycle`, `OrphanReview.cfg`).  The orphan path asks for candidates in
  its query and not in its claim; a candidate created while the round works through
  its batch loses the screenshot that `docs/operations/admin-guide.md:98` promises
  to keep.  What does hold, and is proved, is `OnlyNewCandidatesAtRisk`.
- **`DisabledMembersHaveNoSession`** (`domain/auth/sessions.ts:73`;
  `MCMemberAccess`, `LoginRace.cfg`).  A log-in that read an active account opens its
  session after the account was disabled and its sessions ended;
  `openspec/specs/internal-access-control/spec.md:34` says that no session stays.
  The session is refused while the account is disabled and works again if it is
  enabled.

- **`BatchesAreOfTheActiveList`** (`apps/web/src/pages/CandidatesPage.tsx:112`;
  `MCCandidateConsole`, `ArchivedBatch.cfg`).  Switching from the archived view to the
  active one leaves the archived rows listed, and tickable, until the new list is there,
  and for good if it never comes; the centre does not refuse an archived candidate in a
  batch.  The page's own text (`CandidatesPage.tsx:391`) says that batches are done in
  the active list.

One is a matter of wording: `collector/runtime.ts:834` says that a refused restart
leads to the longest cooling, while the wait follows the number of cycles.

## 7. Not modelled, and why

- Page parsers (`packages/platform-douyin`), the text and DOM tests of the safety
  gate, legacy import, configuration, export: text and formats, pure functions.
- The audit log, the dashboard, listings, the diagnostics and recovery logs:
  append-only writes and queries that nothing decides upon.
- The other pages of the console: each sends one request and reloads; their
  requests are actions of `CollectionRun` and `MemberAccess`.
- Templates and copies of campaigns: rows that only a member's form reads.
- `domain/database/migrations.ts`: applied once at start-up under an advisory lock.
- `collector/device-identity.ts`, `browser-profiles.ts`: files of one process whose
  mutating requests the control server serves one at a time.
- A local disk that fails: the one fault of the collector that `CollectorSync` and
  `PageRecovery` do not have.  The code lets the error end the loop with memory
  ahead of the file, as a crash before the save does.
- The duplicate screenshot after a lost confirmation (`collector/media-upload.ts:122`)
  and the version that `archiveCampaign` returns
  (`domain/campaigns/campaign-service.ts:256`): neither is part of the state that
  another operation reads.

Every safety property that a passing run checks is stated by a theorem.  What could
still be proved is the agreement of `MediaLifecycle` and `MemberAccess` with abstract
specifications of their own, which this project does not state.
