-------------------------- MODULE MediaLifecycle --------------------------
(***************************************************************************)
(* The life of a screenshot: its row in media_objects, its object in the   *)
(* private bucket, the API's handlers that grant and confirm an upload     *)
(* (packages/domain/src/media/media-service.ts) and the worker that claims *)
(* and deletes what nobody needs (media-cleanup.ts, apps/worker).          *)
(*                                                                         *)
(* The row and the object live in two systems and no transaction spans     *)
(* them, so every await is a step of its own: the HEAD between the read    *)
(* and the update of a confirmation, the selection, the claim, the         *)
(* deletion and the mark of a cleanup.  An answer that is "no change"      *)
(* (a refused grant, a confirmation of a confirmed row) is no step.        *)
(***************************************************************************)
EXTENDS Integers, FiniteSets

CONSTANTS
  Media,                \* rows of media_objects
  Creators, NoCreator,  \* NoCreator: the row names a post observation
  Runs,                 \* collection runs, one to a campaign
  Requests,             \* confirmations the API may serve at a time
  Workers,              \* worker processes (two while one replaces another)
  NoMedia,
  SignedTTL,            \* life of a signed PUT URL (5 minutes)
  PendingTTL,           \* life of an unconfirmed row (30 minutes)
  Grace,                \* ORPHAN_MEDIA_GRACE_DAYS
  Retention,            \* MEDIA_RETENTION_DAYS
  BatchSize,            \* MEDIA_CLEANUP_BATCH_SIZE
  OrphanCleanupEnabled, \* ORPHAN_MEDIA_CLEANUP_ENABLED
  Undeletable,          \* objects whose deletion the bucket always refuses
  MaxClock              \* bound on time

\* Days are longer than the signature and the signature ends before the row.
ASSUME MediaAssumption ==
  /\ SignedTTL \in Nat \ {0} /\ PendingTTL \in Nat
  /\ Grace \in Nat /\ Retention \in Nat
  /\ SignedTTL < PendingTTL /\ SignedTTL <= Grace /\ SignedTTL <= Retention
  /\ BatchSize \in Nat \ {0} /\ MaxClock \in Nat
  /\ OrphanCleanupEnabled \in BOOLEAN
  /\ NoCreator \notin Creators /\ NoMedia \notin Media

VARIABLES
  clock,
  running,     \* runs in status 'running'
  archived,    \* runs whose campaign is archived
  candidates,  \* candidates[c]: when c got its first candidate row, or Never
  media,       \* media[m]: its row
  objects,     \* the keys that are in the bucket
  confirming,  \* confirming[q]: a confirmation between two of its awaits
  worker       \* worker[w]: a round of the cleanup between two of its awaits

vars == <<clock, running, archived, candidates, media, objects, confirming, worker>>

-----------------------------------------------------------------------------
(* Data.                                                                   *)

Never == -1
Statuses == {"pending", "confirmed", "expired", "deleted"}

Row == [status : Statuses \cup {"none"}, run : Runs, subject : Creators \cup {NoCreator},
        createdAt : Nat, confirmedAt : Nat \cup {Never}]

Confirmation == [at : {"idle"}] \cup [at : {"head", "update"}, id : Media, now : Nat]
NoConfirmation == [at |-> "idle"]

\* What a query of the cleanup returns: an id and the status it had then.
Selected == [id : Media, status : {"pending", "confirmed", "expired"}]

Round == [path : {"idle", "unconfirmed", "retention", "orphan"}, now : Nat,
          todo : SUBSET Selected, at : {"loop", "delete", "mark"},
          row : Media \cup {NoMedia}]
NoRound == [path |-> "idle", now |-> 0, todo |-> {}, at |-> "loop", row |-> NoMedia]

PutDeadline(m) == media[m].createdAt + SignedTTL
ExpiresAt(m) == media[m].createdAt + PendingTTL

Init ==
  /\ clock = 0
  /\ running = Runs
  /\ archived = {}
  /\ candidates = [c \in Creators |-> Never]
  /\ media \in [Media -> {[status |-> "none", run |-> r, subject |-> NoCreator,
                           createdAt |-> 0, confirmedAt |-> Never] : r \in Runs}]
  /\ objects = {}
  /\ confirming = [q \in Requests |-> NoConfirmation]
  /\ worker = [w \in Workers |-> NoRound]

-----------------------------------------------------------------------------
(* The surroundings: time, the runs, the campaigns, the candidates.        *)

Tick ==
  /\ clock < MaxClock
  /\ clock' = clock + 1
  /\ UNCHANGED <<running, archived, candidates, media, objects, confirming, worker>>

\* A run is paused, resumed or ended (CollectionRun tells how).
ChangeRunStatus(r) ==
  /\ running' = IF r \in running THEN running \ {r} ELSE running \cup {r}
  /\ UNCHANGED <<clock, archived, candidates, media, objects, confirming, worker>>

\* Archiving is for good: no operation makes a campaign active again.
ArchiveCampaign(r) ==
  /\ r \notin archived
  /\ archived' = archived \cup {r}
  /\ UNCHANGED <<clock, running, candidates, media, objects, confirming, worker>>

\* A batch whose author passes the hard filter; no candidate is ever removed.
\* Only the first candidate of a creator tells the cleanup anything new.
FindOrCreateCandidate(c) ==
  /\ candidates[c] = Never
  /\ candidates' = [candidates EXCEPT ![c] = clock]
  /\ UNCHANGED <<clock, running, archived, media, objects, confirming, worker>>

-----------------------------------------------------------------------------
(* The upload.                                                             *)

\* The URL is signed when the row is in; whether its answer arrives is PutObject.
IssueMediaUpload(m, r, c) ==
  /\ media[m].status = "none"
  /\ r \in running
  /\ clock + PendingTTL <= MaxClock
  /\ media' = [media EXCEPT ![m] = [status |-> "pending", run |-> r, subject |-> c,
                                    createdAt |-> clock, confirmedAt |-> Never]]
  /\ UNCHANGED <<clock, running, archived, candidates, objects, confirming, worker>>

\* (mutant) The two lifetimes are swapped: the URL outlives the row's grant.
PutObjectUntilRowExpires(m) ==
  /\ media[m].status # "none"
  /\ m \notin objects
  /\ clock <= ExpiresAt(m)
  /\ objects' = objects \cup {m}
  /\ UNCHANGED <<clock, running, archived, candidates, media, confirming, worker>>

\* The bucket takes a PUT as long as the signature is valid, the first time,
\* again, or long after the collector gave up waiting for it.
PutObject(m) ==
  /\ media[m].status # "none"
  /\ m \notin objects
  /\ clock < PutDeadline(m)
  /\ objects' = objects \cup {m}
  /\ UNCHANGED <<clock, running, archived, candidates, media, confirming, worker>>

\* The row is read and judged at the time the request came in.
ConfirmMediaUpload(q, m) ==
  /\ confirming[q] = NoConfirmation
  /\ media[m].status = "pending"
  /\ ExpiresAt(m) > clock
  /\ confirming' = [confirming EXCEPT ![q] = [at |-> "head", id |-> m, now |-> clock]]
  /\ UNCHANGED <<clock, running, archived, candidates, media, objects, worker>>

HeadObject(q) ==
  /\ confirming[q].at = "head"
  /\ confirming[q].id \in objects
  /\ confirming' = [confirming EXCEPT ![q].at = "update"]
  /\ UNCHANGED <<clock, running, archived, candidates, media, objects, worker>>

\* (mutant) The update trusts the status that was read before the HEAD.
UpdateUnguarded(q) ==
  /\ confirming[q].at = "update"
  /\ media' = [media EXCEPT ![confirming[q].id] = [@ EXCEPT !.status = "confirmed",
                                                            !.confirmedAt = confirming[q].now]]
  /\ confirming' = [confirming EXCEPT ![q] = NoConfirmation]
  /\ UNCHANGED <<clock, running, archived, candidates, objects, worker>>

\* UPDATE ... WHERE status = 'pending': no row, no confirmation.
ConfirmUpdate(q) ==
  /\ confirming[q].at = "update"
  /\ LET m == confirming[q].id
     IN media' = IF media[m].status = "pending"
                   THEN [media EXCEPT ![m] = [@ EXCEPT !.status = "confirmed",
                                                       !.confirmedAt = confirming[q].now]]
                   ELSE media
  /\ confirming' = [confirming EXCEPT ![q] = NoConfirmation]
  /\ UNCHANGED <<clock, running, archived, candidates, objects, worker>>

\* The object is missing or differs, the bucket, the database or the API fails.
ConfirmFails(q) ==
  /\ confirming[q] # NoConfirmation
  /\ confirming' = [confirming EXCEPT ![q] = NoConfirmation]
  /\ UNCHANGED <<clock, running, archived, candidates, media, objects, worker>>

-----------------------------------------------------------------------------
(* The cleanup.                                                            *)

\* ORDER BY time LIMIT BatchSize: rows of one age come in any order.
Oldest(S, time) ==
  {T \in SUBSET S : /\ Cardinality(T) = IF Cardinality(S) < BatchSize THEN Cardinality(S)
                                                                     ELSE BatchSize
                    /\ \A m \in T, n \in S \ T : media[m][time] <= media[n][time]}

AsSelected(S) == {[id |-> m, status |-> media[m].status] : m \in S}

\* (mutant) Rows that are already deleted are selected again.
UnconfirmedAndDeleted(now) ==
  {m \in Media : \/ media[m].status = "pending" /\ ExpiresAt(m) <= now
                 \/ media[m].status \in {"expired", "deleted"}}

\* (mutant) Rows that a failed round left behind are not taken up again.
UnconfirmedOnly(now) ==
  {m \in Media : media[m].status = "pending" /\ ExpiresAt(m) <= now}

Unconfirmed(now) ==
  {m \in Media : \/ media[m].status = "pending" /\ ExpiresAt(m) <= now
                 \/ media[m].status = "expired"}

\* (mutant) Age alone decides.
OutOfRetentionOfAnyCampaign(now) ==
  {m \in Media : /\ media[m].status = "confirmed"
                 /\ media[m].confirmedAt <= now - Retention}

OutOfRetention(now) ==
  {m \in Media : /\ media[m].status = "confirmed"
                 /\ media[m].confirmedAt <= now - Retention
                 /\ media[m].run \in archived}

\* (mutant) The creator's candidates are not looked at.
OrphansAndReferenced(now) ==
  {m \in Media : /\ OrphanCleanupEnabled
                 /\ media[m].status = "confirmed"
                 /\ media[m].confirmedAt <= now - Grace
                 /\ media[m].subject # NoCreator}

\* The JOIN leaves out rows that name a post observation.
Orphans(now) ==
  {m \in Media : /\ OrphanCleanupEnabled
                 /\ media[m].status = "confirmed"
                 /\ media[m].confirmedAt <= now - Grace
                 /\ media[m].subject # NoCreator
                 /\ candidates[media[m].subject] = Never}

\* cleanupRunning keeps the rounds of one process apart.
StartRound(w) ==
  /\ worker[w].path = "idle"
  /\ \E batch \in Oldest(Unconfirmed(clock), "createdAt") :
       worker' = [worker EXCEPT ![w] =
         [path |-> "unconfirmed", now |-> clock, todo |-> AsSelected(batch),
          at |-> "loop", row |-> NoMedia]]
  /\ UNCHANGED <<clock, running, archived, candidates, media, objects, confirming>>

RowsDone(w) == worker[w].at = "loop" /\ worker[w].todo = {}

SelectRetention(w) ==
  /\ worker[w].path = "unconfirmed" /\ RowsDone(w)
  /\ \E batch \in Oldest(OutOfRetention(worker[w].now), "confirmedAt") :
       worker' = [worker EXCEPT ![w] = [@ EXCEPT !.path = "retention",
                                                 !.todo = AsSelected(batch)]]
  /\ UNCHANGED <<clock, running, archived, candidates, media, objects, confirming>>

SelectOrphans(w) ==
  /\ worker[w].path = "retention" /\ RowsDone(w)
  /\ \E batch \in Oldest(Orphans(worker[w].now), "confirmedAt") :
       worker' = [worker EXCEPT ![w] = [@ EXCEPT !.path = "orphan",
                                                 !.todo = AsSelected(batch)]]
  /\ UNCHANGED <<clock, running, archived, candidates, media, objects, confirming>>

EndRound(w) ==
  /\ worker[w].path = "orphan" /\ RowsDone(w)
  /\ worker' = [worker EXCEPT ![w] = NoRound]
  /\ UNCHANGED <<clock, running, archived, candidates, media, objects, confirming>>

\* The row at hand has the claim, or the loop goes on without it.
Claimed(w, s) ==
  [worker EXCEPT ![w] = [@ EXCEPT !.todo = worker[w].todo \ {s}, !.at = "delete", !.row = s.id]]
NextRow(w) == [worker EXCEPT ![w] = [@ EXCEPT !.at = "loop", !.row = NoMedia]]

\* (mutant) The claim does not compare the status with the selected one.
ClaimUnguarded(w, s) ==
  /\ worker[w].at = "loop"
  /\ s \in worker[w].todo
  /\ media' = [media EXCEPT ![s.id].status = "expired"]
  /\ worker' = Claimed(w, s)
  /\ UNCHANGED <<clock, running, archived, candidates, objects, confirming>>

\* The next selected row: an expired one is deleted as it is, another one is
\* claimed, if its status is still the selected one, and else skipped.
Claim(w, s) ==
  /\ worker[w].at = "loop"
  /\ s \in worker[w].todo
  /\ IF media[s.id].status = s.status \/ s.status = "expired"
       THEN /\ media' = IF s.status = "expired" THEN media
                        ELSE [media EXCEPT ![s.id].status = "expired"]
            /\ worker' = Claimed(w, s)
       ELSE /\ worker' = [worker EXCEPT ![w].todo = @ \ {s}]
            /\ UNCHANGED media
  /\ UNCHANGED <<clock, running, archived, candidates, objects, confirming>>

DeleteObject(w, m) ==
  /\ worker[w].at = "delete" /\ worker[w].row = m
  /\ m \notin Undeletable
  /\ objects' = objects \ {m}
  /\ worker' = [worker EXCEPT ![w].at = "mark"]
  /\ UNCHANGED <<clock, running, archived, candidates, media, confirming>>

\* The call fails, and the object may be gone all the same.
DeleteObjectFails(w) ==
  /\ worker[w].at = "delete"
  /\ objects' \in {objects, objects \ ({worker[w].row} \ Undeletable)}
  /\ worker' = NextRow(w)
  /\ UNCHANGED <<clock, running, archived, candidates, media, confirming>>

\* UPDATE ... WHERE status = 'expired': another worker may have been first.
MarkDeleted(w, m) ==
  /\ worker[w].at = "mark" /\ worker[w].row = m
  /\ media' = IF media[m].status = "expired"
                THEN [media EXCEPT ![m].status = "deleted"] ELSE media
  /\ worker' = NextRow(w)
  /\ UNCHANGED <<clock, running, archived, candidates, objects, confirming>>

MarkFails(w) ==
  /\ worker[w].at = "mark"
  /\ worker' = NextRow(w)
  /\ UNCHANGED <<clock, running, archived, candidates, media, objects, confirming>>

\* A query or a claim throws, or the process stops: the round is forgotten.
AbortRound(w) ==
  /\ worker[w].path # "idle"
  /\ worker' = [worker EXCEPT ![w] = NoRound]
  /\ UNCHANGED <<clock, running, archived, candidates, media, objects, confirming>>

-----------------------------------------------------------------------------

Surroundings ==
  \/ Tick
  \/ \E r \in Runs : ChangeRunStatus(r) \/ ArchiveCampaign(r)
  \/ \E c \in Creators : FindOrCreateCandidate(c)

Upload ==
  \/ \E m \in Media, r \in Runs, c \in Creators \cup {NoCreator} : IssueMediaUpload(m, r, c)
  \/ \E m \in Media : PutObject(m)
  \/ \E q \in Requests, m \in Media : ConfirmMediaUpload(q, m)
  \/ \E q \in Requests : HeadObject(q) \/ ConfirmUpdate(q) \/ ConfirmFails(q)

Cleanup(w) ==
  \/ StartRound(w) \/ SelectRetention(w) \/ SelectOrphans(w) \/ EndRound(w)
  \/ \E s \in worker[w].todo : Claim(w, s)
  \/ \E m \in Media : DeleteObject(w, m) \/ MarkDeleted(w, m)
  \/ DeleteObjectFails(w) \/ MarkFails(w) \/ AbortRound(w)

Next == Surroundings \/ Upload \/ \E w \in Workers : Cleanup(w)

Spec == Init /\ [][Next]_vars

\* Time passes and the interval timer starts rounds.  Calls to the bucket and
\* the database come back; one that fails now and then does not fail for ever,
\* except for an object in Undeletable.
Fairness ==
  /\ WF_vars(Tick)
  /\ \A w \in Workers :
       /\ WF_vars(StartRound(w))
       /\ WF_vars(SelectRetention(w) \/ SelectOrphans(w) \/ EndRound(w))
       /\ WF_vars(\E m \in Media : DeleteObject(w, m) \/ DeleteObjectFails(w))
       /\ WF_vars(\E m \in Media : MarkDeleted(w, m) \/ MarkFails(w))
       /\ \A m \in Media : SF_vars(\E s \in Selected : s.id = m /\ Claim(w, s))
       /\ SF_vars(\E m \in Media : DeleteObject(w, m))
       /\ SF_vars(\E m \in Media : MarkDeleted(w, m))

FairSpec == Spec /\ Fairness

-----------------------------------------------------------------------------
(* Properties.                                                             *)

\* Every variable has its type.
TypeOK ==
  /\ clock \in 0..MaxClock
  /\ running \subseteq Runs /\ archived \subseteq Runs
  /\ candidates \in [Creators -> Nat \cup {Never}]
  /\ media \in [Media -> Row]
  /\ objects \subseteq Media
  /\ confirming \in [Requests -> Confirmation]
  /\ worker \in [Workers -> Round]

\* A row that members can open has its object: a confirmation whose HEAD was
\* before a claim must lose against it (media-service.ts:297, media-cleanup.ts:150).
ConfirmedHasObject ==
  \A m \in Media : media[m].status = "confirmed" => m \in objects

\* A row marked deleted has no object, now or later: no PUT may still arrive
\* when its row is given up (media-service.ts:21-23, media-cleanup.ts:160).
DeletedIsGone ==
  \A m \in Media : media[m].status = "deleted" => m \notin objects

\* How long a confirmed screenshot is safe from every path of the cleanup.
Keep == IF OrphanCleanupEnabled /\ Grace < Retention THEN Grace ELSE Retention

\* Once confirmed, a screenshot stays confirmed for the whole grace period,
\* whatever selection a slow round still holds (media-cleanup.ts:43-44, 150).
EvidenceSurvivesGrace ==
  \A m \in Media :
    media[m].confirmedAt # Never /\ clock - media[m].confirmedAt < Keep
      => media[m].status = "confirmed"

GivenUp(m) == media[m].status = "confirmed" /\ media'[m].status # "confirmed"

\* As long as a campaign is not archived, its evidence can be taken only as an
\* orphan: with the switch on, and from a creator observation
\* (media-cleanup.ts:82, 91, 120-122).
ActiveEvidenceIsKept ==
  [][\A m \in Media : GivenUp(m) /\ media[m].run \notin archived
        => OrphanCleanupEnabled /\ media[m].subject \in Creators]_vars

\* The orphan path takes nothing from a creator who had a candidate before the
\* round began: the age of its selection is all that can be held against it
\* (media-cleanup.ts:117-136).
OnlyNewCandidatesAtRisk ==
  [][\A w \in Workers : LET m == worker'[w].row IN
        worker[w].path = "orphan" /\ m \in Media /\ GivenUp(m)
          => \/ candidates[media[m].subject] = Never
             \/ candidates[media[m].subject] >= worker[w].now]_vars

\* "As long as the creator has any candidate row in this workspace, all of his
\* media are kept" (docs/operations/admin-guide.md:98).
CandidateKeepsMedia ==
  [][\A m \in Media : GivenUp(m) /\ media[m].run \notin archived
        => candidates[media[m].subject] = Never]_vars

\* Every grant ends confirmed or deleted, although rounds break off and fewer
\* than a batch of objects can never be deleted (media-cleanup.ts:49-52, 166).
EveryGrantIsSettled ==
  \A m \in Media \ Undeletable :
    media[m].status \in {"pending", "expired"} ~> media[m].status \in {"confirmed", "deleted"}
=============================================================================
