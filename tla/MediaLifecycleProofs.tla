----------------------- MODULE MediaLifecycleProofs -----------------------
(***************************************************************************)
(* Theorems about MediaLifecycle, for any number of rows, requests and     *)
(* workers and any lifetimes that satisfy MediaAssumption.                 *)
(*                                                                         *)
(* The inductive invariant says what a step that is still under way may    *)
(* rely on: a confirmation past its HEAD, a row that a round has selected, *)
(* a row that it has claimed.                                              *)
(***************************************************************************)
EXTENDS MediaLifecycle, TLAPS

\* What a row says about its object and about time.
RowOK(m) ==
  /\ media[m].createdAt <= clock
  /\ media[m].status \in {"none", "pending"} => media[m].confirmedAt = Never
  /\ media[m].status = "confirmed" => media[m].confirmedAt # Never /\ m \in objects
  /\ media[m].confirmedAt # Never =>
       media[m].createdAt <= media[m].confirmedAt /\ media[m].confirmedAt <= clock
  /\ media[m].status \in {"expired", "deleted"} => PutDeadline(m) <= clock
  /\ media[m].status \in {"expired", "deleted"} /\ media[m].confirmedAt # Never =>
       media[m].confirmedAt + Keep <= clock
  /\ media[m].status = "deleted" => m \notin objects

\* A confirmation under way: its row was granted before, and if the row is
\* still pending after the HEAD then its object is still there.
ConfirmationOK(q) ==
  confirming[q].at # "idle" =>
    /\ confirming[q].now <= clock
    /\ media[confirming[q].id].status # "none"
    /\ media[confirming[q].id].createdAt <= confirming[q].now
    /\ confirming[q].at = "update" /\ media[confirming[q].id].status = "pending"
         => confirming[q].id \in objects

\* What remains true of a row after a query selected it.
SelectedOK(s) ==
  /\ media[s.id].status # "none"
  /\ s.status = "pending" => ExpiresAt(s.id) <= clock
  /\ s.status = "expired" => media[s.id].status \in {"expired", "deleted"}
  /\ s.status = "confirmed" =>
       /\ media[s.id].confirmedAt # Never
       /\ media[s.id].confirmedAt + Keep <= clock
       /\ media[s.id].run \in archived
            \/ (OrphanCleanupEnabled /\ media[s.id].subject \in Creators)

\* What remains true of a row of the orphan path.
OrphanOK(w, s) ==
  /\ media[s.id].subject \in Creators
  /\ \/ candidates[media[s.id].subject] = Never
     \/ candidates[media[s.id].subject] >= worker[w].now

RoundOK(w) ==
  /\ worker[w].now <= clock
  /\ \A s \in worker[w].todo : SelectedOK(s)
  /\ worker[w].path = "orphan" => \A s \in worker[w].todo : OrphanOK(w, s)
  /\ worker[w].at = "loop" => worker[w].row = NoMedia
  /\ worker[w].at # "loop" =>
       /\ worker[w].row \in Media
       /\ media[worker[w].row].status \in {"expired", "deleted"}
  /\ worker[w].at = "mark" => worker[w].row \notin objects

RowsOK == \A m \in Media : RowOK(m)
ConfirmationsOK == \A q \in Requests : ConfirmationOK(q)
RoundsOK == \A w \in Workers : RoundOK(w)

IInv == TypeOK /\ RowsOK /\ ConfirmationsOK /\ RoundsOK

\* What the queries of the cleanup leave of a round (media-cleanup.ts:57, 91).
LEMMA SelectionStep ==
  ASSUME NEW r \in Round, NEW S \in SUBSET Selected,
         NEW p \in {"unconfirmed", "retention", "orphan"}
  PROVE  LET x == [r EXCEPT !.path = p, !.todo = S]
         IN  /\ x \in Round
             /\ x.path = p /\ x.todo = S
             /\ x.now = r.now /\ x.at = r.at /\ x.row = r.row
  BY DEF Round

\* What the claim of one row leaves of a round (media-cleanup.ts:148-156).
LEMMA ClaimStep ==
  ASSUME NEW r \in Round, NEW s \in Selected
  PROVE  LET x == [r EXCEPT !.todo = r.todo \ {s}, !.at = "delete", !.row = s.id]
         IN  /\ x \in Round
             /\ x.path = r.path /\ x.todo = r.todo \ {s}
             /\ x.now = r.now /\ x.at = "delete" /\ x.row = s.id
  BY DEF Round, Selected

\* What the end of one row leaves of a round (media-cleanup.ts:158-168).
LEMMA NextRowStep ==
  ASSUME NEW r \in Round
  PROVE  LET x == [r EXCEPT !.at = "loop", !.row = NoMedia]
         IN  /\ x \in Round
             /\ x.path = r.path /\ x.todo = r.todo
             /\ x.now = r.now /\ x.at = "loop" /\ x.row = NoMedia
  BY DEF Round

\* An UPDATE of the status leaves the rest of the row alone.
LEMMA StatusRow ==
  ASSUME NEW r \in Row, NEW t \in Statuses
  PROVE  LET x == [r EXCEPT !.status = t]
         IN  /\ x \in Row
             /\ x.status = t /\ x.confirmedAt = r.confirmedAt
             /\ x.run = r.run /\ x.subject = r.subject /\ x.createdAt = r.createdAt
  BY DEF Row, Statuses

\* A query's answer is a set of ids, each with its status.
LEMMA SelectedType ==
  ASSUME media \in [Media -> Row], NEW S \in SUBSET Media,
         \A m \in S : media[m].status \in {"pending", "confirmed", "expired"}
  PROVE  AsSelected(S) \in SUBSET Selected
  BY DEF AsSelected, Selected

\* Time only makes rows older: every fact about time is a lower bound.
LEMMA TickInvariant ==
  ASSUME IInv, Tick PROVE IInv'
<1>. USE MediaAssumption DEF IInv, Tick
<1>1. TypeOK' BY DEF TypeOK
<1>2. RowsOK' BY DEF RowsOK, RowOK, PutDeadline, TypeOK, Row, Keep
<1>3. ConfirmationsOK' BY DEF ConfirmationsOK, ConfirmationOK, TypeOK, Confirmation
<1>4. RoundsOK' BY DEF RoundsOK, RoundOK, SelectedOK, OrphanOK, ExpiresAt, TypeOK, Round,
      Selected, Row, Keep
<1>. QED BY <1>1, <1>2, <1>3, <1>4

\* The status of a run is read by the grant alone.
LEMMA ChangeRunStatusInvariant ==
  ASSUME IInv, NEW r \in Runs, ChangeRunStatus(r) PROVE IInv'
<1>. USE DEF IInv, ChangeRunStatus
<1>1. TypeOK' BY DEF TypeOK
<1>2. RowsOK' BY DEF RowsOK, RowOK, PutDeadline
<1>3. ConfirmationsOK' BY DEF ConfirmationsOK, ConfirmationOK
<1>4. RoundsOK' BY DEF RoundsOK, RoundOK, SelectedOK, OrphanOK, ExpiresAt
<1>. QED BY <1>1, <1>2, <1>3, <1>4

\* Archival is for good, so a selected row stays out of retention.
LEMMA ArchiveCampaignInvariant ==
  ASSUME IInv, NEW r \in Runs, ArchiveCampaign(r) PROVE IInv'
<1>. USE DEF IInv, ArchiveCampaign
<1>1. TypeOK' BY DEF TypeOK
<1>2. RowsOK' BY DEF RowsOK, RowOK, PutDeadline
<1>3. ConfirmationsOK' BY DEF ConfirmationsOK, ConfirmationOK
<1>4. RoundsOK' BY DEF RoundsOK, RoundOK, SelectedOK, OrphanOK, ExpiresAt
<1>. QED BY <1>1, <1>2, <1>3, <1>4

\* A candidate made now is no older than any round (collector-ingestion.ts:378).
LEMMA FindOrCreateCandidateInvariant ==
  ASSUME IInv, NEW c \in Creators, FindOrCreateCandidate(c) PROVE IInv'
<1>. USE DEF IInv, FindOrCreateCandidate
<1>1. TypeOK' BY DEF TypeOK
<1>2. RowsOK' BY DEF RowsOK, RowOK, PutDeadline
<1>3. ConfirmationsOK' BY DEF ConfirmationsOK, ConfirmationOK
<1>4. RoundsOK' BY DEF RoundsOK, RoundOK, SelectedOK, OrphanOK, ExpiresAt, TypeOK, Round
<1>. QED BY <1>1, <1>2, <1>3, <1>4

\* A grant takes a new row that nobody has read (media-service.ts:204).
LEMMA IssueMediaUploadInvariant ==
  ASSUME IInv, NEW m \in Media, NEW r \in Runs, NEW c \in Creators \cup {NoCreator}, IssueMediaUpload(m, r, c) PROVE IInv'
<1>. USE MediaAssumption DEF IInv, IssueMediaUpload
<1>1. TypeOK' BY DEF TypeOK, Row, Statuses
<1>2. RowsOK' BY DEF RowsOK, RowOK, PutDeadline, TypeOK, Row
<1>3. ConfirmationsOK' BY DEF ConfirmationsOK, ConfirmationOK, TypeOK, Confirmation
<1>4. RoundsOK' BY DEF RoundsOK, RoundOK, SelectedOK, OrphanOK, ExpiresAt, TypeOK, Round,
      Selected
<1>. QED BY <1>1, <1>2, <1>3, <1>4

\* A PUT is too late for a row that was given up (media-service.ts:201-202).
LEMMA PutObjectInvariant ==
  ASSUME IInv, NEW m \in Media, PutObject(m) PROVE IInv'
<1>. USE MediaAssumption DEF IInv, PutObject
<1>1. TypeOK' BY DEF TypeOK
<1>2. RowsOK' BY DEF RowsOK, RowOK, PutDeadline, TypeOK, Row
<1>3. ConfirmationsOK' BY DEF ConfirmationsOK, ConfirmationOK
<1>4. RoundsOK' BY DEF RoundsOK, RoundOK, SelectedOK, OrphanOK, ExpiresAt, RowsOK, RowOK,
      PutDeadline, TypeOK, Row
<1>. QED BY <1>1, <1>2, <1>3, <1>4

\* A confirmation begins on a pending row (media-service.ts:257-274).
LEMMA ConfirmMediaUploadInvariant ==
  ASSUME IInv, NEW q \in Requests, NEW m \in Media, ConfirmMediaUpload(q, m) PROVE IInv'
<1>. USE DEF IInv, ConfirmMediaUpload, NoConfirmation
<1>1. TypeOK' BY DEF TypeOK, Confirmation
<1>2. RowsOK' BY DEF RowsOK, RowOK, PutDeadline
<1>3. ConfirmationsOK' BY DEF ConfirmationsOK, ConfirmationOK, TypeOK, Confirmation, RowsOK,
      RowOK
<1>4. RoundsOK' BY DEF RoundsOK, RoundOK, SelectedOK, OrphanOK, ExpiresAt
<1>. QED BY <1>1, <1>2, <1>3, <1>4

\* The HEAD found the object (media-service.ts:285).
LEMMA HeadObjectInvariant ==
  ASSUME IInv, NEW q \in Requests, HeadObject(q) PROVE IInv'
<1>. USE DEF IInv, HeadObject
<1>1. TypeOK' BY DEF TypeOK, Confirmation
<1>2. RowsOK' BY DEF RowsOK, RowOK, PutDeadline
<1>3. ConfirmationsOK' BY DEF ConfirmationsOK, ConfirmationOK, TypeOK, Confirmation
<1>4. RoundsOK' BY DEF RoundsOK, RoundOK, SelectedOK, OrphanOK, ExpiresAt
<1>. QED BY <1>1, <1>2, <1>3, <1>4

\* The UPDATE confirms a row that is still pending, and then the object that
\* the HEAD found is still there (media-service.ts:297-303).
LEMMA ConfirmUpdateInvariant ==
  ASSUME IInv, NEW q \in Requests, ConfirmUpdate(q) PROVE IInv'
<1>. USE MediaAssumption DEF IInv
<1>. DEFINE m == confirming[q].id
<1>1. /\ m \in Media /\ confirming[q].now \in Nat /\ confirming[q].at = "update"
      /\ \A p \in Requests \ {q} : confirming'[p] = confirming[p]
      /\ confirming' \in [Requests -> Confirmation] /\ confirming'[q].at = "idle"
      /\ UNCHANGED <<clock, running, archived, candidates, objects, worker>>
  BY DEF ConfirmUpdate, TypeOK, Confirmation, NoConfirmation
<1>2. CASE media[m].status # "pending"
  <2>1. media' = media BY <1>2 DEF ConfirmUpdate
  <2>2. TypeOK' BY <1>1, <2>1 DEF TypeOK
  <2>3. RowsOK' BY <1>1, <2>1 DEF RowsOK, RowOK, PutDeadline
  <2>4. ConfirmationsOK' BY <1>1, <2>1 DEF ConfirmationsOK, ConfirmationOK
  <2>5. RoundsOK' BY <1>1, <2>1 DEF RoundsOK, RoundOK, SelectedOK, OrphanOK, ExpiresAt
  <2>. QED BY <2>2, <2>3, <2>4, <2>5
<1>3. CASE media[m].status = "pending"
  <2>1. /\ media' \in [Media -> Row]
        /\ \A n \in Media \ {m} : media'[n] = media[n]
        /\ media'[m].status = "confirmed" /\ media'[m].confirmedAt = confirming[q].now
        /\ media'[m].run = media[m].run /\ media'[m].subject = media[m].subject
        /\ media'[m].createdAt = media[m].createdAt
    <3>. DEFINE r == [media[m] EXCEPT !.status = "confirmed", !.confirmedAt = confirming[q].now]
    <3>0. media[m] \in Row BY <1>1 DEF TypeOK
    <3>1. /\ r \in Row /\ r.status = "confirmed" /\ r.confirmedAt = confirming[q].now
          /\ r.run = media[m].run /\ r.subject = media[m].subject
          /\ r.createdAt = media[m].createdAt
      BY <1>1, <3>0 DEF Row, Statuses
    <3>2. media' = [media EXCEPT ![m] = r] BY <1>3 DEF ConfirmUpdate
    <3>. HIDE DEF r
    <3>. QED BY <1>1, <3>1, <3>2 DEF TypeOK
  <2>2. /\ m \in objects
        /\ media[m].createdAt <= confirming[q].now /\ confirming[q].now <= clock
    BY <1>1, <1>3 DEF ConfirmationsOK, ConfirmationOK
  <2>3. TypeOK' BY <1>1, <2>1 DEF TypeOK
  <2>4. RowsOK'
    BY <1>1, <2>1, <2>2 DEF RowsOK, RowOK, PutDeadline, TypeOK, Row, Never
  <2>5. ConfirmationsOK'
    BY <1>1, <2>1 DEF ConfirmationsOK, ConfirmationOK, TypeOK, Confirmation
  <2>6. \A t \in Selected : SelectedOK(t) => SelectedOK(t)'
    BY <1>1, <1>3, <2>1 DEF SelectedOK, ExpiresAt, Selected, RowsOK, RowOK
  <2>7. RoundsOK'
    BY <1>1, <1>3, <2>1, <2>6 DEF RoundsOK, RoundOK, OrphanOK, TypeOK, Round, Selected
  <2>. QED BY <2>3, <2>4, <2>5, <2>7
<1>. QED BY <1>2, <1>3

\* A refused confirmation leaves no trace (media-service.ts:286-295).
LEMMA ConfirmFailsInvariant ==
  ASSUME IInv, NEW q \in Requests, ConfirmFails(q) PROVE IInv'
<1>. USE DEF IInv, ConfirmFails, NoConfirmation
<1>1. TypeOK' BY DEF TypeOK, Confirmation
<1>2. RowsOK' BY DEF RowsOK, RowOK, PutDeadline
<1>3. ConfirmationsOK' BY DEF ConfirmationsOK, ConfirmationOK, TypeOK, Confirmation
<1>4. RoundsOK' BY DEF RoundsOK, RoundOK, SelectedOK, OrphanOK, ExpiresAt
<1>. QED BY <1>1, <1>2, <1>3, <1>4

\* The first query selects what has expired (media-cleanup.ts:46-54).
LEMMA StartRoundInvariant ==
  ASSUME IInv, NEW w \in Workers, StartRound(w) PROVE IInv'
<1>. USE MediaAssumption DEF IInv, StartRound
<1>1. PICK batch \in SUBSET Unconfirmed(clock) :
        worker' = [worker EXCEPT ![w] =
          [path |-> "unconfirmed", now |-> clock, todo |-> AsSelected(batch),
           at |-> "loop", row |-> NoMedia]]
  BY DEF Oldest
<1>2. AsSelected(batch) \in SUBSET Selected
  BY <1>1, SelectedType DEF TypeOK, Unconfirmed
<1>3. /\ worker' \in [Workers -> Round]
      /\ \A v \in Workers \ {w} : worker'[v] = worker[v]
      /\ worker'[w].path = "unconfirmed" /\ worker'[w].at = "loop"
      /\ worker'[w].todo = AsSelected(batch) /\ worker'[w].row = NoMedia
      /\ worker'[w].now = clock /\ worker'[w].now <= clock
  <2>. DEFINE r == [path |-> "unconfirmed", now |-> clock, todo |-> AsSelected(batch),
                     at |-> "loop", row |-> NoMedia]
  <2>0. clock \in Nat BY DEF TypeOK
  <2>1. /\ r \in Round /\ r.path = "unconfirmed" /\ r.todo = AsSelected(batch)
        /\ r.at = "loop" /\ r.row = NoMedia /\ r.now = clock /\ r.now <= clock
    BY <2>0, <1>2 DEF Round
  <2>2. worker' = [worker EXCEPT ![w] = r] BY <1>1
  <2>. HIDE DEF r
  <2>. QED BY <2>1, <2>2 DEF TypeOK
<1>4. \A s \in AsSelected(batch) : SelectedOK(s)'
  <2>. SUFFICES ASSUME NEW m \in batch, NEW s, s = [id |-> m, status |-> media[m].status]
                PROVE  SelectedOK(s)'
    BY DEF AsSelected
  <2>1. m \in Media /\ m \in Unconfirmed(clock) /\ s.id = m /\ s.status = media[m].status
    BY <1>1 DEF Unconfirmed
  <2>. QED BY <2>1, <1>3 DEF Unconfirmed, TypeOK, RowsOK, RowOK, Row, RoundsOK, RoundOK,
        Round, SelectedOK, OrphanOK, ExpiresAt, Keep, Never
<1>5. TypeOK' BY <1>3 DEF TypeOK
<1>6. RowsOK' BY DEF RowsOK, RowOK, PutDeadline
<1>7. ConfirmationsOK' BY DEF ConfirmationsOK, ConfirmationOK
<1>8. RoundsOK' BY <1>3, <1>4 DEF RoundsOK, RoundOK, SelectedOK, OrphanOK, ExpiresAt
<1>. QED BY <1>5, <1>6, <1>7, <1>8

\* The second query selects old rows of archived campaigns (media-cleanup.ts:64-86).
LEMMA SelectRetentionInvariant ==
  ASSUME IInv, NEW w \in Workers, SelectRetention(w) PROVE IInv'
<1>. USE MediaAssumption DEF IInv, SelectRetention
<1>1. PICK batch \in SUBSET OutOfRetention(worker[w].now) :
        worker' = [worker EXCEPT ![w] =
          [@ EXCEPT !.path = "retention", !.todo = AsSelected(batch)]]
  BY DEF Oldest
<1>2. AsSelected(batch) \in SUBSET Selected
  BY <1>1, SelectedType DEF TypeOK, OutOfRetention
<1>3. /\ worker' \in [Workers -> Round]
      /\ \A v \in Workers \ {w} : worker'[v] = worker[v]
      /\ worker'[w].path = "retention" /\ worker'[w].at = "loop"
      /\ worker'[w].todo = AsSelected(batch) /\ worker'[w].row = NoMedia
      /\ worker'[w].now = worker[w].now /\ worker'[w].now <= clock
  <2>. DEFINE r == [worker[w] EXCEPT !.path = "retention",
                               !.todo = AsSelected(batch)]
  <2>0. /\ worker[w] \in Round /\ worker[w].at = "loop"
        /\ worker[w].row = NoMedia /\ worker[w].now <= clock
    BY DEF TypeOK, RoundsOK, RoundOK, RowsDone
  <2>1. /\ r \in Round /\ r.path = "retention" /\ r.todo = AsSelected(batch)
        /\ r.at = "loop" /\ r.row = NoMedia /\ r.now = worker[w].now /\ r.now <= clock
    BY <2>0, <1>2 DEF Round
  <2>2. worker' = [worker EXCEPT ![w] = r] BY <1>1
  <2>. HIDE DEF r
  <2>. QED BY <2>1, <2>2 DEF TypeOK
<1>4. \A s \in AsSelected(batch) : SelectedOK(s)'
  <2>. SUFFICES ASSUME NEW m \in batch, NEW s, s = [id |-> m, status |-> media[m].status]
                PROVE  SelectedOK(s)'
    BY DEF AsSelected
  <2>1. m \in Media /\ m \in OutOfRetention(worker[w].now) /\ s.id = m /\ s.status = media[m].status
    BY <1>1 DEF OutOfRetention
  <2>. QED BY <2>1, <1>3 DEF OutOfRetention, TypeOK, RowsOK, RowOK, Row, RoundsOK, RoundOK,
        Round, SelectedOK, OrphanOK, ExpiresAt, Keep, Never
<1>5. TypeOK' BY <1>3 DEF TypeOK
<1>6. RowsOK' BY DEF RowsOK, RowOK, PutDeadline
<1>7. ConfirmationsOK' BY DEF ConfirmationsOK, ConfirmationOK
<1>8. RoundsOK' BY <1>3, <1>4 DEF RoundsOK, RoundOK, SelectedOK, OrphanOK, ExpiresAt
<1>. QED BY <1>5, <1>6, <1>7, <1>8

\* The third query selects old rows without a candidate (media-cleanup.ts:117-135).
LEMMA SelectOrphansInvariant ==
  ASSUME IInv, NEW w \in Workers, SelectOrphans(w) PROVE IInv'
<1>. USE MediaAssumption DEF IInv, SelectOrphans
<1>1. PICK batch \in SUBSET Orphans(worker[w].now) :
        worker' = [worker EXCEPT ![w] =
          [@ EXCEPT !.path = "orphan", !.todo = AsSelected(batch)]]
  BY DEF Oldest
<1>2. AsSelected(batch) \in SUBSET Selected
  BY <1>1, SelectedType DEF TypeOK, Orphans
<1>3. /\ worker' \in [Workers -> Round]
      /\ \A v \in Workers \ {w} : worker'[v] = worker[v]
      /\ worker'[w].path = "orphan" /\ worker'[w].at = "loop"
      /\ worker'[w].todo = AsSelected(batch) /\ worker'[w].row = NoMedia
      /\ worker'[w].now = worker[w].now /\ worker'[w].now <= clock
  <2>. DEFINE r == [worker[w] EXCEPT !.path = "orphan",
                               !.todo = AsSelected(batch)]
  <2>0. /\ worker[w] \in Round /\ worker[w].at = "loop"
        /\ worker[w].row = NoMedia /\ worker[w].now <= clock
    BY DEF TypeOK, RoundsOK, RoundOK, RowsDone
  <2>1. /\ r \in Round /\ r.path = "orphan" /\ r.todo = AsSelected(batch)
        /\ r.at = "loop" /\ r.row = NoMedia /\ r.now = worker[w].now /\ r.now <= clock
    BY <2>0, <1>2 DEF Round
  <2>2. worker' = [worker EXCEPT ![w] = r] BY <1>1
  <2>. HIDE DEF r
  <2>. QED BY <2>1, <2>2 DEF TypeOK
<1>4. \A s \in AsSelected(batch) : SelectedOK(s)' /\ OrphanOK(w, s)'
  <2>. SUFFICES ASSUME NEW m \in batch, NEW s, s = [id |-> m, status |-> media[m].status]
                PROVE  SelectedOK(s)' /\ OrphanOK(w, s)'
    BY DEF AsSelected
  <2>1. m \in Media /\ m \in Orphans(worker[w].now) /\ s.id = m /\ s.status = media[m].status
    BY <1>1 DEF Orphans
  <2>. QED BY <2>1, <1>3 DEF Orphans, TypeOK, RowsOK, RowOK, Row, RoundsOK, RoundOK, Round,
        SelectedOK, OrphanOK, ExpiresAt, Keep, Never
<1>5. TypeOK' BY <1>3 DEF TypeOK
<1>6. RowsOK' BY DEF RowsOK, RowOK, PutDeadline
<1>7. ConfirmationsOK' BY DEF ConfirmationsOK, ConfirmationOK
<1>8. RoundsOK' BY <1>3, <1>4 DEF RoundsOK, RoundOK, SelectedOK, OrphanOK, ExpiresAt
<1>. QED BY <1>5, <1>6, <1>7, <1>8

\* The round is over (media-cleanup.ts:96).
LEMMA EndRoundInvariant ==
  ASSUME IInv, NEW w \in Workers, EndRound(w) PROVE IInv'
<1>. USE DEF IInv, EndRound, NoRound, RowsDone
<1>1. TypeOK' BY DEF TypeOK, Round
<1>2. RowsOK' BY DEF RowsOK, RowOK, PutDeadline
<1>3. ConfirmationsOK' BY DEF ConfirmationsOK, ConfirmationOK
<1>4. RoundsOK' BY DEF RoundsOK, RoundOK, SelectedOK, OrphanOK, ExpiresAt, TypeOK, Round
<1>. QED BY <1>1, <1>2, <1>3, <1>4

\* A claim takes a row that is still as it was selected, and what made it
\* old enough then makes it old enough now (media-cleanup.ts:149-156).
LEMMA ClaimInvariant ==
  ASSUME IInv, NEW w \in Workers, NEW s \in worker[w].todo, Claim(w, s) PROVE IInv'
<1>. USE MediaAssumption DEF IInv
<1>1. /\ worker[w] \in Round /\ s \in Selected /\ s.id \in Media
      /\ worker[w].at = "loop" /\ SelectedOK(s)
      /\ UNCHANGED <<clock, running, archived, candidates, objects, confirming>>
  BY DEF Claim, TypeOK, Round, Selected, RoundsOK, RoundOK
<1>2. CASE media[s.id].status = s.status \/ s.status = "expired"
  <2>1. media' = IF s.status = "expired" THEN media
                 ELSE [media EXCEPT ![s.id] = [@ EXCEPT !.status = "expired"]]
    BY <1>2 DEF Claim
  <2>2. /\ worker' \in [Workers -> Round]
        /\ \A v \in Workers \ {w} : worker'[v] = worker[v]
        /\ worker'[w].path = worker[w].path /\ worker'[w].now = worker[w].now
        /\ worker'[w].todo = worker[w].todo \ {s}
        /\ worker'[w].at = "delete" /\ worker'[w].row = s.id
    <3>. DEFINE r == [worker[w] EXCEPT !.todo = worker[w].todo \ {s}, !.at = "delete", !.row = s.id]
    <3>1. /\ r \in Round /\ r.path = worker[w].path /\ r.now = worker[w].now
          /\ r.todo = worker[w].todo \ {s} /\ r.at = "delete" /\ r.row = s.id
      BY <1>1, ClaimStep
    <3>2. worker' = [worker EXCEPT ![w] = r] BY <1>2 DEF Claim, Claimed
    <3>. HIDE DEF r
    <3>. QED BY <3>1, <3>2 DEF TypeOK
  <2>3. /\ media' \in [Media -> Row]
        /\ \A m \in Media \ {s.id} : media'[m] = media[m]
        /\ media'[s.id].status \in {"expired", "deleted"}
        /\ media'[s.id].status = "deleted" => media[s.id].status = "deleted"
        /\ media'[s.id].run = media[s.id].run
        /\ media'[s.id].subject = media[s.id].subject
        /\ media'[s.id].createdAt = media[s.id].createdAt
        /\ media'[s.id].confirmedAt = media[s.id].confirmedAt
    BY <1>1, <2>1, StatusRow DEF TypeOK, SelectedOK, Statuses
  <2>4. TypeOK' BY <1>1, <2>2, <2>3 DEF TypeOK
  <2>5. RowsOK'
    <3>1. /\ PutDeadline(s.id) <= clock
          /\ media[s.id].confirmedAt # Never => media[s.id].confirmedAt + Keep <= clock
      BY <1>1, <1>2 DEF RowsOK, RowOK, SelectedOK, ExpiresAt, PutDeadline, Keep, TypeOK,
            Row, Selected, Never
    <3>2. RowOK(s.id)' BY <1>1, <2>3, <3>1 DEF RowsOK, RowOK, PutDeadline
    <3>. QED BY <1>1, <2>3, <3>2 DEF RowsOK, RowOK, PutDeadline
  <2>6. ConfirmationsOK'
    BY <1>1, <2>3 DEF ConfirmationsOK, ConfirmationOK, TypeOK, Confirmation
  <2>7. \A t \in Selected : SelectedOK(t) => SelectedOK(t)'
    BY <1>1, <2>3 DEF SelectedOK, ExpiresAt, Selected
  <2>8. RoundsOK'
    BY <1>1, <2>2, <2>3, <2>7 DEF RoundsOK, RoundOK, OrphanOK, TypeOK, Round, Selected
  <2>. QED BY <2>4, <2>5, <2>6, <2>8
<1>3. CASE ~(media[s.id].status = s.status \/ s.status = "expired")
  <2>1. /\ media' = media
        /\ worker' = [worker EXCEPT ![w].todo = @ \ {s}]
    BY <1>3 DEF Claim
  <2>2. TypeOK' BY <1>1, <2>1 DEF TypeOK, Round
  <2>3. RowsOK' BY <1>1, <2>1 DEF RowsOK, RowOK, PutDeadline
  <2>4. ConfirmationsOK' BY <1>1, <2>1 DEF ConfirmationsOK, ConfirmationOK
  <2>5. RoundsOK' BY <1>1, <2>1 DEF RoundsOK, RoundOK, SelectedOK, OrphanOK, ExpiresAt,
        TypeOK, Round
  <2>. QED BY <2>2, <2>3, <2>4, <2>5
<1>. QED BY <1>2, <1>3

\* Only objects of rows already given up are deleted (media-cleanup.ts:159).
LEMMA DeleteObjectInvariant ==
  ASSUME IInv, NEW w \in Workers, NEW m \in Media, DeleteObject(w, m) PROVE IInv'
<1>. USE DEF IInv, DeleteObject
<1>1. TypeOK' BY DEF TypeOK, Round
<1>2. RowsOK' BY DEF RowsOK, RowOK, PutDeadline, RoundsOK, RoundOK
<1>3. ConfirmationsOK' BY DEF ConfirmationsOK, ConfirmationOK, TypeOK, Confirmation,
      RoundsOK, RoundOK
<1>4. RoundsOK' BY DEF RoundsOK, RoundOK, SelectedOK, OrphanOK, ExpiresAt, TypeOK, Round
<1>. QED BY <1>1, <1>2, <1>3, <1>4

\* A failed deletion leaves the row expired (media-cleanup.ts:166).
LEMMA DeleteObjectFailsInvariant ==
  ASSUME IInv, NEW w \in Workers, DeleteObjectFails(w) PROVE IInv'
<1>. USE MediaAssumption DEF IInv, DeleteObjectFails
<1>1. /\ worker' \in [Workers -> Round]
      /\ \A v \in Workers \ {w} : worker'[v] = worker[v]
      /\ worker'[w].path = worker[w].path /\ worker'[w].now = worker[w].now
      /\ worker'[w].todo = worker[w].todo /\ worker'[w].at = "loop"
      /\ worker'[w].row = NoMedia
  BY NextRowStep DEF NextRow, TypeOK
<1>2. /\ objects' \subseteq objects /\ media' = media
      /\ \A n \in Media : media[n].status \notin {"expired", "deleted"} /\ n \in objects
           => n \in objects'
  BY DEF RoundsOK, RoundOK
<1>3. TypeOK' BY <1>1, <1>2 DEF TypeOK
<1>4. RowsOK' BY <1>2 DEF RowsOK, RowOK, PutDeadline
<1>5. ConfirmationsOK' BY <1>2 DEF ConfirmationsOK, ConfirmationOK, TypeOK, Confirmation
<1>6. \A t \in Selected : SelectedOK(t) => SelectedOK(t)'
  BY <1>2 DEF SelectedOK, ExpiresAt, Selected
<1>7. RoundsOK'
  BY <1>1, <1>2, <1>6 DEF RoundsOK, RoundOK, OrphanOK, TypeOK, Round, Selected
<1>. QED BY <1>3, <1>4, <1>5, <1>7

\* The mark follows the deletion (media-cleanup.ts:160-164).
LEMMA MarkDeletedInvariant ==
  ASSUME IInv, NEW w \in Workers, NEW m \in Media, MarkDeleted(w, m) PROVE IInv'
<1>. USE MediaAssumption DEF IInv, MarkDeleted
<1>1. /\ worker' \in [Workers -> Round]
      /\ \A v \in Workers \ {w} : worker'[v] = worker[v]
      /\ worker'[w].path = worker[w].path /\ worker'[w].now = worker[w].now
      /\ worker'[w].todo = worker[w].todo /\ worker'[w].at = "loop"
      /\ worker'[w].row = NoMedia
  BY NextRowStep DEF NextRow, TypeOK
<1>2. /\ media' \in [Media -> Row]
      /\ \A n \in Media \ {m} : media'[n] = media[n]
      /\ media[m].status \in {"expired", "deleted"} /\ m \notin objects
      /\ media'[m].status = "deleted"
      /\ media'[m].run = media[m].run /\ media'[m].subject = media[m].subject
      /\ media'[m].createdAt = media[m].createdAt
      /\ media'[m].confirmedAt = media[m].confirmedAt
  BY StatusRow DEF TypeOK, RoundsOK, RoundOK, Statuses
<1>3. TypeOK' BY <1>1, <1>2 DEF TypeOK
<1>4. RowsOK' BY <1>2 DEF RowsOK, RowOK, PutDeadline
<1>5. ConfirmationsOK' BY <1>2 DEF ConfirmationsOK, ConfirmationOK, TypeOK, Confirmation
<1>6. \A t \in Selected : SelectedOK(t) => SelectedOK(t)'
  BY <1>2 DEF SelectedOK, ExpiresAt, Selected
<1>7. RoundsOK'
  BY <1>1, <1>2, <1>6 DEF RoundsOK, RoundOK, OrphanOK, TypeOK, Round, Selected
<1>. QED BY <1>3, <1>4, <1>5, <1>7

\* A failed mark leaves the row expired (media-cleanup.ts:166).
LEMMA MarkFailsInvariant ==
  ASSUME IInv, NEW w \in Workers, MarkFails(w) PROVE IInv'
<1>. USE MediaAssumption DEF IInv, MarkFails
<1>1. /\ worker' \in [Workers -> Round]
      /\ \A v \in Workers \ {w} : worker'[v] = worker[v]
      /\ worker'[w].path = worker[w].path /\ worker'[w].now = worker[w].now
      /\ worker'[w].todo = worker[w].todo /\ worker'[w].at = "loop"
      /\ worker'[w].row = NoMedia
  BY NextRowStep DEF NextRow, TypeOK
<1>2. media' = media /\ objects' = objects OBVIOUS
<1>3. TypeOK' BY <1>1, <1>2 DEF TypeOK
<1>4. RowsOK' BY <1>2 DEF RowsOK, RowOK, PutDeadline
<1>5. ConfirmationsOK' BY <1>2 DEF ConfirmationsOK, ConfirmationOK, TypeOK, Confirmation
<1>6. \A t \in Selected : SelectedOK(t) => SelectedOK(t)'
  BY <1>2 DEF SelectedOK, ExpiresAt, Selected
<1>7. RoundsOK'
  BY <1>1, <1>2, <1>6 DEF RoundsOK, RoundOK, OrphanOK, TypeOK, Round, Selected
<1>. QED BY <1>3, <1>4, <1>5, <1>7

\* A round that breaks off forgets its selection (apps/worker/src/index.ts:50).
LEMMA AbortRoundInvariant ==
  ASSUME IInv, NEW w \in Workers, AbortRound(w) PROVE IInv'
<1>. USE DEF IInv, AbortRound, NoRound
<1>1. TypeOK' BY DEF TypeOK, Round
<1>2. RowsOK' BY DEF RowsOK, RowOK, PutDeadline
<1>3. ConfirmationsOK' BY DEF ConfirmationsOK, ConfirmationOK
<1>4. RoundsOK' BY DEF RoundsOK, RoundOK, SelectedOK, OrphanOK, ExpiresAt, TypeOK, Round
<1>. QED BY <1>1, <1>2, <1>3, <1>4

\* No row, nothing under way.
LEMMA InitInvariant == Init => IInv
<1>. SUFFICES ASSUME Init PROVE IInv OBVIOUS
<1>. USE MediaAssumption DEF Init
<1>1. TypeOK
  BY DEF TypeOK, Row, Statuses, Confirmation, NoConfirmation, Round, NoRound, Never
<1>2. RowsOK BY DEF RowsOK, RowOK
<1>3. ConfirmationsOK BY DEF ConfirmationsOK, ConfirmationOK, NoConfirmation
<1>4. RoundsOK BY DEF RoundsOK, RoundOK, NoRound
<1>. QED BY <1>1, <1>2, <1>3, <1>4 DEF IInv

\* Every action keeps the invariant.
LEMMA NextInvariant == IInv /\ [Next]_vars => IInv'
<1>. SUFFICES ASSUME IInv, [Next]_vars PROVE IInv' OBVIOUS
<1>1. CASE Surroundings
  BY <1>1, TickInvariant, ChangeRunStatusInvariant, ArchiveCampaignInvariant,
     FindOrCreateCandidateInvariant DEF Surroundings
<1>2. CASE Upload
  BY <1>2, IssueMediaUploadInvariant, PutObjectInvariant, ConfirmMediaUploadInvariant,
     HeadObjectInvariant, ConfirmUpdateInvariant, ConfirmFailsInvariant DEF Upload
<1>3. CASE \E w \in Workers : Cleanup(w)
  BY <1>3, StartRoundInvariant, SelectRetentionInvariant, SelectOrphansInvariant,
     EndRoundInvariant, ClaimInvariant, DeleteObjectInvariant, DeleteObjectFailsInvariant,
     MarkDeletedInvariant, MarkFailsInvariant, AbortRoundInvariant DEF Cleanup
<1>4. CASE UNCHANGED vars
  BY <1>4 DEF vars, IInv, TypeOK, RowsOK, RowOK, ConfirmationsOK, ConfirmationOK,
     RoundsOK, RoundOK, SelectedOK, OrphanOK, ExpiresAt, PutDeadline
<1>. QED BY <1>1, <1>2, <1>3, <1>4 DEF Next

\* The inductive invariant holds of the specification.
LEMMA InvariantHolds == Spec => []IInv
  BY InitInvariant, NextInvariant, PTL DEF Spec

-----------------------------------------------------------------------------

\* TypeOK holds for every value of the constants: every variable of the rows,
\* the bucket, the confirmations and the rounds keeps its type.
THEOREM TypeCorrect == Spec => []TypeOK
<1>1. IInv => TypeOK BY DEF IInv
<1>. QED BY <1>1, InvariantHolds, PTL

\* A row that can be opened has its object (media-service.ts:297,
\* media-cleanup.ts:150): the race of a confirmation with a claim has no loser.
THEOREM ConfirmedRowHasItsObject == Spec => []ConfirmedHasObject
<1>1. IInv => ConfirmedHasObject BY DEF IInv, RowsOK, RowOK, ConfirmedHasObject
<1>. QED BY <1>1, InvariantHolds, PTL

\* A row marked deleted has no object and gets none (media-service.ts:21-23,
\* media-cleanup.ts:160).
THEOREM DeletedRowHasNoObject == Spec => []DeletedIsGone
<1>1. IInv => DeletedIsGone BY DEF IInv, RowsOK, RowOK, DeletedIsGone
<1>. QED BY <1>1, InvariantHolds, PTL

\* A confirmed screenshot outlives the grace period (media-cleanup.ts:43-44,
\* 150), however many workers there are and however stale their selections.
THEOREM ConfirmedEvidenceSurvivesGrace == Spec => []EvidenceSurvivesGrace
<1>1. IInv => EvidenceSurvivesGrace
  <2>. SUFFICES ASSUME IInv, NEW m \in Media, media[m].confirmedAt # Never,
                       clock - media[m].confirmedAt < Keep
                PROVE  media[m].status = "confirmed"
    BY DEF EvidenceSurvivesGrace
  <2>1. media[m].status \in {"none", "pending", "confirmed", "expired", "deleted"}
        /\ media[m].confirmedAt \in Nat /\ clock \in Nat /\ Keep \in Nat
    BY MediaAssumption DEF IInv, TypeOK, Row, Statuses, Keep
  <2>. QED BY <2>1 DEF IInv, RowsOK, RowOK
<1>. QED BY <1>1, InvariantHolds, PTL

\* Only a claim of a row that was selected as confirmed gives up a
\* confirmed screenshot.
LEMMA OnlyAClaimGivesUp ==
  ASSUME IInv, [Next]_vars, NEW m \in Media, GivenUp(m)
  PROVE  \E w \in Workers : \E s \in worker[w].todo :
            /\ s.id = m /\ s.status = "confirmed" /\ SelectedOK(s)
            /\ worker[w].path = "orphan" => OrphanOK(w, s)
            /\ \A v \in Workers \ {w} : worker'[v] = worker[v]
<1>. USE DEF GivenUp
<1>1. media'[m].status # media[m].status /\ media[m].status = "confirmed"
  OBVIOUS
<1>2. \A n \in Media, r \in Runs, c \in Creators \cup {NoCreator} : ~IssueMediaUpload(n, r, c)
  BY <1>1 DEF IssueMediaUpload, IInv, TypeOK
<1>3. \A q \in Requests : ~ConfirmUpdate(q)
  <2>. SUFFICES ASSUME NEW q \in Requests, ConfirmUpdate(q) PROVE FALSE
    OBVIOUS
  <2>1. confirming[q].id \in Media BY DEF ConfirmUpdate, IInv, TypeOK, Confirmation
  <2>. QED BY <1>1, <2>1 DEF ConfirmUpdate, IInv, TypeOK
<1>4. \A w \in Workers, n \in Media : ~MarkDeleted(w, n)
  BY <1>1 DEF MarkDeleted, IInv, TypeOK
<1>5. media' # media BY <1>1
<1>6. ~Surroundings /\ ~UNCHANGED vars
  BY <1>5 DEF Surroundings, Tick, ChangeRunStatus, ArchiveCampaign, FindOrCreateCandidate, vars
<1>7. ~Upload
  BY <1>2, <1>3, <1>5 DEF Upload, PutObject, ConfirmMediaUpload, HeadObject, ConfirmFails
<1>8. PICK w \in Workers : \E s \in worker[w].todo : Claim(w, s)
  BY <1>4, <1>5, <1>6, <1>7 DEF Next, Cleanup, StartRound, SelectRetention, SelectOrphans,
     EndRound, DeleteObject, DeleteObjectFails, MarkFails, AbortRound
<1>9. PICK s \in worker[w].todo : Claim(w, s)
  BY <1>8
<1>10. s.id \in Media /\ SelectedOK(s) /\ (worker[w].path = "orphan" => OrphanOK(w, s))
  BY DEF IInv, RoundsOK, RoundOK, TypeOK, Round, Selected
<1>11. s.id = m /\ s.status = "confirmed"
  BY <1>1, <1>9, <1>10 DEF Claim, IInv, TypeOK
<1>12. \A v \in Workers \ {w} : worker'[v] = worker[v]
  BY <1>9 DEF Claim, Claimed, IInv, TypeOK
<1>. QED BY <1>10, <1>11, <1>12

\* While its campaign is active, a confirmed screenshot is lost only as an
\* orphan, with the switch on (media-cleanup.ts:82, 91, 120-122).
THEOREM ActiveEvidenceKept == Spec => ActiveEvidenceIsKept
<1>1. IInv /\ [Next]_vars =>
        [\A m \in Media : GivenUp(m) /\ media[m].run \notin archived
           => OrphanCleanupEnabled /\ media[m].subject \in Creators]_vars
  BY OnlyAClaimGivesUp DEF SelectedOK
<1>. QED BY <1>1, InvariantHolds, PTL DEF Spec, ActiveEvidenceIsKept

\* The orphan path spares a creator who was a candidate when the round began
\* (media-cleanup.ts:117-136).
THEOREM OlderCandidatesAreSafe == Spec => OnlyNewCandidatesAtRisk
<1>1. ASSUME IInv, [Next]_vars, NEW w \in Workers, NEW m \in Media, m = worker'[w].row,
             worker[w].path = "orphan", GivenUp(m)
      PROVE  \/ candidates[media[m].subject] = Never
             \/ candidates[media[m].subject] >= worker[w].now
  <2>1. worker'[w] # worker[w]
    BY <1>1, MediaAssumption DEF IInv, RoundsOK, RoundOK, GivenUp
  <2>. QED BY <1>1, <2>1, OnlyAClaimGivesUp DEF OrphanOK
<1>2. IInv /\ [Next]_vars =>
        [\A w \in Workers : LET m == worker'[w].row IN
           worker[w].path = "orphan" /\ m \in Media /\ GivenUp(m)
             => \/ candidates[media[m].subject] = Never
                \/ candidates[media[m].subject] >= worker[w].now]_vars
  BY <1>1
<1>. QED BY <1>2, InvariantHolds, PTL DEF Spec, OnlyNewCandidatesAtRisk
=============================================================================
