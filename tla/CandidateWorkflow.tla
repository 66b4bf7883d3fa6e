-------------------------- MODULE CandidateWorkflow --------------------------
(***************************************************************************)
(* The life of a candidate at the centre: how the observations of a        *)
(* creator admit it to a campaign's library (ingestion/collector-          *)
(* ingestion.ts with screening/hard-filter.ts), what a member may see of   *)
(* it (candidates/candidate-access.ts, candidate-library.ts), and how the  *)
(* team reviews it, tags it, contacts it and archives it                   *)
(* (candidates/candidate-workflow.ts, candidate-batch.ts).                 *)
(*                                                                         *)
(* A candidate is a creator in one campaign.  A handler runs in one        *)
(* transaction under the lock of the candidate's row, so it is one action, *)
(* except appendCandidateNote and the batch operations, which are several  *)
(* statements and several transactions.  A handler that throws rolls back: *)
(* no step.                                                                *)
(***************************************************************************)
EXTENDS HardFilter

CONSTANTS
  Members, Role,            \* accounts and Role[m]
  Candidates,               \* the creators that may be observed
  Runs, RulesOf,            \* runs of one campaign and their rule snapshots
  OwnerOf,                  \* OwnerOf[r]: whose device has claimed the run
  ObservableFacts,          \* what a page may show of a creator
  CompleteFacts,            \* what a page that hides nothing may show
  Contacts,                 \* contact data
  TagNames, Fold,           \* tag spellings, and Fold[n]: what the collation compares
  NoteIds,                  \* identities of notes
  NoMember, NoContact, Unchanged, NoNote,
  MaxObservations,          \* bound on the observations ingested
  MaxEvents                 \* bound on the timeline entries of all candidates

VARIABLES
  observations,  \* observations[c]: creator_observations in the order of arrival
  candidate,     \* candidate[c]: the row of campaign_candidates (version 0: no row)
  reviews,       \* reviews[c]: manual_reviews
  outreach,      \* outreach[c]: the row of outreach_records (version 0: no row)
  timeline,      \* timeline[c]: candidate_events
  tagVocabulary, \* the names in tags
  candidateTags, \* candidateTags[c]: names joined through candidate_tags
  notes,         \* notes[c]: the ids in candidate_notes
  noting,        \* noting[m]: how far m's appendCandidateNote has come
  answeredNotes  \* the notes whose success was answered to the member

candidateVars == <<candidate, reviews, timeline>>
noteVars == <<notes, noting, answeredNotes>>
tagVars == <<tagVocabulary, candidateTags>>
workflowVars == <<observations, candidate, reviews, outreach, timeline,
                  tagVocabulary, candidateTags, notes, noting, answeredNotes>>

-----------------------------------------------------------------------------
(* Data.                                                                   *)

PIPELINE_STATUSES == {"pending_review", "unsuitable", "to_contact", "contacted",
                      "communicating", "partnered", "declined"}
ManualDecisions == {"pending", "approved", "rejected"}

allowedTransitions ==
  [pending_review |-> {"unsuitable", "to_contact"},
   unsuitable     |-> {"pending_review"},
   to_contact     |-> {"unsuitable", "contacted", "declined"},
   contacted      |-> {"communicating", "declined"},
   communicating  |-> {"contacted", "partnered", "declined"},
   partnered      |-> {"communicating"},
   declined       |-> {"to_contact", "communicating"}]

CandidateRow == [version          : Nat,
                 hardFilterStatus : Outcomes,
                 pipelineStatus   : PIPELINE_STATUSES,
                 archived         : BOOLEAN,
                 latest           : Nat]   \* index of the latest observation
OutreachRow == [version    : Nat,
                owner      : Members \cup {NoMember},
                assignedAt : Nat,           \* the write that assigned the owner, 0: NULL
                contact    : Contacts \cup {NoContact}]
ReviewRow == [decision : ManualDecisions, base : Nat]
EventTypes == {"pipeline_status_changed", "manual_reviewed", "archived", "unarchived",
               "tags_changed", "outreach_updated", "note_added"}
EventRow == [type     : EventTypes,
             previous : PIPELINE_STATUSES \cup {"none"},
             next     : PIPELINE_STATUSES \cup {"none"},
             note     : NoteIds \cup {NoNote}]
ObservationRow == [run : Runs, facts : ObservableFacts]
Noting == [candidate : Candidates, note : NoteIds \cup {NoNote},
           step : {"idle", "checked", "inserted", "announced"}]

NoRow == [version |-> 0, hardFilterStatus |-> "pass", pipelineStatus |-> "pending_review",
          archived |-> FALSE, latest |-> 0]
NoOutreach == [version |-> 0, owner |-> NoMember, assignedAt |-> 0, contact |-> NoContact]

ASSUME WorkflowAssumption ==
  /\ Role \in [Members -> {"admin", "operator", "readonly"}]
  /\ OwnerOf \in [Runs -> Members]
  /\ RulesOf \in [Runs -> SUBSET (FollowerRules \cup PostRules)]
  /\ ObservableFacts \subseteq Facts /\ CompleteFacts \subseteq Facts
  /\ Candidates # {} /\ NoMember \notin Members
  /\ NoContact \notin Contacts
  /\ Unchanged \notin Members \cup Contacts \cup {NoMember, NoContact}
  /\ NoNote \notin NoteIds
  /\ MaxObservations \in Nat /\ MaxEvents \in Nat

Exists(c) == candidate[c].version > 0
TotalOf(sequences) == Cardinality(UNION {{c} \X DOMAIN sequences[c] : c \in Candidates})
Event(type) == [type |-> type, previous |-> "none", next |-> "none", note |-> NoNote]
StatusEvent(from, to) ==
  [Event("pipeline_status_changed") EXCEPT !.previous = from, !.next = to]
Record(c, events) == timeline' = [timeline EXCEPT ![c] = @ \o events]
RoomOnTimeline == TotalOf(timeline) < MaxEvents

WorkflowInit ==
  /\ observations = [c \in Candidates |-> <<>>]
  /\ candidate = [c \in Candidates |-> NoRow]
  /\ reviews = [c \in Candidates |-> <<>>]
  /\ outreach = [c \in Candidates |-> NoOutreach]
  /\ timeline = [c \in Candidates |-> <<>>]
  /\ tagVocabulary = {}
  /\ candidateTags = [c \in Candidates |-> {}]
  /\ notes = [c \in Candidates |-> {}]
  /\ noting = [m \in Members |-> [candidate |-> CHOOSE c \in Candidates : TRUE,
                                  note |-> NoNote, step |-> "idle"]]
  /\ answeredNotes = {}

-----------------------------------------------------------------------------
(* What a member may see (candidate-access.ts): an administrator all of    *)
(* it, the others what they own or what one of their devices observed.     *)

OwnObservations(m, c) ==
  {i \in DOMAIN observations[c] : OwnerOf[observations[c][i].run] = m}

SeesAll(m) == Role[m] = "admin"

candidateVisibilityPredicate(m, c) ==
  SeesAll(m) \/ outreach[c].owner = m \/ OwnObservations(m, c) # {}

Readable(m, c) == Exists(c) /\ candidateVisibilityPredicate(m, c)

ObservedAt(c, i) == observations[c][i].facts.observedAt

\* The observation that the library shows to m: of several as new as each other, any.
visibleObservationIds(m, c) ==
  IF SeesAll(m)
    THEN {candidate[c].latest}
    ELSE IF OwnObservations(m, c) # {}
           THEN {i \in OwnObservations(m, c) :
                   \A j \in OwnObservations(m, c) : ObservedAt(c, j) <= ObservedAt(c, i)}
           ELSE IF outreach[c].owner = m THEN {candidate[c].latest} ELSE {}

\* The dates since which m could see c: the library sorts by the earliest of them.
firstVisibleAt(m, c) ==
  IF SeesAll(m)
    THEN {ObservedAt(c, i) : i \in DOMAIN observations[c]}
    ELSE {ObservedAt(c, i) : i \in OwnObservations(m, c)}
         \cup IF outreach[c].owner = m THEN {outreach[c].assignedAt} \ {0} ELSE {}

\* getCandidateDetail: the observations m may open.
detailObservations(m, c) ==
  IF SeesAll(m)
    THEN DOMAIN observations[c]
    ELSE OwnObservations(m, c)
         \cup IF outreach[c].owner = m THEN {candidate[c].latest} ELSE {}

\* listCandidatePage without a cursor: the rows of a library view.
listCandidatePage(m, archived, statuses) ==
  {c \in Candidates : /\ Readable(m, c)
                      /\ candidate[c].hardFilterStatus = "pass"
                      /\ candidate[c].archived = archived
                      /\ candidate[c].pipelineStatus \in statuses
                      /\ visibleObservationIds(m, c) # {}}

-----------------------------------------------------------------------------
(* Ingestion: one accepted observation.                                    *)

Verdict(observation) == EvaluateHardFilters(RulesOf[observation.run], observation.facts)

\* (mutant) A later observation rewrites the verdict of admission.
AdmitAndRewrite(c, observation) ==
  IF Exists(c)
    THEN candidate' = [candidate EXCEPT
           ![c].version = @ + 1, ![c].latest = Len(observations[c]) + 1,
           ![c].hardFilterStatus = Verdict(observation)]
    ELSE IF Verdict(observation) = "pass"
           THEN candidate' = [candidate EXCEPT
                  ![c] = [NoRow EXCEPT !.version = 1, !.latest = Len(observations[c]) + 1]]
           ELSE UNCHANGED candidate

\* A creator that is already a candidate keeps its verdict, its status and its archive
\* mark; a new one gets a row only when the hard filter passes.
findOrCreateCandidate(c, observation) ==
  IF Exists(c)
    THEN candidate' = [candidate EXCEPT
           ![c].version = @ + 1, ![c].latest = Len(observations[c]) + 1]
    ELSE IF Verdict(observation) = "pass"
           THEN candidate' = [candidate EXCEPT
                  ![c] = [NoRow EXCEPT !.version = 1, !.latest = Len(observations[c]) + 1]]
           ELSE UNCHANGED candidate

ingestCreatorObservation(c, observation) ==
  /\ TotalOf(observations) < MaxObservations
  /\ observations' = [observations EXCEPT ![c] = Append(@, observation)]
  /\ findOrCreateCandidate(c, observation)
  /\ UNCHANGED <<reviews, outreach, timeline, tagVocabulary, candidateTags,
                 notes, noting, answeredNotes>>

\* listRunObservedCreators: the verdict rebuilt from the rows that were stored.
RecomputedVerdict(observation) ==
  EvaluateHardFilters(RulesOf[observation.run], StoredFacts(observation.facts))

-----------------------------------------------------------------------------
(* The team's work.  "expected" is the version the request carries.        *)

MayWrite(m) == Role[m] # "readonly"

LockCandidate(m, c) == MayWrite(m) /\ Readable(m, c)

\* Only a candidate that waits for review moves on with the decision.
AdvancedStatus(c, decision) ==
  IF candidate[c].pipelineStatus = "pending_review" /\ decision # "pending"
    THEN IF decision = "approved" THEN "to_contact" ELSE "unsuitable"
    ELSE candidate[c].pipelineStatus

\* (mutant) The advance of the status is not put on the timeline.
submitManualReviewSilently(m, c, decision, expected) ==
  /\ LockCandidate(m, c) /\ RoomOnTimeline
  /\ candidate[c].version = expected
  /\ reviews' = [reviews EXCEPT ![c] = Append(@, [decision |-> decision, base |-> expected])]
  /\ candidate' = [candidate EXCEPT ![c].pipelineStatus = AdvancedStatus(c, decision),
                                    ![c].version = @ + 1]
  /\ Record(c, <<Event("manual_reviewed")>>)
  /\ UNCHANGED <<observations, outreach, tagVars, noteVars>>

\* (mutant) The version is not compared.
submitManualReviewUnchecked(m, c, decision, expected) ==
  LET next == AdvancedStatus(c, decision)
      advance == IF next = candidate[c].pipelineStatus
                   THEN <<>> ELSE <<StatusEvent(candidate[c].pipelineStatus, next)>>
  IN  /\ LockCandidate(m, c) /\ RoomOnTimeline
      /\ reviews' = [reviews EXCEPT ![c] = Append(@, [decision |-> decision, base |-> expected])]
      /\ candidate' = [candidate EXCEPT ![c].pipelineStatus = next, ![c].version = @ + 1]
      /\ Record(c, advance \o <<Event("manual_reviewed")>>)
      /\ UNCHANGED <<observations, outreach, tagVars, noteVars>>

submitManualReview(m, c, decision, expected) ==
  LET next == AdvancedStatus(c, decision)
      advance == IF next = candidate[c].pipelineStatus
                   THEN <<>> ELSE <<StatusEvent(candidate[c].pipelineStatus, next)>>
  IN  /\ LockCandidate(m, c) /\ RoomOnTimeline
      /\ candidate[c].version = expected
      /\ reviews' = [reviews EXCEPT ![c] = Append(@, [decision |-> decision, base |-> expected])]
      /\ candidate' = [candidate EXCEPT ![c].pipelineStatus = next, ![c].version = @ + 1]
      /\ Record(c, advance \o <<Event("manual_reviewed")>>)
      /\ UNCHANGED <<observations, outreach, tagVars, noteVars>>

setCandidateArchived(m, c, archived, expected) ==
  /\ LockCandidate(m, c) /\ RoomOnTimeline
  /\ candidate[c].version = expected
  /\ candidate' = [candidate EXCEPT ![c].archived = archived, ![c].version = @ + 1]
  /\ Record(c, <<Event(IF archived THEN "archived" ELSE "unarchived")>>)
  /\ UNCHANGED <<observations, reviews, outreach, tagVars, noteVars>>

transitionCandidatePipeline(m, c, next, expected) ==
  /\ LockCandidate(m, c) /\ RoomOnTimeline
  /\ candidate[c].version = expected
  /\ next \in allowedTransitions[candidate[c].pipelineStatus]
  /\ candidate' = [candidate EXCEPT ![c].pipelineStatus = next, ![c].version = @ + 1]
  /\ Record(c, <<StatusEvent(candidate[c].pipelineStatus, next)>>)
  /\ UNCHANGED <<observations, reviews, outreach, tagVars, noteVars>>

\* (mutant) New tags are joined to the candidate and not to the vocabulary.
setCandidateTagsUnlisted(m, c, requested) ==
  /\ LockCandidate(m, c)
  /\ requested # candidateTags[c] => RoomOnTimeline
  /\ candidateTags' = [candidateTags EXCEPT ![c] = requested]
  /\ Record(c, IF requested # candidateTags[c] THEN <<Event("tags_changed")>> ELSE <<>>)
  /\ UNCHANGED <<observations, candidate, reviews, outreach, tagVocabulary, noteVars>>

\* The vocabulary keeps one spelling per collation class.  A request with another
\* spelling finds no id for it and fails as a whole.
setCandidateTags(m, c, requested) ==
  LET added == requested \ candidateTags[c]
  IN  /\ LockCandidate(m, c)
      /\ \A n \in added, v \in tagVocabulary \cup added : Fold[n] = Fold[v] => n = v
      /\ requested # candidateTags[c] => RoomOnTimeline
      /\ tagVocabulary' = tagVocabulary \cup added
      /\ candidateTags' = [candidateTags EXCEPT ![c] = requested]
      /\ Record(c, IF requested # candidateTags[c] THEN <<Event("tags_changed")>> ELSE <<>>)
      /\ UNCHANGED <<observations, candidate, reviews, outreach, noteVars>>

valueOrCurrent(value, current) == IF value = Unchanged THEN current ELSE value

\* (mutant) The owner is dated when the record is created, not when it changes hands.
ownerAssignedAtOnce(row, owner) ==
  IF owner = NoMember
    THEN 0
    ELSE IF row.version = 0 THEN 1 ELSE row.assignedAt

\* The date of an ownership is that of the write which gave it to its present owner.
ownerAssignedAt(row, owner) ==
  IF owner = NoMember
    THEN 0
    ELSE IF owner # row.owner THEN row.version + 1 ELSE row.assignedAt

updateCandidateOutreach(m, c, owner, contact, expected) ==
  LET row == outreach[c]
      next == valueOrCurrent(owner, row.owner)
  IN  /\ LockCandidate(m, c) /\ RoomOnTimeline
      /\ row.version = expected
      /\ outreach' = [outreach EXCEPT
           ![c] = [version    |-> row.version + 1,
                   owner      |-> next,
                   assignedAt |-> ownerAssignedAt(row, next),
                   contact    |-> valueOrCurrent(contact, row.contact)]]
      /\ Record(c, <<Event("outreach_updated")>>)
      /\ UNCHANGED <<observations, candidate, reviews, tagVars, noteVars>>

-----------------------------------------------------------------------------
(* appendCandidateNote: four statements, each on a connection of its own.  *)

noteUnchanged == <<observations, candidate, reviews, outreach, tagVars>>

CheckNote(m, c) ==
  /\ noting[m].step = "idle"
  /\ LockCandidate(m, c)
  /\ noting' = [noting EXCEPT ![m] = [candidate |-> c, note |-> NoNote, step |-> "checked"]]
  /\ UNCHANGED <<noteUnchanged, timeline, notes, answeredNotes>>

InsertNote(m, n) ==
  /\ noting[m].step = "checked"
  /\ \A c \in Candidates : n \notin notes[c]
  /\ notes' = [notes EXCEPT ![noting[m].candidate] = @ \cup {n}]
  /\ noting' = [noting EXCEPT ![m].step = "inserted", ![m].note = n]
  /\ UNCHANGED <<noteUnchanged, timeline, answeredNotes>>

AnnounceNote(m) ==
  /\ noting[m].step = "inserted" /\ RoomOnTimeline
  /\ Record(noting[m].candidate, <<[Event("note_added") EXCEPT !.note = noting[m].note]>>)
  /\ noting' = [noting EXCEPT ![m].step = "announced"]
  /\ UNCHANGED <<noteUnchanged, notes, answeredNotes>>

\* (mutant) The member is answered as soon as the note is stored.
AnswerNoteEarly(m) ==
  /\ noting[m].step \in {"inserted", "announced"}
  /\ answeredNotes' = answeredNotes \cup {noting[m].note}
  /\ noting' = [noting EXCEPT ![m].step = "idle", ![m].note = NoNote]
  /\ UNCHANGED <<noteUnchanged, timeline, notes>>

\* The audit row is written and the id answered.
AnswerNote(m) ==
  /\ noting[m].step = "announced"
  /\ answeredNotes' = answeredNotes \cup {noting[m].note}
  /\ noting' = [noting EXCEPT ![m].step = "idle", ![m].note = NoNote]
  /\ UNCHANGED <<noteUnchanged, timeline, notes>>

\* A statement fails or the server stops: what was written stays, nothing is answered.
AbandonNote(m) ==
  /\ noting[m].step # "idle"
  /\ noting' = [noting EXCEPT ![m].step = "idle", ![m].note = NoNote]
  /\ UNCHANGED <<noteUnchanged, timeline, notes, answeredNotes>>

-----------------------------------------------------------------------------
Ingest ==
  \E c \in Candidates, run \in Runs, facts \in ObservableFacts :
    ingestCreatorObservation(c, [run |-> run, facts |-> facts])

Review(m) ==
  \E c \in Candidates, decision \in ManualDecisions :
    submitManualReview(m, c, decision, candidate[c].version)

Archive(m) ==
  \E c \in Candidates, archived \in BOOLEAN :
    setCandidateArchived(m, c, archived, candidate[c].version)

Transition(m) ==
  \E c \in Candidates, next \in PIPELINE_STATUSES :
    transitionCandidatePipeline(m, c, next, candidate[c].version)

Tag(m) ==
  \E c \in Candidates, requested \in SUBSET TagNames : setCandidateTags(m, c, requested)

Contact(m) ==
  \E c \in Candidates, owner \in Members \cup {NoMember, Unchanged},
     contact \in Contacts \cup {NoContact, Unchanged} :
    updateCandidateOutreach(m, c, owner, contact, outreach[c].version)

Note(m) ==
  \/ \E c \in Candidates : CheckNote(m, c)
  \/ \E n \in NoteIds : InsertNote(m, n)
  \/ AnnounceNote(m)
  \/ AnswerNote(m)
  \/ AbandonNote(m)

WorkflowNext ==
  \/ Ingest
  \/ \E m \in Members :
       Review(m) \/ Archive(m) \/ Transition(m) \/ Tag(m) \/ Contact(m) \/ Note(m)

WorkflowSpec == WorkflowInit /\ [][WorkflowNext]_workflowVars

-----------------------------------------------------------------------------
(* Properties.                                                             *)

\* The rows of the candidate tables are well formed, and every tag of a candidate is
\* in the vocabulary.
WorkflowTypeOK ==
  /\ observations \in [Candidates -> Seq(ObservationRow)]
  /\ candidate \in [Candidates -> CandidateRow]
  /\ reviews \in [Candidates -> Seq(ReviewRow)]
  /\ outreach \in [Candidates -> OutreachRow]
  /\ timeline \in [Candidates -> Seq(EventRow)]
  /\ candidateTags \in [Candidates -> SUBSET tagVocabulary]
  /\ tagVocabulary \subseteq TagNames
  /\ notes \in [Candidates -> SUBSET NoteIds]
  /\ noting \in [Members -> Noting]
  /\ answeredNotes \subseteq NoteIds

EventsOf(c, types) == {i \in DOMAIN timeline[c] : timeline[c][i].type \in types}
StatusEvents(c) == EventsOf(c, {"pipeline_status_changed"})
IsLast(i, indices) == \A j \in indices : j <= i

\* The timeline explains the row: from pending_review on, each status change starts
\* where the one before it ended and is an allowed transition, the last one ended at
\* the present status, and the last archive entry says whether the row is archived.
\* A review that advances the status writes the row and the timeline in two places
\* (candidate-workflow.ts:171).
TimelineExplainsCandidate ==
  \A c \in Candidates :
    /\ \A i \in StatusEvents(c) :
         /\ timeline[c][i].next \in allowedTransitions[timeline[c][i].previous]
         /\ (\A j \in StatusEvents(c) : i <= j) => timeline[c][i].previous = "pending_review"
         /\ IsLast(i, StatusEvents(c)) => timeline[c][i].next = candidate[c].pipelineStatus
         /\ \A j \in StatusEvents(c) :
              (i < j /\ ~ \E k \in StatusEvents(c) : i < k /\ k < j)
                => timeline[c][j].previous = timeline[c][i].next
    /\ StatusEvents(c) = {} => candidate[c].pipelineStatus = "pending_review"
    /\ \A i \in EventsOf(c, {"archived", "unarchived"}) :
         IsLast(i, EventsOf(c, {"archived", "unarchived"}))
           => candidate[c].archived = (timeline[c][i].type = "archived")
    /\ EventsOf(c, {"archived", "unarchived"}) = {} => ~candidate[c].archived

\* A creator is in the library exactly when one of its stored observations passes the
\* rules of the run that made it, as the console recomputes them, and no later
\* observation takes it out again (collector-ingestion.ts:340,
\* run-observed-creators.ts:72).
AdmissionIsExplained ==
  \A c \in Candidates :
    /\ Exists(c) <=> \E i \in DOMAIN observations[c] :
                       RecomputedVerdict(observations[c][i]) = "pass"
    /\ candidate[c].hardFilterStatus = "pass"

\* A verdict of pass or fail is final: whatever the page hid, the complete facts would
\* have given the same verdict (hard-filter.ts:43).  What is still open is unknown.
VerdictsSurviveMissingFacts ==
  \A c \in Candidates : \A i \in DOMAIN observations[c] :
    LET observation == observations[c][i]
    IN  Verdict(observation) # "unknown"
          => \A full \in CompleteFacts :
               Completes(full, observation.facts)
                 => EvaluateHardFilters(RulesOf[observation.run], full) = Verdict(observation)

\* Whoever may work on a candidate finds it in the library: there is an observation to
\* show, the detail page opens that observation, and there is a date to sort by
\* (candidate-access.ts:29, 55, 100; owner_assigned_at of candidate-workflow.ts:433).
VisibleIsShown ==
  \A m \in Members, c \in Candidates :
    Readable(m, c) =>
      /\ visibleObservationIds(m, c) # {}
      /\ visibleObservationIds(m, c) \subseteq detailObservations(m, c)
      /\ firstVisibleAt(m, c) # {}

\* A note whose success was answered is stored and on the timeline, although its four
\* statements are no transaction; a timeline entry never names a note that is not
\* stored (candidate-workflow.ts:500).
AnsweredNotesAreOnTimeline ==
  /\ \A n \in answeredNotes : \E c \in Candidates :
       n \in notes[c] /\ \E i \in EventsOf(c, {"note_added"}) : timeline[c][i].note = n
  /\ \A c \in Candidates : \A i \in EventsOf(c, {"note_added"}) :
       timeline[c][i].note \in notes[c]
=============================================================================
