----------------------- MODULE CandidateWorkflowProofs -----------------------
(***************************************************************************)
(* CandidateWorkflow, for any members, candidates, runs, rules and facts.  *)
(*                                                                         *)
(* The type invariant carries most of it: a verdict of a well formed       *)
(* observation is sound (HardFilterProofs).  What the library shows needs  *)
(* two facts about rows that different handlers write: the latest          *)
(* observation of a candidate is stored, and an owner is dated.  A note    *)
(* that is being written needs to be followed through its statements.      *)
(***************************************************************************)
EXTENDS CandidateWorkflow, HardFilterProofs, WellFoundedInduction

Latest == \A c \in Candidates : Exists(c) => candidate[c].latest \in DOMAIN observations[c]

\* Nothing is decided about a creator before it is a candidate.
Blank == \A c \in Candidates :
           ~Exists(c) => candidate[c].pipelineStatus = "pending_review" /\ candidate[c].archived = FALSE

Dated == \A c \in Candidates :
           outreach[c].owner # NoMember => outreach[c].assignedAt # 0

OnTimeline(c, n) == \E i \in EventsOf(c, {"note_added"}) : timeline[c][i].note = n

NotesInWork ==
  \A m \in Members :
    /\ noting[m].step \in {"inserted", "announced"} =>
         noting[m].note \in notes[noting[m].candidate]
    /\ noting[m].step = "announced" => OnTimeline(noting[m].candidate, noting[m].note)

IInv ==
  /\ WorkflowTypeOK
  /\ Latest
  /\ Blank
  /\ Dated
  /\ NotesInWork
  /\ AdmissionIsExplained
  /\ AnsweredNotesAreOnTimeline
  /\ TimelineExplainsCandidate

-----------------------------------------------------------------------------
(* Sequences.                                                              *)

LEMMA OneMore ==
  ASSUME NEW S, NEW s \in Seq(S), NEW e \in S
  PROVE  /\ s \o <<e>> = Append(s, e)
         /\ Append(s, e) \in Seq(S)
         /\ DOMAIN Append(s, e) = DOMAIN s \cup {Len(s) + 1}
         /\ \A i \in DOMAIN s : Append(s, e)[i] = s[i] /\ i < Len(s) + 1
         /\ Append(s, e)[Len(s) + 1] = e
         /\ Len(s) + 1 \notin DOMAIN s
         /\ DOMAIN s \subseteq Nat /\ Len(s) \in Nat
OBVIOUS

LEMMA NoneMore ==
  ASSUME NEW S, NEW s \in Seq(S)
  PROVE  s \o <<>> = s
OBVIOUS

LEMMA TwoMore ==
  ASSUME NEW S, NEW s \in Seq(S), NEW d \in S, NEW e \in S
  PROVE  s \o (<<d>> \o <<e>>) = Append(Append(s, d), e)
OBVIOUS

-----------------------------------------------------------------------------
(* Rows.                                                                   *)

LEMMA EventsAreTyped ==
  /\ \A t \in EventTypes : Event(t) \in EventRow /\ Event(t).type = t
  /\ \A a, b \in PIPELINE_STATUSES :
       /\ StatusEvent(a, b) \in EventRow /\ StatusEvent(a, b).type = "pipeline_status_changed"
       /\ StatusEvent(a, b).previous = a /\ StatusEvent(a, b).next = b
  /\ \A n \in NoteIds :
       /\ [Event("note_added") EXCEPT !.note = n] \in EventRow
       /\ [Event("note_added") EXCEPT !.note = n].type = "note_added"
       /\ [Event("note_added") EXCEPT !.note = n].note = n
BY DEF Event, StatusEvent, EventRow, EventTypes, PIPELINE_STATUSES

LEMMA RowsAreTyped ==
  ASSUME IInv, NEW c \in Candidates
  PROVE  /\ candidate[c] \in CandidateRow /\ outreach[c] \in OutreachRow
         /\ observations[c] \in Seq(ObservationRow) /\ timeline[c] \in Seq(EventRow)
         /\ reviews[c] \in Seq(ReviewRow)
BY DEF IInv, WorkflowTypeOK

\* What a handler writes on the timeline of one candidate.
LEMMA RecordIsTyped ==
  ASSUME IInv, NEW c \in Candidates, NEW events \in Seq(EventRow), Record(c, events)
  PROVE  /\ timeline' \in [Candidates -> Seq(EventRow)]
         /\ timeline'[c] = timeline[c] \o events
         /\ \A d \in Candidates : d # c => timeline'[d] = timeline[d]
         /\ \A d \in Candidates : \A i \in DOMAIN timeline[d] :
              i \in DOMAIN timeline'[d] /\ timeline'[d][i] = timeline[d][i]
<1>1. timeline \in [Candidates -> Seq(EventRow)]
  BY DEF IInv, WorkflowTypeOK
<1>2. timeline[c] \o events \in Seq(EventRow)
  BY <1>1
<1>3. timeline' = [timeline EXCEPT ![c] = timeline[c] \o events]
  BY DEF Record
<1>4. \A i \in DOMAIN timeline[c] :
        i \in DOMAIN (timeline[c] \o events) /\ (timeline[c] \o events)[i] = timeline[c][i]
  BY <1>1
<1> QED BY <1>1, <1>2, <1>3, <1>4

-----------------------------------------------------------------------------
(* The timeline of one candidate, with the status and the archive mark     *)
(* that it explains.                                                       *)

StatusIn(tl) == {i \in DOMAIN tl : tl[i].type \in {"pipeline_status_changed"}}
ArchiveIn(tl) == {i \in DOMAIN tl : tl[i].type \in {"archived", "unarchived"}}

\* The entries at the places S lead from pending_review to status.
Linked(tl, S, status) ==
  /\ \A i \in S :
       /\ tl[i].next \in allowedTransitions[tl[i].previous]
       /\ (\A j \in S : i <= j) => tl[i].previous = "pending_review"
       /\ IsLast(i, S) => tl[i].next = status
       /\ \A j \in S :
            (i < j /\ ~ \E k \in S : i < k /\ k < j) => tl[j].previous = tl[i].next
  /\ S = {} => status = "pending_review"

Marked(tl, A, row) ==
  /\ \A i \in A : IsLast(i, A) => row.archived = (tl[i].type = "archived")
  /\ A = {} => ~row.archived

Explains(tl, row) ==
  Linked(tl, StatusIn(tl), row.pipelineStatus) /\ Marked(tl, ArchiveIn(tl), row)

LEMMA TimelineIsExplained ==
  /\ TimelineExplainsCandidate <=>
       \A c \in Candidates : Explains(timeline[c], candidate[c])
  /\ TimelineExplainsCandidate' <=>
       \A c \in Candidates : Explains(timeline'[c], candidate'[c])
BY DEF TimelineExplainsCandidate, Explains, Linked, Marked, StatusIn, ArchiveIn, StatusEvents,
       EventsOf

LEMMA SameLinks ==
  ASSUME NEW tl, NEW new, NEW S, NEW status, Linked(tl, S, status), \A i \in S : new[i] = tl[i]
  PROVE  Linked(new, S, status)
BY DEF Linked

LEMMA SameMarks ==
  ASSUME NEW tl, NEW new, NEW A, NEW row, NEW next, Marked(tl, A, row),
         next.archived = row.archived, \A i \in A : new[i] = tl[i]
  PROVE  Marked(new, A, next)
BY DEF Marked

LEMMA SameRow ==
  ASSUME NEW tl, NEW row, NEW next, Explains(tl, row),
         next.pipelineStatus = row.pipelineStatus, next.archived = row.archived
  PROVE  Explains(tl, next)
BY DEF Explains, Marked

\* An entry of another kind changes nothing.
LEMMA OtherEvent ==
  ASSUME NEW tl \in Seq(EventRow), NEW row, NEW next, Explains(tl, row),
         next.pipelineStatus = row.pipelineStatus, next.archived = row.archived,
         NEW e \in EventRow,
         e.type \notin {"pipeline_status_changed", "archived", "unarchived"}
  PROVE  Explains(Append(tl, e), next)
<1> DEFINE new == Append(tl, e)
<1>1. /\ DOMAIN new = DOMAIN tl \cup {Len(tl) + 1}
      /\ \A i \in DOMAIN tl : new[i] = tl[i]
      /\ new[Len(tl) + 1] = e
  BY OneMore
<1> HIDE DEF new
<1>2. StatusIn(new) = StatusIn(tl) /\ ArchiveIn(new) = ArchiveIn(tl)
  BY <1>1 DEF StatusIn, ArchiveIn
<1>3. /\ \A i \in StatusIn(tl) : new[i] = tl[i]
      /\ \A i \in ArchiveIn(tl) : new[i] = tl[i]
  BY <1>1 DEF StatusIn, ArchiveIn
<1>4. Explains(new, next)
  BY <1>2, <1>3, SameLinks, SameMarks DEF Explains
<1> QED BY <1>4 DEF new

\* An allowed transition from the present status, put at the end.
LEMMA NextStatus ==
  ASSUME NEW tl \in Seq(EventRow), NEW row, NEW next, Explains(tl, row),
         next.archived = row.archived,
         NEW e \in EventRow, e.type = "pipeline_status_changed",
         e.previous = row.pipelineStatus, e.next = next.pipelineStatus,
         next.pipelineStatus \in allowedTransitions[row.pipelineStatus]
  PROVE  Explains(Append(tl, e), next)
<1> DEFINE new == Append(tl, e)
           n == Len(tl) + 1
           status == row.pipelineStatus
           S == StatusIn(tl)
           T == StatusIn(new)
<1>1. /\ DOMAIN new = DOMAIN tl \cup {n}
      /\ \A i \in DOMAIN tl : new[i] = tl[i] /\ i < n
      /\ new[n] = e /\ n \in Nat /\ DOMAIN tl \subseteq Nat
  BY OneMore
<1> HIDE DEF new
<1>2. T = S \cup {n} /\ ArchiveIn(new) = ArchiveIn(tl)
  BY <1>1 DEF StatusIn, ArchiveIn
<1>3. Marked(new, ArchiveIn(new), next)
  <2>1. \A i \in ArchiveIn(tl) : new[i] = tl[i]
    BY <1>1 DEF ArchiveIn
  <2> QED BY <1>2, <2>1, SameMarks DEF Explains
<1>4. S \subseteq Nat /\ \A i \in S : new[i] = tl[i] /\ i < n
  BY <1>1 DEF StatusIn
<1>5. Linked(tl, S, status)
  BY DEF Explains
<1> HIDE DEF S, T, n
<1>6. Linked(new, T, e.next)
  <2>1. T # {}
    BY <1>2
  <2> SUFFICES ASSUME NEW i \in T
               PROVE  /\ new[i].next \in allowedTransitions[new[i].previous]
                      /\ (\A j \in T : i <= j) => new[i].previous = "pending_review"
                      /\ IsLast(i, T) => new[i].next = e.next
                      /\ \A j \in T : (i < j /\ ~ \E k \in T : i < k /\ k < j)
                                        => new[j].previous = new[i].next
    BY <2>1 DEF Linked
  <2>2. CASE i = n
    <3>1. new[i].previous = status /\ new[i].next = e.next
      BY <1>1, <2>2
    <3>2. (\A j \in T : i <= j) => new[i].previous = "pending_review"
      <4> SUFFICES ASSUME \A j \in T : i <= j PROVE status = "pending_review"
        BY <3>1
      <4>1. S = {}
        BY <1>1, <1>2, <1>4, <2>2
      <4> QED BY <1>5, <4>1 DEF Linked
    <3>3. \A j \in T : ~(i < j)
      BY <1>1, <1>2, <1>4, <2>2
    <3> QED BY <3>1, <3>2, <3>3
  <2>3. CASE i \in S
    <3>1. new[i] = tl[i] /\ i < n /\ i \in Nat
      BY <1>4, <2>3
    <3>2. new[i].next \in allowedTransitions[new[i].previous]
      BY <1>5, <2>3, <3>1 DEF Linked
    <3>3. (\A j \in T : i <= j) => new[i].previous = "pending_review"
      BY <1>2, <1>5, <2>3, <3>1 DEF Linked
    <3>4. ~IsLast(i, T)
      <4>1. n \in T /\ ~(n <= i)
        BY <1>1, <1>2, <3>1
      <4> QED BY <4>1 DEF IsLast
    <3>5. ASSUME NEW j \in T, i < j, ~ \E k \in T : i < k /\ k < j
          PROVE  new[j].previous = new[i].next
      <4>1. CASE j \in S
        BY <1>2, <1>4, <1>5, <2>3, <3>1, <3>5, <4>1 DEF Linked
      <4>2. CASE j = n
        <5>1. \A k \in S : k <= i
          BY <1>1, <1>2, <1>4, <3>1, <3>5, <4>2
        <5>2. tl[i].next = status
          BY <1>5, <2>3, <5>1 DEF Linked, IsLast
        <5> QED BY <1>1, <3>1, <4>2, <5>2
      <4> QED BY <1>2, <4>1, <4>2
    <3> QED BY <3>2, <3>3, <3>4, <3>5
  <2> QED BY <1>2, <2>2, <2>3
<1>7. Explains(new, next)
  BY <1>3, <1>6 DEF Explains, T
<1> QED BY <1>7 DEF new

\* An entry of the archive, put at the end.
LEMMA NextMark ==
  ASSUME NEW tl \in Seq(EventRow), NEW row, NEW next, Explains(tl, row),
         NEW e \in EventRow, next.archived \in BOOLEAN,
         next.pipelineStatus = row.pipelineStatus,
         e.type = IF next.archived THEN "archived" ELSE "unarchived"
  PROVE  Explains(Append(tl, e), next)
<1> DEFINE new == Append(tl, e)
           n == Len(tl) + 1
<1>1. /\ DOMAIN new = DOMAIN tl \cup {n}
      /\ \A i \in DOMAIN tl : new[i] = tl[i] /\ i < n
      /\ new[n] = e /\ n \in Nat /\ DOMAIN tl \subseteq Nat
  BY OneMore
<1> HIDE DEF new, n
<1>2. StatusIn(new) = StatusIn(tl) /\ ArchiveIn(new) = ArchiveIn(tl) \cup {n}
  BY <1>1 DEF StatusIn, ArchiveIn
<1>3. Linked(new, StatusIn(new), next.pipelineStatus)
  <2>1. \A i \in StatusIn(tl) : new[i] = tl[i]
    BY <1>1 DEF StatusIn
  <2> QED BY <1>2, <2>1, SameLinks DEF Explains
<1>4. \A i \in ArchiveIn(new) : IsLast(i, ArchiveIn(new)) => i = n
  BY <1>1, <1>2 DEF IsLast, ArchiveIn
<1>5. next.archived = (new[n].type = "archived")
  BY <1>1
<1>6. Marked(new, ArchiveIn(new), next)
  BY <1>2, <1>4, <1>5 DEF Marked
<1>7. Explains(new, next)
  BY <1>3, <1>6 DEF Explains
<1> QED BY <1>7 DEF new

-----------------------------------------------------------------------------
(* The largest of finitely many dates.                                     *)

LEMMA SomeObservationIsNewest ==
  ASSUME IInv, NEW c \in Candidates, NEW S \in SUBSET (DOMAIN observations[c]), S # {}
  PROVE  \E i \in S : \A j \in S : ObservedAt(c, j) <= ObservedAt(c, i)
<1> DEFINE Newer(i) == {j \in S : ObservedAt(c, i) < ObservedAt(c, j)}
           counts == {Cardinality(Newer(i)) : i \in S}
<1>1. /\ IsFiniteSet(S) /\ \A i \in S : ObservedAt(c, i) \in Int
  <2>1. observations[c] \in Seq(ObservationRow)
    BY RowsAreTyped
  <2>2. DOMAIN observations[c] = 1..Len(observations[c]) /\ Len(observations[c]) \in Nat
    BY <2>1
  <2>3. IsFiniteSet(S)
    <3>1. IsFiniteSet(1..Len(observations[c]))
      BY <2>2, FS_Interval
    <3> QED BY <2>2, <3>1, FS_Subset
  <2>4. \A i \in S : observations[c][i] \in ObservationRow
    BY <2>1
  <2> QED BY <2>3, <2>4, WorkflowAssumption DEF ObservedAt, ObservationRow, Facts
<1>2. \A i \in S : IsFiniteSet(Newer(i)) /\ Cardinality(Newer(i)) \in Nat
  BY <1>1, FS_Subset, FS_CardinalityType
<1>3. counts \in SUBSET Nat /\ counts # {}
  BY <1>2
<1>4. PICK n \in counts : \A m \in counts : ~(m < n)
  <2>1. PICK n \in counts : \A m \in counts : ~(<<m, n>> \in OpToRel(<, Nat))
    BY <1>3, NatLessThanWellFounded, WFMin
  <2>2. \A m \in counts : m < n => <<m, n>> \in OpToRel(<, Nat)
    BY <1>3, <2>1 DEF OpToRel
  <2> QED BY <2>1, <2>2
<1>5. PICK i \in S : n = Cardinality(Newer(i))
  BY <1>4
<1>6. ASSUME NEW j \in S, ObservedAt(c, i) < ObservedAt(c, j) PROVE FALSE
  <2>1. Newer(j) \subseteq Newer(i)
    BY <1>1, <1>5, <1>6
  <2>2. j \in Newer(i) /\ j \notin Newer(j)
    BY <1>1, <1>6
  <2>3. Cardinality(Newer(j)) <= Cardinality(Newer(i)) /\ Cardinality(Newer(j)) # Cardinality(Newer(i))
    BY <1>2, <1>5, <2>1, <2>2, FS_Subset
  <2>4. Cardinality(Newer(j)) \in counts
    OBVIOUS
  <2> HIDE DEF Newer, counts
  <2> QED BY <1>2, <1>4, <1>5, <2>3, <2>4
<1> QED BY <1>1, <1>5, <1>6

-----------------------------------------------------------------------------
(* Verdicts.                                                               *)

\* What is stored of an observation is enough to tell whether it passes.
LEMMA StoredFactsPassAlike ==
  ASSUME NEW facts \in Facts, NEW rules \in SUBSET AllRules
  PROVE  EvaluateHardFilters(rules, StoredFacts(facts)) = "pass"
           <=> EvaluateHardFilters(rules, facts) = "pass"
<1> DEFINE stored == StoredFacts(facts)
<1>1. /\ stored.followerCount = facts.followerCount /\ stored.posts = facts.posts
      /\ stored.observedAt = facts.observedAt
  BY DEF StoredFacts, Facts
<1> HIDE DEF stored
<1>2. \A rule \in rules : EvaluateRule(rule, stored) = "pass" <=> EvaluateRule(rule, facts) = "pass"
  BY <1>1 DEF EvaluateRule, FollowerRange, RecentPostLikes, MatchingPosts
<1>3. \A rule \in rules : /\ EvaluateRule(rule, stored) \in Outcomes
                          /\ EvaluateRule(rule, facts) \in Outcomes
  BY DEF EvaluateRule, FollowerRange, RecentPostLikes, Outcomes
<1>4. EvaluateHardFilters(rules, stored) = "pass"
        <=> \A rule \in rules : EvaluateRule(rule, stored) = "pass"
  BY <1>3 DEF EvaluateHardFilters, CombineOutcomes, Outcomes
<1>5. EvaluateHardFilters(rules, facts) = "pass"
        <=> \A rule \in rules : EvaluateRule(rule, facts) = "pass"
  BY <1>3 DEF EvaluateHardFilters, CombineOutcomes, Outcomes
<1>6. EvaluateHardFilters(rules, stored) = "pass" <=> EvaluateHardFilters(rules, facts) = "pass"
  BY <1>2, <1>4, <1>5
<1> QED BY <1>6 DEF stored

LEMMA RecomputedAlike ==
  ASSUME NEW observation \in ObservationRow
  PROVE  RecomputedVerdict(observation) = "pass" <=> Verdict(observation) = "pass"
<1>1. observation.facts \in Facts /\ RulesOf[observation.run] \in SUBSET AllRules
  BY WorkflowAssumption DEF ObservationRow, AllRules
<1> QED BY <1>1, StoredFactsPassAlike DEF RecomputedVerdict, Verdict

LEMMA VerdictsAreFinal == IInv => VerdictsSurviveMissingFacts
<1> SUFFICES ASSUME IInv, NEW c \in Candidates, NEW i \in DOMAIN observations[c],
                    Verdict(observations[c][i]) # "unknown",
                    NEW full \in CompleteFacts, Completes(full, observations[c][i].facts)
             PROVE  EvaluateHardFilters(RulesOf[observations[c][i].run], full)
                      = Verdict(observations[c][i])
  BY DEF VerdictsSurviveMissingFacts
<1>1. observations[c] \in Seq(ObservationRow)
  BY RowsAreTyped
<1>2. observations[c][i] \in ObservationRow
  BY <1>1
<1>3. /\ observations[c][i].facts \in Facts /\ full \in Facts
      /\ RulesOf[observations[c][i].run] \in SUBSET AllRules
  BY <1>2, WorkflowAssumption DEF ObservationRow, AllRules
<1> QED BY <1>3, VerdictIsSound DEF Verdict

\* Whoever may read a candidate is shown an observation.
LEMMA ReadableIsShown == IInv => VisibleIsShown
<1> SUFFICES ASSUME IInv, NEW m \in Members, NEW c \in Candidates, Readable(m, c)
             PROVE  /\ visibleObservationIds(m, c) # {}
                    /\ visibleObservationIds(m, c) \subseteq detailObservations(m, c)
                    /\ firstVisibleAt(m, c) # {}
  BY DEF VisibleIsShown
<1>1. candidate[c].latest \in DOMAIN observations[c]
  BY DEF IInv, Latest, Readable
<1>2. CASE SeesAll(m)
  BY <1>1, <1>2 DEF visibleObservationIds, detailObservations, firstVisibleAt
<1>3. CASE ~SeesAll(m) /\ OwnObservations(m, c) # {}
  <2>1. OwnObservations(m, c) \in SUBSET (DOMAIN observations[c])
    BY DEF OwnObservations
  <2>2. \E i \in OwnObservations(m, c) :
          \A j \in OwnObservations(m, c) : ObservedAt(c, j) <= ObservedAt(c, i)
    BY <1>3, <2>1, SomeObservationIsNewest
  <2> QED BY <1>3, <2>2 DEF visibleObservationIds, detailObservations, firstVisibleAt
<1>4. CASE ~SeesAll(m) /\ OwnObservations(m, c) = {}
  <2>1. outreach[c].owner = m /\ m # NoMember
    BY <1>4, WorkflowAssumption DEF Readable, candidateVisibilityPredicate
  <2>2. outreach[c].assignedAt # 0
    BY <2>1 DEF IInv, Dated
  <2> QED BY <1>4, <2>1, <2>2 DEF visibleObservationIds, detailObservations, firstVisibleAt
<1> QED BY <1>2, <1>3, <1>4

-----------------------------------------------------------------------------
(* Notes.                                                                  *)

LEMMA NothingNoted ==
  ASSUME IInv, notes' = notes, noting' = noting, answeredNotes' = answeredNotes,
         timeline' = timeline
  PROVE  NotesInWork' /\ AnsweredNotesAreOnTimeline'
<1>1. NotesInWork'
  <2>1. NotesInWork
    BY DEF IInv
  <2> QED BY <2>1 DEF NotesInWork, OnTimeline, EventsOf
<1>2. AnsweredNotesAreOnTimeline'
  <2>1. AnsweredNotesAreOnTimeline
    BY DEF IInv
  <2> QED BY <2>1 DEF AnsweredNotesAreOnTimeline, EventsOf
<1> QED BY <1>1, <1>2

\* An entry stays on the timeline.
LEMMA StaysOnTimeline ==
  ASSUME IInv, NEW c \in Candidates, NEW events \in Seq(EventRow), Record(c, events),
         NEW d \in Candidates, NEW n, OnTimeline(d, n)
  PROVE  OnTimeline(d, n)'
<1>1. PICK i \in EventsOf(d, {"note_added"}) : timeline[d][i].note = n
  BY DEF OnTimeline
<1>2. i \in DOMAIN timeline[d] /\ timeline[d][i].type \in {"note_added"}
  BY <1>1 DEF EventsOf
<1>3. i \in DOMAIN timeline'[d] /\ timeline'[d][i] = timeline[d][i]
  BY <1>2, RecordIsTyped
<1> QED BY <1>1, <1>2, <1>3 DEF OnTimeline, EventsOf

LEMMA AnsweredIsOnTimeline ==
  AnsweredNotesAreOnTimeline <=>
    /\ \A n \in answeredNotes : \E c \in Candidates : n \in notes[c] /\ OnTimeline(c, n)
    /\ \A c \in Candidates : \A i \in DOMAIN timeline[c] :
         timeline[c][i].type = "note_added" => timeline[c][i].note \in notes[c]
BY DEF AnsweredNotesAreOnTimeline, OnTimeline, EventsOf

LEMMA AnsweredIsOnTimelineNext ==
  AnsweredNotesAreOnTimeline' <=>
    /\ \A n \in answeredNotes' : \E c \in Candidates : n \in notes'[c] /\ OnTimeline(c, n)'
    /\ \A c \in Candidates : \A i \in DOMAIN timeline'[c] :
         timeline'[c][i].type = "note_added" => timeline'[c][i].note \in notes'[c]
BY DEF AnsweredNotesAreOnTimeline, OnTimeline, EventsOf

\* Entries of other kinds leave the notes alone.
LEMMA QuietNotes ==
  ASSUME IInv, NEW c \in Candidates, NEW events \in Seq(EventRow), Record(c, events),
         notes' = notes, noting' = noting, answeredNotes' = answeredNotes,
         \A i \in DOMAIN timeline'[c] :
           i \in DOMAIN timeline[c] \/ timeline'[c][i].type # "note_added"
  PROVE  NotesInWork' /\ AnsweredNotesAreOnTimeline'
<1>1. \A d \in Candidates : \A n : OnTimeline(d, n) => OnTimeline(d, n)'
  BY StaysOnTimeline
<1>2. \A m \in Members : noting[m].candidate \in Candidates
  BY DEF IInv, WorkflowTypeOK, Noting
<1> HIDE DEF OnTimeline
<1>3. NotesInWork'
  <2>1. NotesInWork
    BY DEF IInv
  <2> SUFFICES ASSUME NEW m \in Members
               PROVE  /\ noting[m].step \in {"inserted", "announced"} =>
                           noting[m].note \in notes[noting[m].candidate]
                      /\ noting[m].step = "announced" =>
                           OnTimeline(noting[m].candidate, noting[m].note)'
    BY <1>1, <1>2 DEF NotesInWork, OnTimeline, EventsOf
  <2> QED BY <1>1, <1>2, <2>1 DEF NotesInWork
<1>4. AnsweredNotesAreOnTimeline'
  <2>1. /\ \A n \in answeredNotes : \E d \in Candidates : n \in notes[d] /\ OnTimeline(d, n)
        /\ \A d \in Candidates : \A i \in DOMAIN timeline[d] :
             timeline[d][i].type = "note_added" => timeline[d][i].note \in notes[d]
    BY AnsweredIsOnTimeline DEF IInv
  <2>2. \A n \in answeredNotes' : \E d \in Candidates : n \in notes'[d] /\ OnTimeline(d, n)'
    BY <1>1, <2>1
  <2>3. \A d \in Candidates : \A i \in DOMAIN timeline'[d] :
          timeline'[d][i].type = "note_added" => timeline'[d][i].note \in notes'[d]
    <3>1. \A d \in Candidates : d # c => timeline'[d] = timeline[d]
      BY RecordIsTyped
    <3>2. \A i \in DOMAIN timeline[c] : timeline'[c][i] = timeline[c][i]
      BY RecordIsTyped
    <3> QED BY <2>1, <3>1, <3>2
  <2> QED BY <2>2, <2>3, AnsweredIsOnTimelineNext
<1> QED BY <1>3, <1>4

-----------------------------------------------------------------------------
(* Ingestion.                                                              *)

LEMMA ingestKeeps ==
  ASSUME IInv, NEW c \in Candidates, NEW o \in ObservationRow, ingestCreatorObservation(c, o)
  PROVE  IInv'
<1> DEFINE n == Len(observations[c]) + 1
<1>1. /\ observations \in [Candidates -> Seq(ObservationRow)]
      /\ candidate \in [Candidates -> CandidateRow]
      /\ observations' = [observations EXCEPT ![c] = Append(observations[c], o)]
      /\ reviews' = reviews /\ outreach' = outreach /\ timeline' = timeline
      /\ tagVocabulary' = tagVocabulary /\ candidateTags' = candidateTags
      /\ notes' = notes /\ noting' = noting /\ answeredNotes' = answeredNotes
  BY DEF ingestCreatorObservation, IInv, WorkflowTypeOK
<1>2. /\ observations' \in [Candidates -> Seq(ObservationRow)]
      /\ DOMAIN observations'[c] = DOMAIN observations[c] \cup {n} /\ n \in Nat
      /\ \A i \in DOMAIN observations[c] : observations'[c][i] = observations[c][i]
      /\ observations'[c][n] = o
      /\ \A d \in Candidates : d # c => observations'[d] = observations[d]
  BY <1>1, OneMore
<1> HIDE DEF n
<1>7. Dated' /\ NotesInWork' /\ AnsweredNotesAreOnTimeline'
  BY <1>1, NothingNoted DEF IInv, Dated
<1>8. candidate[c] \in CandidateRow
  BY <1>1
<1>3. findOrCreateCandidate(c, o)
  BY DEF ingestCreatorObservation
<1>4. CASE Exists(c)
  <2>1. /\ candidate' = [candidate EXCEPT ![c].version = @ + 1, ![c].latest = n]
    BY <1>3, <1>4 DEF findOrCreateCandidate, n
  <2>2. /\ candidate' \in [Candidates -> CandidateRow]
        /\ \A d \in Candidates : d # c => candidate'[d] = candidate[d]
        /\ candidate'[c].latest = n /\ candidate'[c].version > 0 /\ candidate[c].version > 0
        /\ candidate'[c].hardFilterStatus = candidate[c].hardFilterStatus
        /\ candidate'[c].pipelineStatus = candidate[c].pipelineStatus
        /\ candidate'[c].archived = candidate[c].archived
    <3>1. candidate'[c] = [version |-> candidate[c].version + 1,
                           hardFilterStatus |-> candidate[c].hardFilterStatus,
                           pipelineStatus |-> candidate[c].pipelineStatus,
                           archived |-> candidate[c].archived, latest |-> n]
      BY <1>1, <1>8, <2>1 DEF CandidateRow
    <3>2. candidate'[c] \in CandidateRow
      BY <1>2, <1>8, <3>1 DEF CandidateRow
    <3>3. candidate' \in [Candidates -> CandidateRow]
          /\ \A d \in Candidates : d # c => candidate'[d] = candidate[d]
      BY <1>1, <2>1, <3>2
    <3>4. candidate[c].version > 0 /\ candidate[c].version \in Nat
      BY <1>4, <1>8 DEF Exists, CandidateRow
    <3> QED BY <3>1, <3>3, <3>4
  <2>3. WorkflowTypeOK'
    BY <1>1, <1>2, <2>2 DEF IInv, WorkflowTypeOK
  <2>4. Latest'
    BY <1>2, <2>2 DEF IInv, Latest, Exists
  <2>5. AdmissionIsExplained'
    BY <1>2, <2>2 DEF IInv, AdmissionIsExplained, Exists
  <2>6. TimelineExplainsCandidate'
    <3>1. \A d \in Candidates : Explains(timeline[d], candidate[d])
      BY TimelineIsExplained DEF IInv
    <3>2. Explains(timeline[c], candidate'[c])
      BY <2>2, <3>1, SameRow
    <3>3. \A d \in Candidates : Explains(timeline'[d], candidate'[d])
      BY <1>1, <2>2, <3>1, <3>2
    <3> QED BY <3>3, TimelineIsExplained
  <2>7. Blank'
    BY <2>2 DEF IInv, Blank, Exists
  <2> QED BY <1>7, <2>3, <2>4, <2>5, <2>6, <2>7 DEF IInv
<1>5. CASE ~Exists(c) /\ Verdict(o) = "pass"
  <2>1. candidate' = [candidate EXCEPT ![c] = [NoRow EXCEPT !.version = 1, !.latest = n]]
    BY <1>3, <1>5 DEF findOrCreateCandidate, n
  <2>2. /\ candidate' \in [Candidates -> CandidateRow]
        /\ \A d \in Candidates : d # c => candidate'[d] = candidate[d]
        /\ candidate'[c].latest = n /\ candidate'[c].version > 0
        /\ candidate'[c].hardFilterStatus = "pass"
        /\ candidate'[c].pipelineStatus = "pending_review" /\ candidate'[c].archived = FALSE
    <3>1. candidate'[c] = [version |-> 1, hardFilterStatus |-> "pass",
                           pipelineStatus |-> "pending_review", archived |-> FALSE, latest |-> n]
      BY <1>1, <2>1 DEF NoRow
    <3>2. candidate'[c] \in CandidateRow
      BY <1>2, <3>1 DEF CandidateRow, Outcomes, PIPELINE_STATUSES
    <3>3. candidate' \in [Candidates -> CandidateRow]
          /\ \A d \in Candidates : d # c => candidate'[d] = candidate[d]
      BY <1>1, <2>1, <3>2
    <3> QED BY <3>1, <3>3
  <2>3. WorkflowTypeOK'
    BY <1>1, <1>2, <2>2 DEF IInv, WorkflowTypeOK
  <2>4. Latest'
    BY <1>2, <2>2 DEF IInv, Latest, Exists
  <2>5. AdmissionIsExplained'
    <3>1. RecomputedVerdict(o) = "pass"
      BY <1>5, RecomputedAlike
    <3> QED BY <1>2, <2>2, <3>1 DEF IInv, AdmissionIsExplained, Exists
  <2>6. TimelineExplainsCandidate'
    <3>1. \A d \in Candidates : Explains(timeline[d], candidate[d])
      BY TimelineIsExplained DEF IInv
    <3>2. candidate[c].pipelineStatus = "pending_review" /\ candidate[c].archived = FALSE
      BY <1>5 DEF IInv, Blank
    <3>3. candidate'[c].pipelineStatus = candidate[c].pipelineStatus
          /\ candidate'[c].archived = candidate[c].archived
      BY <2>2, <3>2
    <3>4. Explains(timeline[c], candidate'[c])
      BY <3>1, <3>3, SameRow
    <3>5. \A d \in Candidates : Explains(timeline'[d], candidate'[d])
      BY <1>1, <2>2, <3>1, <3>4
    <3> QED BY <3>5, TimelineIsExplained
  <2>7. Blank'
    BY <2>2 DEF IInv, Blank, Exists
  <2> QED BY <1>7, <2>3, <2>4, <2>5, <2>6, <2>7 DEF IInv
<1>6. CASE ~Exists(c) /\ Verdict(o) # "pass"
  <2>1. UNCHANGED candidate
    BY <1>3, <1>6 DEF findOrCreateCandidate
  <2>2. WorkflowTypeOK'
    BY <1>1, <1>2, <2>1 DEF IInv, WorkflowTypeOK
  <2>3. Latest'
    BY <1>2, <2>1 DEF IInv, Latest, Exists
  <2>4. AdmissionIsExplained'
    <3>1. RecomputedVerdict(o) # "pass"
      BY <1>6, RecomputedAlike
    <3> QED BY <1>2, <1>6, <2>1, <3>1 DEF IInv, AdmissionIsExplained, Exists
  <2>5. TimelineExplainsCandidate'
    BY <1>1, <2>1, TimelineIsExplained DEF IInv
  <2>6. Blank'
    BY <2>1 DEF IInv, Blank, Exists
  <2> QED BY <1>7, <2>2, <2>3, <2>4, <2>5, <2>6 DEF IInv
<1> QED BY <1>4, <1>5, <1>6

-----------------------------------------------------------------------------
(* The team's work.                                                        *)

\* A decision writes the candidate's row and its timeline together.
LEMMA DecisionKeeps ==
  ASSUME IInv, NEW c \in Candidates, Exists(c),
         candidate' \in [Candidates -> CandidateRow],
         \A d \in Candidates : d # c => candidate'[d] = candidate[d],
         candidate'[c].version > 0, candidate'[c].latest = candidate[c].latest,
         candidate'[c].hardFilterStatus = candidate[c].hardFilterStatus,
         NEW events \in Seq(EventRow), Record(c, events), Explains(timeline'[c], candidate'[c]),
         \A i \in DOMAIN timeline'[c] :
           i \in DOMAIN timeline[c] \/ timeline'[c][i].type # "note_added",
         reviews' \in [Candidates -> Seq(ReviewRow)],
         observations' = observations, outreach' = outreach, tagVocabulary' = tagVocabulary,
         candidateTags' = candidateTags, notes' = notes, noting' = noting,
         answeredNotes' = answeredNotes
  PROVE  IInv'
<1>5. candidate[c].version > 0
  BY DEF Exists
<1>6. /\ timeline' \in [Candidates -> Seq(EventRow)]
      /\ \A d \in Candidates : d # c => timeline'[d] = timeline[d]
  BY RecordIsTyped
<1>7. WorkflowTypeOK'
  BY <1>6 DEF IInv, WorkflowTypeOK
<1>8. Latest' /\ Blank'
  BY <1>5 DEF IInv, Latest, Blank, Exists
<1>9. Dated'
  BY DEF IInv, Dated
<1>10. NotesInWork' /\ AnsweredNotesAreOnTimeline'
  BY QuietNotes
<1>11. AdmissionIsExplained'
  BY <1>5 DEF IInv, AdmissionIsExplained, Exists
<1>12. TimelineExplainsCandidate'
  <2>1. \A d \in Candidates : Explains(timeline[d], candidate[d])
    BY TimelineIsExplained DEF IInv
  <2>2. \A d \in Candidates : Explains(timeline'[d], candidate'[d])
    BY <1>6, <2>1
  <2> QED BY <2>2, TimelineIsExplained
<1> QED BY <1>7, <1>8, <1>9, <1>10, <1>11, <1>12 DEF IInv

\* A timeline that grows by one entry.
LEMMA RecordOne ==
  ASSUME IInv, NEW c \in Candidates, NEW e \in EventRow, Record(c, <<e>>)
  PROVE  /\ <<e>> \in Seq(EventRow)
         /\ timeline'[c] = Append(timeline[c], e)
         /\ \A i \in DOMAIN timeline'[c] : i \in DOMAIN timeline[c] \/ timeline'[c][i] = e
<1>1. <<e>> \in Seq(EventRow) /\ timeline[c] \in Seq(EventRow)
  BY RowsAreTyped
<1>2. timeline'[c] = timeline[c] \o <<e>>
  BY <1>1, RecordIsTyped
<1>3. timeline'[c] = Append(timeline[c], e)
  BY <1>1, <1>2, OneMore
<1>4. \A i \in DOMAIN Append(timeline[c], e) :
        i \in DOMAIN timeline[c] \/ Append(timeline[c], e)[i] = e
  BY <1>1, OneMore
<1> QED BY <1>1, <1>3, <1>4

LEMMA OneDecisionKeeps ==
  ASSUME IInv, NEW c \in Candidates, Exists(c),
         candidate' \in [Candidates -> CandidateRow],
         \A d \in Candidates : d # c => candidate'[d] = candidate[d],
         candidate'[c].version > 0, candidate'[c].latest = candidate[c].latest,
         candidate'[c].hardFilterStatus = candidate[c].hardFilterStatus,
         NEW e \in EventRow, Record(c, <<e>>), e.type # "note_added",
         Explains(Append(timeline[c], e), candidate'[c]),
         reviews' \in [Candidates -> Seq(ReviewRow)],
         observations' = observations, outreach' = outreach, tagVocabulary' = tagVocabulary,
         candidateTags' = candidateTags, notes' = notes, noting' = noting,
         answeredNotes' = answeredNotes
  PROVE  IInv'
<1> DEFINE events == <<e>>
<1>1. events \in Seq(EventRow) /\ Record(c, events)
  BY RecordOne
<1>2. Explains(timeline'[c], candidate'[c])
  BY RecordOne
<1>3. \A i \in DOMAIN timeline'[c] :
        i \in DOMAIN timeline[c] \/ timeline'[c][i].type # "note_added"
  BY RecordOne
<1> HIDE DEF events
<1> QED BY <1>1, <1>2, <1>3, DecisionKeeps

\* What a handler is given of the timeline and the row of its candidate.
LEMMA Given ==
  ASSUME IInv, NEW c \in Candidates
  PROVE  /\ timeline[c] \in Seq(EventRow)
         /\ Explains(timeline[c], candidate[c])
         /\ candidate \in [Candidates -> CandidateRow] /\ candidate[c] \in CandidateRow
         /\ candidate[c].pipelineStatus \in PIPELINE_STATUSES
         /\ candidate[c].archived \in BOOLEAN /\ candidate[c].version \in Nat
<1>1. \A d \in Candidates : Explains(timeline[d], candidate[d])
  BY TimelineIsExplained DEF IInv
<1>2. candidate \in [Candidates -> CandidateRow] /\ timeline \in [Candidates -> Seq(EventRow)]
  BY DEF IInv, WorkflowTypeOK
<1>3. candidate[c] \in CandidateRow
  BY <1>2
<1> QED BY <1>1, <1>2, <1>3 DEF CandidateRow

\* A write of status and archive mark.
LEMMA RowIsWritten ==
  ASSUME IInv, NEW c \in Candidates, NEW row \in CandidateRow,
         candidate' = [candidate EXCEPT ![c] = row], row.version = candidate[c].version + 1
  PROVE  /\ candidate' \in [Candidates -> CandidateRow] /\ candidate'[c] = row
         /\ \A d \in Candidates : d # c => candidate'[d] = candidate[d]
         /\ candidate'[c].version > 0
<1>1. candidate \in [Candidates -> CandidateRow] /\ candidate[c].version \in Nat
  BY Given
<1> QED BY <1>1

LEMMA submitManualReviewKeeps ==
  ASSUME IInv, NEW m \in Members, NEW c \in Candidates, NEW decision \in ManualDecisions,
         NEW expected \in Nat, submitManualReview(m, c, decision, expected)
  PROVE  IInv'
<1> DEFINE status == candidate[c].pipelineStatus
           next == AdvancedStatus(c, decision)
           advance == IF next = status THEN <<>> ELSE <<StatusEvent(status, next)>>
           reviewed == Event("manual_reviewed")
<1>0. /\ reviews' = [reviews EXCEPT ![c] = Append(@, [decision |-> decision, base |-> expected])]
      /\ candidate' = [candidate EXCEPT ![c].pipelineStatus = next, ![c].version = @ + 1]
  BY DEF submitManualReview
<1>1. /\ Exists(c) /\ Record(c, advance \o <<reviewed>>)
      /\ observations' = observations /\ outreach' = outreach
      /\ tagVocabulary' = tagVocabulary /\ candidateTags' = candidateTags
      /\ notes' = notes /\ noting' = noting /\ answeredNotes' = answeredNotes
  BY DEF submitManualReview, LockCandidate, Readable, tagVars, noteVars
<1>2. /\ timeline[c] \in Seq(EventRow) /\ Explains(timeline[c], candidate[c])
      /\ candidate \in [Candidates -> CandidateRow] /\ candidate[c] \in CandidateRow
      /\ status \in PIPELINE_STATUSES
  BY Given
<1>3. /\ next \in PIPELINE_STATUSES
      /\ next # status => next \in allowedTransitions[status]
  BY <1>2 DEF AdvancedStatus, PIPELINE_STATUSES, allowedTransitions
<1>4. reviewed \in EventRow /\ reviewed.type = "manual_reviewed"
  BY EventsAreTyped DEF EventTypes
<1>5. /\ StatusEvent(status, next) \in EventRow
      /\ StatusEvent(status, next).type = "pipeline_status_changed"
      /\ StatusEvent(status, next).previous = status /\ StatusEvent(status, next).next = next
  BY <1>2, <1>3, EventsAreTyped
<1>6. reviews' \in [Candidates -> Seq(ReviewRow)]
  <2>1. reviews \in [Candidates -> Seq(ReviewRow)]
    BY DEF IInv, WorkflowTypeOK
  <2>2. [decision |-> decision, base |-> expected] \in ReviewRow
    BY DEF ReviewRow
  <2> QED BY <1>0, <2>1, <2>2
<1>7. /\ candidate' \in [Candidates -> CandidateRow]
      /\ \A d \in Candidates : d # c => candidate'[d] = candidate[d]
      /\ candidate'[c].version > 0 /\ candidate'[c].latest = candidate[c].latest
      /\ candidate'[c].hardFilterStatus = candidate[c].hardFilterStatus
      /\ candidate'[c].pipelineStatus = next /\ candidate'[c].archived = candidate[c].archived
  <2> DEFINE row == [version |-> candidate[c].version + 1,
                     hardFilterStatus |-> candidate[c].hardFilterStatus,
                     pipelineStatus |-> next, archived |-> candidate[c].archived,
                     latest |-> candidate[c].latest]
  <2> HIDE DEF next
  <2>1. candidate' = [candidate EXCEPT ![c] = row]
    BY <1>0, <1>2 DEF CandidateRow
  <2>2. row \in CandidateRow
    BY <1>2, <1>3 DEF CandidateRow
  <2>3. candidate'[c] = row
    BY <2>1, <2>2, RowIsWritten
  <2> QED BY <2>1, <2>2, <2>3, RowIsWritten
<1> DEFINE e == StatusEvent(status, next)
<1> HIDE DEF next, reviewed, e
<1>8. CASE next = status
  <2>1. Record(c, <<reviewed>>) /\ reviewed \in EventRow /\ reviewed.type # "note_added"
    <3>1. <<reviewed>> \in Seq(EventRow)
      BY <1>4
    <3>2. advance \o <<reviewed>> = <<reviewed>>
      BY <1>4, <1>8, <3>1
    <3> QED BY <1>1, <1>4, <3>2
  <2>3. Explains(Append(timeline[c], reviewed), candidate'[c])
    BY <1>2, <1>4, <1>7, <1>8, OtherEvent
  <2> HIDE DEF advance
  <2> QED BY <1>1, <1>6, <1>7, <2>1, <2>3, OneDecisionKeeps
<1>9. CASE next # status
  <2>1. advance = <<e>> /\ e \in EventRow /\ e.type = "pipeline_status_changed"
        /\ e.previous = status /\ e.next = next
    BY <1>5, <1>9 DEF e
  <2> DEFINE first == Append(timeline[c], e)
             events == <<e>> \o <<reviewed>>
  <2>2. first \in Seq(EventRow) /\ DOMAIN first = DOMAIN timeline[c] \cup {Len(timeline[c]) + 1}
        /\ first[Len(timeline[c]) + 1] = e /\ \A i \in DOMAIN timeline[c] : first[i] = timeline[c][i]
    BY <1>2, <2>1, OneMore
  <2>3. events \in Seq(EventRow) /\ Record(c, events)
    BY <1>1, <1>4, <2>1
  <2>4. timeline'[c] = Append(first, reviewed)
    <3>1. timeline'[c] = timeline[c] \o events
      BY <2>3, RecordIsTyped
    <3>2. timeline[c] \in Seq(EventRow) /\ e \in EventRow /\ reviewed \in EventRow
      BY <1>2, <1>4, <2>1
    <3>3. timeline[c] \o (<<e>> \o <<reviewed>>) = Append(Append(timeline[c], e), reviewed)
      BY <3>2, TwoMore
    <3> QED BY <3>1, <3>3
  <2>5. Explains(first, candidate'[c])
    BY <1>2, <1>3, <1>7, <1>9, <2>1, NextStatus
  <2> HIDE DEF first, events, advance
  <2>6. Explains(Append(first, reviewed), candidate'[c])
    BY <1>4, <2>2, <2>5, OtherEvent
  <2>7. \A i \in DOMAIN timeline'[c] :
          i \in DOMAIN timeline[c] \/ timeline'[c][i].type # "note_added"
    BY <1>4, <2>1, <2>2, <2>4, OneMore
  <2>8. Explains(timeline'[c], candidate'[c])
    BY <2>4, <2>6
  <2> QED BY <1>1, <1>6, <1>7, <2>3, <2>7, <2>8, DecisionKeeps
<1> QED BY <1>8, <1>9

LEMMA setCandidateArchivedKeeps ==
  ASSUME IInv, NEW m \in Members, NEW c \in Candidates, NEW archived \in BOOLEAN,
         NEW expected \in Nat, setCandidateArchived(m, c, archived, expected)
  PROVE  IInv'
<1> DEFINE status == candidate[c].pipelineStatus
           type == IF archived THEN "archived" ELSE "unarchived"
           e == Event(type)
<1>0. candidate' = [candidate EXCEPT ![c].archived = archived, ![c].version = @ + 1]
  BY DEF setCandidateArchived
<1>1. /\ Exists(c)
      /\ Record(c, <<e>>)
      /\ reviews' = reviews /\ observations' = observations /\ outreach' = outreach
      /\ tagVocabulary' = tagVocabulary /\ candidateTags' = candidateTags
      /\ notes' = notes /\ noting' = noting /\ answeredNotes' = answeredNotes
  BY DEF setCandidateArchived, LockCandidate, Readable, tagVars, noteVars
<1>2. /\ timeline[c] \in Seq(EventRow) /\ Explains(timeline[c], candidate[c])
      /\ candidate \in [Candidates -> CandidateRow] /\ candidate[c] \in CandidateRow
      /\ status \in PIPELINE_STATUSES /\ candidate[c].archived \in BOOLEAN
  BY Given
<1>3. e \in EventRow /\ e.type = type /\ type # "note_added"
  BY EventsAreTyped DEF EventTypes
<1>4. /\ candidate' \in [Candidates -> CandidateRow]
      /\ \A d \in Candidates : d # c => candidate'[d] = candidate[d]
      /\ candidate'[c].version > 0 /\ candidate'[c].latest = candidate[c].latest
      /\ candidate'[c].hardFilterStatus = candidate[c].hardFilterStatus
      /\ candidate'[c].pipelineStatus = status /\ candidate'[c].archived = archived
  <2> DEFINE row == [version |-> candidate[c].version + 1,
                     hardFilterStatus |-> candidate[c].hardFilterStatus,
                     pipelineStatus |-> status, archived |-> archived,
                     latest |-> candidate[c].latest]
  <2>1. candidate' = [candidate EXCEPT ![c] = row]
    BY <1>0, <1>2 DEF CandidateRow
  <2>2. row \in CandidateRow
    BY <1>2, <1>3 DEF CandidateRow
  <2>3. candidate'[c] = row
    BY <2>1, <2>2, RowIsWritten
  <2> QED BY <2>1, <2>2, <2>3, RowIsWritten
<1> HIDE DEF e
<1>5. Explains(Append(timeline[c], e), candidate'[c])
  BY <1>2, <1>3, <1>4, NextMark
<1>6. reviews' \in [Candidates -> Seq(ReviewRow)]
  BY <1>1 DEF IInv, WorkflowTypeOK
<1>7. e.type # "note_added"
  BY <1>3
<1> QED BY <1>1, <1>3, <1>4, <1>5, <1>6, <1>7, OneDecisionKeeps

LEMMA transitionCandidatePipelineKeeps ==
  ASSUME IInv, NEW m \in Members, NEW c \in Candidates, NEW next \in PIPELINE_STATUSES,
         NEW expected \in Nat, transitionCandidatePipeline(m, c, next, expected)
  PROVE  IInv'
<1> DEFINE status == candidate[c].pipelineStatus
           e == StatusEvent(status, next)
<1>0. candidate' = [candidate EXCEPT ![c].pipelineStatus = next, ![c].version = @ + 1]
  BY DEF transitionCandidatePipeline
<1>1. /\ Exists(c) /\ next \in allowedTransitions[status]
      /\ Record(c, <<e>>)
      /\ reviews' = reviews /\ observations' = observations /\ outreach' = outreach
      /\ tagVocabulary' = tagVocabulary /\ candidateTags' = candidateTags
      /\ notes' = notes /\ noting' = noting /\ answeredNotes' = answeredNotes
  BY DEF transitionCandidatePipeline, LockCandidate, Readable, tagVars, noteVars
<1>2. /\ timeline[c] \in Seq(EventRow) /\ Explains(timeline[c], candidate[c])
      /\ candidate \in [Candidates -> CandidateRow] /\ candidate[c] \in CandidateRow
      /\ status \in PIPELINE_STATUSES
  BY Given
<1>3. /\ e \in EventRow /\ e.type = "pipeline_status_changed"
      /\ e.previous = status /\ e.next = next
  BY <1>2, EventsAreTyped
<1>4. /\ candidate' \in [Candidates -> CandidateRow]
      /\ \A d \in Candidates : d # c => candidate'[d] = candidate[d]
      /\ candidate'[c].version > 0 /\ candidate'[c].latest = candidate[c].latest
      /\ candidate'[c].hardFilterStatus = candidate[c].hardFilterStatus
      /\ candidate'[c].pipelineStatus = next /\ candidate'[c].archived = candidate[c].archived
  <2> DEFINE row == [version |-> candidate[c].version + 1,
                     hardFilterStatus |-> candidate[c].hardFilterStatus,
                     pipelineStatus |-> next, archived |-> candidate[c].archived,
                     latest |-> candidate[c].latest]
  <2>1. candidate' = [candidate EXCEPT ![c] = row]
    BY <1>0, <1>2 DEF CandidateRow
  <2>2. row \in CandidateRow
    BY <1>2, <1>3 DEF CandidateRow
  <2>3. candidate'[c] = row
    BY <2>1, <2>2, RowIsWritten
  <2> QED BY <2>1, <2>2, <2>3, RowIsWritten
<1> HIDE DEF e
<1>5. Explains(Append(timeline[c], e), candidate'[c])
  BY <1>1, <1>2, <1>3, <1>4, NextStatus
<1>6. reviews' \in [Candidates -> Seq(ReviewRow)]
  BY <1>1 DEF IInv, WorkflowTypeOK
<1>7. e.type # "note_added"
  BY <1>3
<1> QED BY <1>1, <1>3, <1>4, <1>5, <1>6, <1>7, OneDecisionKeeps

\* A handler that writes neither the candidate's row nor its status on the timeline.
LEMMA AsideKeeps ==
  ASSUME IInv, NEW c \in Candidates, candidate' = candidate,
         NEW events \in Seq(EventRow), Record(c, events),
         Explains(timeline'[c], candidate[c]),
         \A i \in DOMAIN timeline'[c] :
           i \in DOMAIN timeline[c] \/ timeline'[c][i].type # "note_added",
         WorkflowTypeOK', Dated',
         observations' = observations, notes' = notes, noting' = noting,
         answeredNotes' = answeredNotes
  PROVE  IInv'
<1>1. /\ timeline' \in [Candidates -> Seq(EventRow)]
      /\ \A d \in Candidates : d # c => timeline'[d] = timeline[d]
  BY RecordIsTyped
<1>2. Latest' /\ Blank'
  BY DEF IInv, Latest, Blank, Exists
<1>3. NotesInWork' /\ AnsweredNotesAreOnTimeline'
  BY QuietNotes
<1>4. AdmissionIsExplained'
  BY DEF IInv, AdmissionIsExplained, Exists
<1>5. TimelineExplainsCandidate'
  <2>1. \A d \in Candidates : Explains(timeline[d], candidate[d])
    BY TimelineIsExplained DEF IInv
  <2>2. \A d \in Candidates : Explains(timeline'[d], candidate'[d])
    BY <1>1, <2>1
  <2> QED BY <2>2, TimelineIsExplained
<1> QED BY <1>2, <1>3, <1>4, <1>5 DEF IInv

LEMMA setCandidateTagsKeeps ==
  ASSUME IInv, NEW m \in Members, NEW c \in Candidates, NEW requested \in SUBSET TagNames,
         setCandidateTags(m, c, requested)
  PROVE  IInv'
<1> DEFINE e == Event("tags_changed")
           added == requested \ candidateTags[c]
<1>1. /\ tagVocabulary' = tagVocabulary \cup added
      /\ candidateTags' = [candidateTags EXCEPT ![c] = requested]
      /\ Record(c, IF requested # candidateTags[c] THEN <<e>> ELSE <<>>)
      /\ candidate' = candidate /\ reviews' = reviews /\ outreach' = outreach
      /\ observations' = observations /\ notes' = notes /\ noting' = noting
      /\ answeredNotes' = answeredNotes
  BY DEF setCandidateTags, noteVars
<1>2. timeline[c] \in Seq(EventRow) /\ Explains(timeline[c], candidate[c])
  BY Given
<1>3. e \in EventRow /\ e.type = "tags_changed"
  BY EventsAreTyped DEF EventTypes
<1>4. /\ candidateTags' \in [Candidates -> SUBSET tagVocabulary']
      /\ tagVocabulary' \subseteq TagNames
  BY <1>1 DEF IInv, WorkflowTypeOK
<1>5. Dated'
  BY <1>1 DEF IInv, Dated
<1> HIDE DEF e, added
<1>6. CASE requested # candidateTags[c]
  <2> DEFINE events == <<e>>
  <2>1. events \in Seq(EventRow) /\ Record(c, events)
    BY <1>1, <1>3, <1>6
  <2>2. /\ timeline'[c] = Append(timeline[c], e)
        /\ \A i \in DOMAIN timeline'[c] : i \in DOMAIN timeline[c] \/ timeline'[c][i] = e
    BY <1>3, <2>1, RecordOne
  <2>3. Explains(timeline'[c], candidate[c])
    BY <1>2, <1>3, <2>2, OtherEvent
  <2> HIDE DEF events
  <2>4. \A i \in DOMAIN timeline'[c] :
          i \in DOMAIN timeline[c] \/ timeline'[c][i].type # "note_added"
    BY <1>3, <2>2
  <2>5. WorkflowTypeOK'
    <3>1. timeline' \in [Candidates -> Seq(EventRow)]
      BY <2>1, RecordIsTyped
    <3> QED BY <1>1, <1>4, <3>1 DEF IInv, WorkflowTypeOK
  <2> QED BY <1>1, <1>5, <2>1, <2>3, <2>4, <2>5, AsideKeeps
<1>7. CASE requested = candidateTags[c]
  <2> DEFINE events == <<>>
  <2>1. events \in Seq(EventRow) /\ Record(c, events)
    BY <1>1, <1>7
  <2>2. timeline'[c] = timeline[c]
    BY <1>2, <2>1, RecordIsTyped, NoneMore
  <2> HIDE DEF events
  <2>3. Explains(timeline'[c], candidate[c])
    BY <1>2, <2>2
  <2>4. \A i \in DOMAIN timeline'[c] :
          i \in DOMAIN timeline[c] \/ timeline'[c][i].type # "note_added"
    BY <2>2
  <2>5. WorkflowTypeOK'
    <3>1. timeline' \in [Candidates -> Seq(EventRow)]
      BY <2>1, RecordIsTyped
    <3> QED BY <1>1, <1>4, <3>1 DEF IInv, WorkflowTypeOK
  <2> QED BY <1>1, <1>5, <2>1, <2>3, <2>4, <2>5, AsideKeeps
<1> QED BY <1>6, <1>7

LEMMA updateCandidateOutreachKeeps ==
  ASSUME IInv, NEW m \in Members, NEW c \in Candidates,
         NEW owner \in Members \cup {NoMember, Unchanged},
         NEW contact \in Contacts \cup {NoContact, Unchanged}, NEW expected \in Nat,
         updateCandidateOutreach(m, c, owner, contact, expected)
  PROVE  IInv'
<1> DEFINE e == Event("outreach_updated")
           current == outreach[c]
           next == valueOrCurrent(owner, current.owner)
           row == [version    |-> current.version + 1,
                   owner      |-> next,
                   assignedAt |-> ownerAssignedAt(current, next),
                   contact    |-> valueOrCurrent(contact, current.contact)]
<1>1. /\ outreach' = [outreach EXCEPT ![c] = row]
      /\ Record(c, <<e>>)
      /\ candidate' = candidate /\ reviews' = reviews
      /\ tagVocabulary' = tagVocabulary /\ candidateTags' = candidateTags
      /\ observations' = observations /\ notes' = notes /\ noting' = noting
      /\ answeredNotes' = answeredNotes
  BY DEF updateCandidateOutreach, tagVars, noteVars
<1>2. timeline[c] \in Seq(EventRow) /\ Explains(timeline[c], candidate[c])
  BY Given
<1>3. e \in EventRow /\ e.type = "outreach_updated"
  BY EventsAreTyped DEF EventTypes
<1>4. outreach \in [Candidates -> OutreachRow] /\ current \in OutreachRow
  BY DEF IInv, WorkflowTypeOK
<1>5. /\ next \in Members \cup {NoMember}
      /\ valueOrCurrent(contact, current.contact) \in Contacts \cup {NoContact}
  BY <1>4 DEF valueOrCurrent, OutreachRow
<1>6. /\ ownerAssignedAt(current, next) \in Nat
      /\ next # NoMember => ownerAssignedAt(current, next) # 0
  <2>1. current.version \in Nat /\ current.assignedAt \in Nat
    BY <1>4 DEF OutreachRow
  <2>2. current.owner # NoMember => current.assignedAt # 0
    BY DEF IInv, Dated
  <2> HIDE DEF next, current
  <2> QED BY <2>1, <2>2 DEF ownerAssignedAt
<1>7. row \in OutreachRow /\ (row.owner # NoMember => row.assignedAt # 0)
  <2>1. current.version + 1 \in Nat
    BY <1>4 DEF OutreachRow
  <2> HIDE DEF next, current
  <2> QED BY <1>5, <1>6, <2>1 DEF OutreachRow
<1> HIDE DEF e, row, next, current
<1>8. outreach' \in [Candidates -> OutreachRow] /\ Dated'
  BY <1>1, <1>4, <1>7 DEF IInv, Dated
<1> DEFINE events == <<e>>
<1>9. events \in Seq(EventRow) /\ Record(c, events)
  BY <1>1, <1>3
<1>10. /\ timeline'[c] = Append(timeline[c], e)
       /\ \A i \in DOMAIN timeline'[c] : i \in DOMAIN timeline[c] \/ timeline'[c][i] = e
  BY <1>3, <1>9, RecordOne
<1>11. Explains(timeline'[c], candidate[c])
  BY <1>2, <1>3, <1>10, OtherEvent
<1> HIDE DEF events
<1>12. \A i \in DOMAIN timeline'[c] :
         i \in DOMAIN timeline[c] \/ timeline'[c][i].type # "note_added"
  BY <1>3, <1>10
<1>13. WorkflowTypeOK'
  <2>1. timeline' \in [Candidates -> Seq(EventRow)]
    BY <1>9, RecordIsTyped
  <2> QED BY <1>1, <1>8, <2>1 DEF IInv, WorkflowTypeOK
<1> QED BY <1>1, <1>8, <1>9, <1>11, <1>12, <1>13, AsideKeeps

-----------------------------------------------------------------------------
(* The statements of appendCandidateNote.                                  *)

LEMMA NoteKeeps ==
  ASSUME IInv, candidate' = candidate, observations' = observations, outreach' = outreach,
         WorkflowTypeOK', NotesInWork', AnsweredNotesAreOnTimeline', TimelineExplainsCandidate'
  PROVE  IInv'
<1>1. Latest' /\ Blank' /\ Dated'
  BY DEF IInv, Latest, Blank, Dated, Exists
<1>2. AdmissionIsExplained'
  BY DEF IInv, AdmissionIsExplained, Exists
<1> QED BY <1>1, <1>2 DEF IInv

LEMMA TimelineStays ==
  ASSUME IInv, candidate' = candidate, timeline' = timeline
  PROVE  TimelineExplainsCandidate'
<1>1. \A d \in Candidates : Explains(timeline[d], candidate[d])
  BY TimelineIsExplained DEF IInv
<1> QED BY <1>1, TimelineIsExplained

LEMMA NotingIs ==
  ASSUME IInv, NEW m \in Members
  PROVE  /\ noting \in [Members -> Noting] /\ noting[m] \in Noting
         /\ noting[m].candidate \in Candidates
         /\ notes \in [Candidates -> SUBSET NoteIds]
         /\ NoNote \in NoteIds \cup {NoNote}
BY DEF IInv, WorkflowTypeOK, Noting

\* A step of one member's work, seen through the row it leaves.
LEMMA NotingWritten ==
  ASSUME IInv, NEW m \in Members, NEW row \in Noting, noting' = [noting EXCEPT ![m] = row],
         timeline' = timeline, \A d \in Candidates : notes[d] \subseteq notes'[d],
         row.step = "inserted" => row.note \in notes'[row.candidate],
         row.step # "announced"
  PROVE  NotesInWork'
<1>1. /\ \A k \in Members : k # m => noting'[k] = noting[k]
      /\ noting'[m] = row
      /\ \A k \in Members : noting[k].candidate \in Candidates
  BY NotingIs
<1>2. NotesInWork
  BY DEF IInv
<1> QED BY <1>1, <1>2 DEF NotesInWork, OnTimeline, EventsOf

LEMMA CheckNoteKeeps ==
  ASSUME IInv, NEW m \in Members, NEW c \in Candidates, CheckNote(m, c)
  PROVE  IInv'
<1> DEFINE row == [candidate |-> c, note |-> NoNote, step |-> "checked"]
<1>1. /\ noting' = [noting EXCEPT ![m] = row] /\ row.step = "checked"
      /\ candidate' = candidate /\ observations' = observations /\ outreach' = outreach
      /\ reviews' = reviews /\ tagVocabulary' = tagVocabulary /\ candidateTags' = candidateTags
      /\ timeline' = timeline /\ notes' = notes /\ answeredNotes' = answeredNotes
  BY DEF CheckNote, noteUnchanged, tagVars
<1>2. row \in Noting
  BY DEF Noting
<1> HIDE DEF row
<1>3. NotesInWork'
  BY <1>1, <1>2, NotingWritten
<1>4. AnsweredNotesAreOnTimeline'
  BY <1>1 DEF IInv, AnsweredNotesAreOnTimeline, EventsOf
<1>5. WorkflowTypeOK'
  <2>1. noting' \in [Members -> Noting]
    BY <1>1, <1>2, NotingIs
  <2> QED BY <1>1, <2>1 DEF IInv, WorkflowTypeOK
<1>6. TimelineExplainsCandidate'
  BY <1>1, TimelineStays
<1> QED BY <1>1, <1>3, <1>4, <1>5, <1>6, NoteKeeps

LEMMA InsertNoteKeeps ==
  ASSUME IInv, NEW m \in Members, NEW n \in NoteIds, InsertNote(m, n)
  PROVE  IInv'
<1> DEFINE c == noting[m].candidate
           row == [candidate |-> c, note |-> n, step |-> "inserted"]
<1>1. noting' = [noting EXCEPT ![m].step = "inserted", ![m].note = n]
  BY DEF InsertNote
<1>2. /\ notes' = [notes EXCEPT ![c] = @ \cup {n}]
      /\ candidate' = candidate /\ observations' = observations /\ outreach' = outreach
      /\ reviews' = reviews /\ tagVocabulary' = tagVocabulary /\ candidateTags' = candidateTags
      /\ timeline' = timeline /\ answeredNotes' = answeredNotes
  BY DEF InsertNote, noteUnchanged, tagVars
<1>3. /\ noting \in [Members -> Noting] /\ noting[m] \in Noting /\ c \in Candidates
      /\ notes \in [Candidates -> SUBSET NoteIds]
  BY NotingIs
<1>4. row \in Noting
  BY <1>3 DEF Noting
<1>5. noting' = [noting EXCEPT ![m] = row]
  <2>1. noting[m] = [candidate |-> c, note |-> noting[m].note, step |-> noting[m].step]
    BY <1>3 DEF Noting
  <2>2. [[noting[m] EXCEPT !.step = "inserted"] EXCEPT !.note = n] = row
    <3>1. PICK d, k, step : noting[m] = [candidate |-> d, note |-> k, step |-> step]
      BY <2>1
    <3>2. [[[candidate |-> d, note |-> k, step |-> step] EXCEPT !.step = "inserted"] EXCEPT !.note = n]
            = [candidate |-> d, note |-> n, step |-> "inserted"]
      <4>1. [[candidate |-> d, note |-> k, step |-> step] EXCEPT !.step = "inserted"]
              = [candidate |-> d, note |-> k, step |-> "inserted"]
        OBVIOUS
      <4>2. [[candidate |-> d, note |-> k, step |-> "inserted"] EXCEPT !.note = n]
              = [candidate |-> d, note |-> n, step |-> "inserted"]
        OBVIOUS
      <4> QED BY <4>1, <4>2
    <3>3. c = d
      BY <3>1
    <3> QED BY <3>1, <3>2, <3>3
  <2> QED BY <1>1, <1>3, <2>2
<1>6. /\ row.step = "inserted" /\ row.note = n /\ row.candidate = c
  OBVIOUS
<1> HIDE DEF row, c
<1>7. /\ notes' \in [Candidates -> SUBSET NoteIds] /\ n \in notes'[c]
      /\ \A d \in Candidates : notes[d] \subseteq notes'[d]
  BY <1>2, <1>3
<1>8. NotesInWork'
  BY <1>2, <1>4, <1>5, <1>6, <1>7, NotingWritten
<1>9. AnsweredNotesAreOnTimeline'
  <2>1. \A d \in Candidates : \A k : OnTimeline(d, k)' <=> OnTimeline(d, k)
    BY <1>2 DEF OnTimeline, EventsOf
  <2>2. /\ \A k \in answeredNotes : \E d \in Candidates : k \in notes[d] /\ OnTimeline(d, k)
        /\ \A d \in Candidates : \A i \in DOMAIN timeline[d] :
             timeline[d][i].type = "note_added" => timeline[d][i].note \in notes[d]
    BY AnsweredIsOnTimeline DEF IInv
  <2>3. \A k \in answeredNotes' : \E d \in Candidates : k \in notes'[d] /\ OnTimeline(d, k)'
    BY <1>2, <1>7, <2>1, <2>2
  <2>4. \A d \in Candidates : \A i \in DOMAIN timeline'[d] :
          timeline'[d][i].type = "note_added" => timeline'[d][i].note \in notes'[d]
    BY <1>2, <1>7, <2>2
  <2> QED BY <2>3, <2>4, AnsweredIsOnTimelineNext
<1>10. WorkflowTypeOK'
  <2>1. noting' \in [Members -> Noting]
    BY <1>3, <1>4, <1>5
  <2> QED BY <1>2, <1>7, <2>1 DEF IInv, WorkflowTypeOK
<1>11. TimelineExplainsCandidate'
  BY <1>2, TimelineStays
<1> QED BY <1>2, <1>8, <1>9, <1>10, <1>11, NoteKeeps

LEMMA AnnounceNoteKeeps ==
  ASSUME IInv, NEW m \in Members, AnnounceNote(m)
  PROVE  IInv'
<1> DEFINE c == noting[m].candidate
           n == noting[m].note
           e == [Event("note_added") EXCEPT !.note = n]
           row == [candidate |-> c, note |-> n, step |-> "announced"]
<1>1. noting' = [noting EXCEPT ![m].step = "announced"]
  BY DEF AnnounceNote
<1>2. /\ noting[m].step = "inserted" /\ Record(c, <<e>>)
      /\ candidate' = candidate /\ observations' = observations /\ outreach' = outreach
      /\ reviews' = reviews /\ tagVocabulary' = tagVocabulary /\ candidateTags' = candidateTags
      /\ notes' = notes /\ answeredNotes' = answeredNotes
  BY DEF AnnounceNote, noteUnchanged, tagVars
<1>3. /\ noting \in [Members -> Noting] /\ noting[m] \in Noting /\ c \in Candidates
      /\ notes \in [Candidates -> SUBSET NoteIds]
  BY NotingIs
<1>4. n \in notes[c] /\ n \in NoteIds
  <2>1. n \in notes[c]
    BY <1>2 DEF IInv, NotesInWork
  <2> QED BY <1>3, <2>1
<1>5. e \in EventRow /\ e.type = "note_added" /\ e.note = n
  BY <1>4, EventsAreTyped
<1>6. row \in Noting
  BY <1>3 DEF Noting
<1>7. noting' = [noting EXCEPT ![m] = row]
  <2>1. noting[m] = [candidate |-> c, note |-> n, step |-> noting[m].step]
    BY <1>3 DEF Noting
  <2>2. [noting[m] EXCEPT !.step = "announced"] = row
    BY <2>1
  <2> QED BY <1>1, <1>3, <2>2
<1>8. row.step = "announced" /\ row.note = n /\ row.candidate = c
  OBVIOUS
<1> HIDE DEF row, e, n, c
<1> DEFINE events == <<e>>
<1>9. events \in Seq(EventRow) /\ Record(c, events)
  BY <1>2, <1>5
<1>10. timeline[c] \in Seq(EventRow) /\ Explains(timeline[c], candidate[c])
  BY <1>3, Given
<1>11. /\ timeline'[c] = Append(timeline[c], e)
       /\ \A i \in DOMAIN timeline'[c] : i \in DOMAIN timeline[c] \/ timeline'[c][i] = e
  BY <1>3, <1>5, <1>9, RecordOne
<1> HIDE DEF events
<1>12. /\ timeline' \in [Candidates -> Seq(EventRow)]
       /\ \A d \in Candidates : d # c => timeline'[d] = timeline[d]
       /\ \A i \in DOMAIN timeline[c] : timeline'[c][i] = timeline[c][i]
  BY <1>3, <1>9, RecordIsTyped
<1>13. \A d \in Candidates : \A k : OnTimeline(d, k) => OnTimeline(d, k)'
  BY <1>3, <1>9, StaysOnTimeline
<1>14. \E i \in DOMAIN timeline'[c] :
         timeline'[c][i].type \in {"note_added"} /\ timeline'[c][i].note = n
  <2>1. Len(timeline[c]) + 1 \in DOMAIN timeline'[c] /\ timeline'[c][Len(timeline[c]) + 1] = e
    BY <1>5, <1>10, <1>11, OneMore
  <2> QED BY <1>5, <2>1
<1>15. NotesInWork'
  <2>1. /\ \A k \in Members : k # m => noting'[k] = noting[k]
        /\ noting'[m] = row
    BY <1>3, <1>6, <1>7
  <2>2. \A k \in Members : noting[k].candidate \in Candidates
    BY NotingIs
  <2>3. NotesInWork
    BY DEF IInv
  <2> SUFFICES ASSUME NEW k \in Members
               PROVE  /\ noting'[k].step \in {"inserted", "announced"} =>
                           noting'[k].note \in notes[noting'[k].candidate]
                      /\ noting'[k].step = "announced" =>
                           \E i \in DOMAIN timeline'[noting'[k].candidate] :
                             /\ timeline'[noting'[k].candidate][i].type \in {"note_added"}
                             /\ timeline'[noting'[k].candidate][i].note = noting'[k].note
    BY <1>2 DEF NotesInWork, OnTimeline, EventsOf
  <2>4. CASE k = m
    BY <1>4, <1>8, <1>14, <2>1, <2>4
  <2>5. CASE k # m
    <3> DEFINE d == noting[k].candidate
    <3>1. noting[k].step = "announced" =>
            \E i \in DOMAIN timeline[d] :
              timeline[d][i].type \in {"note_added"} /\ timeline[d][i].note = noting[k].note
      BY <2>3 DEF NotesInWork, OnTimeline, EventsOf
    <3>2. \A i \in DOMAIN timeline[d] :
            i \in DOMAIN timeline'[d] /\ timeline'[d][i] = timeline[d][i]
      BY <1>3, <1>9, <2>2, RecordIsTyped
    <3>3. noting'[k] = noting[k]
      BY <2>1, <2>5
    <3>4. noting[k].step \in {"inserted", "announced"} => noting[k].note \in notes[d]
      BY <2>3 DEF NotesInWork
    <3> QED BY <3>1, <3>2, <3>3, <3>4
  <2> QED BY <2>4, <2>5
<1>16. AnsweredNotesAreOnTimeline'
  <2>1. /\ \A k \in answeredNotes : \E d \in Candidates : k \in notes[d] /\ OnTimeline(d, k)
        /\ \A d \in Candidates : \A i \in DOMAIN timeline[d] :
             timeline[d][i].type = "note_added" => timeline[d][i].note \in notes[d]
    BY AnsweredIsOnTimeline DEF IInv
  <2>2. \A k \in answeredNotes' : \E d \in Candidates : k \in notes'[d] /\ OnTimeline(d, k)'
    BY <1>2, <1>13, <2>1
  <2>3. \A d \in Candidates : \A i \in DOMAIN timeline'[d] :
          timeline'[d][i].type = "note_added" => timeline'[d][i].note \in notes'[d]
    BY <1>2, <1>4, <1>5, <1>11, <1>12, <2>1
  <2> QED BY <2>2, <2>3, AnsweredIsOnTimelineNext
<1>17. WorkflowTypeOK'
  <2>1. noting' \in [Members -> Noting]
    BY <1>3, <1>6, <1>7
  <2> QED BY <1>2, <1>12, <2>1 DEF IInv, WorkflowTypeOK
<1>18. TimelineExplainsCandidate'
  <2>1. \A d \in Candidates : Explains(timeline[d], candidate[d])
    BY TimelineIsExplained DEF IInv
  <2>2. Explains(timeline'[c], candidate[c])
    BY <1>5, <1>10, <1>11, OtherEvent
  <2>3. \A d \in Candidates : Explains(timeline'[d], candidate'[d])
    BY <1>2, <1>12, <2>1, <2>2
  <2> QED BY <2>3, TimelineIsExplained
<1> QED BY <1>2, <1>15, <1>16, <1>17, <1>18, NoteKeeps

\* The end of a member's work, answered or not.
LEMMA RestedKeeps ==
  ASSUME IInv, NEW m \in Members,
         noting' = [noting EXCEPT ![m].step = "idle", ![m].note = NoNote],
         UNCHANGED <<noteUnchanged, timeline, notes>>,
         answeredNotes' = answeredNotes
           \/ /\ noting[m].step = "announced"
              /\ answeredNotes' = answeredNotes \cup {noting[m].note}
  PROVE  IInv'
<1> DEFINE c == noting[m].candidate
           row == [candidate |-> c, note |-> NoNote, step |-> "idle"]
<1>1. /\ candidate' = candidate /\ observations' = observations /\ outreach' = outreach
      /\ reviews' = reviews /\ tagVocabulary' = tagVocabulary /\ candidateTags' = candidateTags
      /\ timeline' = timeline /\ notes' = notes
  BY DEF noteUnchanged, tagVars
<1>2. /\ noting \in [Members -> Noting] /\ noting[m] \in Noting /\ c \in Candidates
      /\ notes \in [Candidates -> SUBSET NoteIds]
  BY NotingIs
<1>3. row \in Noting /\ row.step = "idle"
  BY <1>2 DEF Noting
<1>4. noting' = [noting EXCEPT ![m] = row]
  <2>1. noting[m] = [candidate |-> c, note |-> noting[m].note, step |-> noting[m].step]
    BY <1>2 DEF Noting
  <2>2. [[noting[m] EXCEPT !.step = "idle"] EXCEPT !.note = NoNote] = row
    <3>1. PICK d, k, step : noting[m] = [candidate |-> d, note |-> k, step |-> step]
      BY <2>1
    <3>2. [[[candidate |-> d, note |-> k, step |-> step] EXCEPT !.step = "idle"] EXCEPT !.note = NoNote]
            = [candidate |-> d, note |-> NoNote, step |-> "idle"]
      <4>1. [[candidate |-> d, note |-> k, step |-> step] EXCEPT !.step = "idle"]
              = [candidate |-> d, note |-> k, step |-> "idle"]
        OBVIOUS
      <4>2. [[candidate |-> d, note |-> k, step |-> "idle"] EXCEPT !.note = NoNote]
              = [candidate |-> d, note |-> NoNote, step |-> "idle"]
        OBVIOUS
      <4> QED BY <4>1, <4>2
    <3>3. c = d
      BY <3>1
    <3> QED BY <3>1, <3>2, <3>3
  <2> QED BY <1>2, <2>2
<1>5. noting[m].step = "announced" =>
        noting[m].note \in notes[c] /\ OnTimeline(c, noting[m].note)
  BY DEF IInv, NotesInWork
<1> HIDE DEF row
<1>6. NotesInWork'
  BY <1>1, <1>3, <1>4, NotingWritten
<1>7. AnsweredNotesAreOnTimeline'
  <2>1. \A d \in Candidates : \A k : OnTimeline(d, k)' <=> OnTimeline(d, k)
    BY <1>1 DEF OnTimeline, EventsOf
  <2>2. /\ \A k \in answeredNotes : \E d \in Candidates : k \in notes[d] /\ OnTimeline(d, k)
        /\ \A d \in Candidates : \A i \in DOMAIN timeline[d] :
             timeline[d][i].type = "note_added" => timeline[d][i].note \in notes[d]
    BY AnsweredIsOnTimeline DEF IInv
  <2>3. \A k \in answeredNotes' : \E d \in Candidates : k \in notes[d] /\ OnTimeline(d, k)
    BY <1>2, <1>5, <2>2
  <2>4. \A k \in answeredNotes' : \E d \in Candidates : k \in notes'[d] /\ OnTimeline(d, k)'
    BY <1>1, <2>1, <2>3
  <2>5. \A d \in Candidates : \A i \in DOMAIN timeline'[d] :
          timeline'[d][i].type = "note_added" => timeline'[d][i].note \in notes'[d]
    BY <1>1, <2>2
  <2> QED BY <2>4, <2>5, AnsweredIsOnTimelineNext
<1>8. WorkflowTypeOK'
  <2>1. noting' \in [Members -> Noting]
    BY <1>2, <1>3, <1>4
  <2>2. answeredNotes' \subseteq NoteIds
    BY <1>2, <1>5 DEF IInv, WorkflowTypeOK
  <2> QED BY <1>1, <2>1, <2>2 DEF IInv, WorkflowTypeOK
<1>9. TimelineExplainsCandidate'
  BY <1>1, TimelineStays
<1> QED BY <1>1, <1>6, <1>7, <1>8, <1>9, NoteKeeps

-----------------------------------------------------------------------------
(* The specification.                                                      *)

LEMMA InitHolds == WorkflowInit => IInv
<1> SUFFICES ASSUME WorkflowInit PROVE IInv
  OBVIOUS
<1>1. WorkflowTypeOK
  <2>1. NoRow \in CandidateRow /\ NoOutreach \in OutreachRow
    BY DEF NoRow, NoOutreach, CandidateRow, OutreachRow, Outcomes, PIPELINE_STATUSES
  <2>2. (CHOOSE c \in Candidates : TRUE) \in Candidates
    BY WorkflowAssumption
  <2> DEFINE first == CHOOSE c \in Candidates : TRUE
  <2>3. [candidate |-> first, note |-> NoNote, step |-> "idle"] \in Noting
    <3>1. first \in Candidates
      BY <2>2
    <3> HIDE DEF first
    <3> QED BY <3>1 DEF Noting
  <2>4. noting \in [Members -> Noting]
    <3> HIDE DEF first
    <3>1. noting = [m \in Members |-> [candidate |-> first, note |-> NoNote, step |-> "idle"]]
      BY DEF WorkflowInit, first
    <3> QED BY <2>3, <3>1
  <2> QED BY <2>1, <2>4 DEF WorkflowInit, WorkflowTypeOK
<1>2. Latest /\ Blank /\ Dated
  BY DEF WorkflowInit, Latest, Blank, Dated, Exists, NoRow, NoOutreach
<1>3. NotesInWork
  <2>1. \A m \in Members : noting[m].step = "idle"
    BY DEF WorkflowInit
  <2> QED BY <2>1 DEF NotesInWork
<1>4. AdmissionIsExplained
  BY DEF WorkflowInit, AdmissionIsExplained, Exists, NoRow
<1>5. AnsweredNotesAreOnTimeline
  BY DEF WorkflowInit, AnsweredNotesAreOnTimeline, EventsOf
<1>6. TimelineExplainsCandidate
  <2>1. \A c \in Candidates : timeline[c] = <<>> /\ candidate[c] = NoRow
    BY DEF WorkflowInit
  <2>2. \A c \in Candidates : StatusIn(timeline[c]) = {} /\ ArchiveIn(timeline[c]) = {}
    BY <2>1 DEF StatusIn, ArchiveIn
  <2>3. NoRow.pipelineStatus = "pending_review" /\ NoRow.archived = FALSE
    BY DEF NoRow
  <2>4. \A c \in Candidates : Explains(timeline[c], candidate[c])
    BY <2>1, <2>2, <2>3 DEF Explains, Linked, Marked
  <2> QED BY <2>4, TimelineIsExplained
<1> QED BY <1>1, <1>2, <1>3, <1>4, <1>5, <1>6 DEF IInv

LEMMA NoteStepKeeps ==
  ASSUME IInv, NEW m \in Members, Note(m)
  PROVE  IInv'
<1>1. ASSUME NEW c \in Candidates, CheckNote(m, c) PROVE IInv'
  BY <1>1, CheckNoteKeeps
<1>2. ASSUME NEW n \in NoteIds, InsertNote(m, n) PROVE IInv'
  BY <1>2, InsertNoteKeeps
<1>3. CASE AnnounceNote(m)
  BY <1>3, AnnounceNoteKeeps
<1>4. CASE AnswerNote(m)
  BY <1>4, RestedKeeps DEF AnswerNote
<1>5. CASE AbandonNote(m)
  BY <1>5, RestedKeeps DEF AbandonNote
<1> QED BY <1>1, <1>2, <1>3, <1>4, <1>5 DEF Note

LEMMA NextKeeps ==
  ASSUME IInv, WorkflowNext
  PROVE  IInv'
<1>1. CASE Ingest
  <2>1. PICK c \in Candidates, run \in Runs, facts \in ObservableFacts :
          ingestCreatorObservation(c, [run |-> run, facts |-> facts])
    BY <1>1 DEF Ingest
  <2>2. [run |-> run, facts |-> facts] \in ObservationRow
    BY DEF ObservationRow
  <2> QED BY <2>1, <2>2, ingestKeeps
<1>2. ASSUME NEW m \in Members, Review(m) PROVE IInv'
  <2>1. PICK c \in Candidates, decision \in ManualDecisions :
          submitManualReview(m, c, decision, candidate[c].version)
    BY <1>2 DEF Review
  <2>2. candidate[c].version \in Nat
    BY Given
  <2> QED BY <2>1, <2>2, submitManualReviewKeeps
<1>3. ASSUME NEW m \in Members, Archive(m) PROVE IInv'
  <2>1. PICK c \in Candidates, archived \in BOOLEAN :
          setCandidateArchived(m, c, archived, candidate[c].version)
    BY <1>3 DEF Archive
  <2>2. candidate[c].version \in Nat
    BY Given
  <2> QED BY <2>1, <2>2, setCandidateArchivedKeeps
<1>4. ASSUME NEW m \in Members, Transition(m) PROVE IInv'
  <2>1. PICK c \in Candidates, next \in PIPELINE_STATUSES :
          transitionCandidatePipeline(m, c, next, candidate[c].version)
    BY <1>4 DEF Transition
  <2>2. candidate[c].version \in Nat
    BY Given
  <2> QED BY <2>1, <2>2, transitionCandidatePipelineKeeps
<1>5. ASSUME NEW m \in Members, Tag(m) PROVE IInv'
  BY <1>5, setCandidateTagsKeeps DEF Tag
<1>6. ASSUME NEW m \in Members, Contact(m) PROVE IInv'
  <2>1. PICK c \in Candidates, owner \in Members \cup {NoMember, Unchanged},
             contact \in Contacts \cup {NoContact, Unchanged} :
          updateCandidateOutreach(m, c, owner, contact, outreach[c].version)
    BY <1>6 DEF Contact
  <2>2. outreach[c].version \in Nat
    <3>1. outreach[c] \in OutreachRow
      BY RowsAreTyped
    <3> QED BY <3>1 DEF OutreachRow
  <2> QED BY <2>1, <2>2, updateCandidateOutreachKeeps
<1>7. ASSUME NEW m \in Members, Note(m) PROVE IInv'
  BY <1>7, NoteStepKeeps
<1> QED BY <1>1, <1>2, <1>3, <1>4, <1>5, <1>6, <1>7 DEF WorkflowNext

LEMMA StutterKeeps ==
  ASSUME IInv, UNCHANGED workflowVars
  PROVE  IInv'
<1>1. /\ observations' = observations /\ candidate' = candidate /\ reviews' = reviews
      /\ outreach' = outreach /\ timeline' = timeline /\ tagVocabulary' = tagVocabulary
      /\ candidateTags' = candidateTags /\ notes' = notes /\ noting' = noting
      /\ answeredNotes' = answeredNotes
  BY DEF workflowVars
<1>2. WorkflowTypeOK'
  BY <1>1 DEF IInv, WorkflowTypeOK
<1>3. NotesInWork' /\ AnsweredNotesAreOnTimeline'
  BY <1>1, NothingNoted
<1>4. TimelineExplainsCandidate'
  BY <1>1, TimelineStays
<1> QED BY <1>1, <1>2, <1>3, <1>4, NoteKeeps

\* The strengthened invariant holds in every state of the centre's candidate tables.
THEOREM Inductive == WorkflowSpec => []IInv
<1>1. IInv /\ [WorkflowNext]_workflowVars => IInv'
  BY NextKeeps, StutterKeeps
<1> QED BY <1>1, InitHolds, PTL DEF WorkflowSpec

\* The rows stay well formed and every tag in use is in the vocabulary
\* (candidate-workflow.ts setCandidateTags).
THEOREM TypeCorrect == WorkflowSpec => []WorkflowTypeOK
<1>1. IInv => WorkflowTypeOK
  BY DEF IInv
<1> QED BY <1>1, Inductive, PTL

\* The timeline accounts for the status and the archive mark of every candidate
\* (candidate-workflow.ts submitManualReview, transitionCandidatePipeline,
\* setCandidateArchived).
THEOREM Timeline == WorkflowSpec => []TimelineExplainsCandidate
<1>1. IInv => TimelineExplainsCandidate
  BY DEF IInv
<1> QED BY <1>1, Inductive, PTL

\* A creator is in the library exactly when a stored observation passes, recomputed from
\* what was stored (collector-ingestion.ts findOrCreateCandidate, run-observed-creators.ts).
THEOREM Admission == WorkflowSpec => []AdmissionIsExplained
<1>1. IInv => AdmissionIsExplained
  BY DEF IInv
<1> QED BY <1>1, Inductive, PTL

\* A verdict of pass or fail on partial facts is the verdict on the complete facts
\* (hard-filter.ts evaluateHardFilters).
THEOREM VerdictsSurvive == WorkflowSpec => []VerdictsSurviveMissingFacts
BY Inductive, VerdictsAreFinal, PTL

\* Whoever may work on a candidate is shown an observation of it and a date
\* (candidate-access.ts).
THEOREM VisibleShown == WorkflowSpec => []VisibleIsShown
BY Inductive, ReadableIsShown, PTL

\* A note whose success was answered is stored and on the timeline
\* (candidate-workflow.ts appendCandidateNote).
THEOREM NotesAnswered == WorkflowSpec => []AnsweredNotesAreOnTimeline
<1>1. IInv => AnsweredNotesAreOnTimeline
  BY DEF IInv
<1> QED BY <1>1, Inductive, PTL
==============================================================================
