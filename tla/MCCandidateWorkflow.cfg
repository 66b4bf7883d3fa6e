SPECIFICATION WorkflowSpec
CONSTANTS
  ann = ann
  bob = bob
  r1 = r1
  r2 = r2
  c1 = c1
  Missing = Missing
  NoMember = NoMember
  NoContact = NoContact
  Unchanged = Unchanged
  NoNote = NoNote
  Members = {ann, bob}
  Role <- MCRole
  Candidates = {c1}
  Runs = {r1, r2}
  RulesOf <- MCRulesOf
  OwnerOf <- MCOwnerOf
  ObservableFacts <- MCObservableFacts
  CompleteFacts <- MCCompleteFacts
  Contacts = {}
  TagNames = {"vip", "VIP"}
  Fold <- TagFold
  NoteIds = {n1}
  MaxObservations = 2
  MaxEvents = 3
INVARIANTS WorkflowTypeOK TimelineExplainsCandidate AdmissionIsExplained VerdictsSurviveMissingFacts VisibleIsShown AnsweredNotesAreOnTimeline
CHECK_DEADLOCK FALSE
