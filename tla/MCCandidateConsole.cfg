SPECIFICATION ConsoleSpec
CONSTANTS
  ann = ann
  bob = bob
  r1 = r1
  c1 = c1
  b1 = b1
  b2 = b2
  Missing = Missing
  NoMember = NoMember
  NoContact = NoContact
  Unchanged = Unchanged
  NoNote = NoNote
  NoCandidate = NoCandidate
  Members = {ann, bob}
  Role <- MCRole
  Candidates = {c1}
  Runs = {r1}
  RulesOf <- MCRulesOf
  OwnerOf <- MCOwnerOf
  ObservableFacts <- MCFacts
  CompleteFacts = {}
  Contacts = {}
  TagNames = {}
  Fold <- EmptyFold
  NoteIds = {}
  MaxObservations = 2
  MaxEvents = 2
  Viewers = {ann}
  Views <- MCViews
  FirstView <- ActiveView
  BatchIds = {b1, b2}
  Decisions = {"pending"}
  Stages = {"unsuitable"}
  Owners = {bob}
  MaxClicks = 3
INVARIANTS DecisionsUseDistinctVersions BatchReportIsTrue
PROPERTIES InformedDecisions AddedRowsAreOfTheView
SYMMETRY BatchSymmetry
CHECK_DEADLOCK FALSE
