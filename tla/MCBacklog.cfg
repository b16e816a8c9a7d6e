SPECIFICATION MCSpec
CONSTANTS
  N = 4
  Scopes = {"A", "B"}
  ScopeOf <- MCScopeOf
  Subjects = {"ann", "bob"}
  SubjectOf <- MCSubjectOf
  Invalid = {3}
  Unknown = {"bob"}
  MaxFiles = 2
  MaxFaults = 2
  KidSeq <- MCKidSeq
  Row <- MCRow
  Listed0 = {1, 2, 3, 4, 6}
  Caps = {1, 2}
  Refresh = 1
  MaxSeen = 3
  Poison = {}
  MaxAge = 6
  MaxEvents = 1
INVARIANTS  DetailSafe
PROPERTIES SentInOrder BacklogMoves
CHECK_DEADLOCK FALSE
