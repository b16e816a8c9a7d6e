SPECIFICATION Spec
CONSTANTS
  Members = {"dad", "kid", "mom"}
  Pseudonyms = {e1, e2}
  Household = "house"
  LockOrder <- MCLockOrder
  GuardianOf <- MCGuardianOf
  HouseMembers = {"kid", "mom"}
  NoteAudience = {"guardians", "subject"}
  Scopes = {"A", "B"}
  SubjectOf <- MCSubjectOf
  Keys = {"k1", "k2"}
  Values = {"plain", "odd", "bad"}
  Versions = {"v1", "v2"}
  Passes <- MCPasses
  SnapIds = {i1, i2, i3}
  NoteMenu <- MCNoteMenu
  VersionOf <- MCVersionOf
  e1 = e1
  e2 = e2
  p1 = p1
  p2 = p2
  Menu <- MCMenu
  MinKeys = 1
  MaxPercent = 30
  MaxTime = 3
  MaxTx = 3
  MaxAux = 1
  Procs = {p1, p2}
SYMMETRY Sym
CHECK_DEADLOCK FALSE
INVARIANTS JournalConsistent ErasureComplete TextsJudged
PROPERTIES JournalSteps
