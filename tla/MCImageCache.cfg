SPECIFICATION Spec
CONSTANTS
  Procs = {p1}
  Local = {a, b}
  MaxRev = 1
  MaxCommands = 3
  MaxFaults = 1
  MaxEdits = 2
  EditAnyTime = FALSE
  None = None
SYMMETRY Interchangeable
CHECK_DEADLOCK FALSE
INVARIANTS TypeOK
PROPERTIES ReadyImageIsRight RefreshIsFresh MatchingGuestIsKept CacheNeverAges
