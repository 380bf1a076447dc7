SPECIFICATION Spec
CONSTANTS
  Procs = {p1, p2}
  Local = {a, b}
  MaxRev = 1
  MaxCommands = 2
  MaxFaults = 1
  MaxEdits = 1
  EditAnyTime = TRUE
  None = None
SYMMETRY Interchangeable
CHECK_DEADLOCK FALSE
INVARIANTS LookupsAreServable
PROPERTIES TagIsVerified
