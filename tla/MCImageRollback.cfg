SPECIFICATION Spec
CONSTANTS
  Procs = {p1, p2}
  Local = {a}
  MaxRev = 1
  MaxCommands = 3
  MaxFaults = 0
  MaxEdits = 0
  EditAnyTime = FALSE
  None = None
SYMMETRY Interchangeable
CHECK_DEADLOCK FALSE
PROPERTIES NoRollback
