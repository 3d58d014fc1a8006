\* Two goroutines log at every level; main sets the minimum to Info.
CONSTANTS
  Goroutines = {g1, g2}
  MinLevel = 0
  MaxLines = 6
  None = None
SPECIFICATION Spec
SYMMETRY Symmetry
CHECK_DEADLOCK FALSE
INVARIANTS
  AlertsAnnounceErrors
  AlertsDoNotNest
