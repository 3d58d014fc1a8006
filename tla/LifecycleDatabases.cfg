\* The sessions database at a graceful end.
CONSTANTS
  Handlers = {h1}
SPECIFICATION Spec
INVARIANTS
  DatabasesClosed
CHECK_DEADLOCK FALSE
