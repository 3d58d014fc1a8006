\* Three requests that may hang.  No symmetry, which is unsound for liveness; the
\* process ends, and with it the behaviour.
CONSTANTS
  Handlers = {h1, h2, h3}
SPECIFICATION FairSpec
INVARIANTS
  TypeOK
  GracefulEndCutsNobody
  EndClosesWhatItOpened
  GivesUpForAReason
PROPERTIES
  AcceptedWithDatabase
  SignalEndsProcess
  ServerFailureEndsProcess
CHECK_DEADLOCK FALSE
