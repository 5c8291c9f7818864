SPECIFICATION Spec
CONSTANTS
  Many = 2
INVARIANTS
  SubmittedIsAccepted
  StoppedIsStarted
  AcceptedIsAttempted
  NothingStaysFrozen
  SimpleIsContiguous
  NoncesDoNotClash
PROPERTIES
  WorkEnds
CHECK_DEADLOCK FALSE
