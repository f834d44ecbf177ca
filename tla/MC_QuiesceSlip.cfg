SPECIFICATION Spec
CONSTANTS
  Receivers <- OneReceiver
  SubQueue = FALSE
  Stuck = FALSE
  BuildFails = FALSE
INVARIANT SlipIsRedelivered
CHECK_DEADLOCK FALSE
