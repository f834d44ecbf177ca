CONSTANTS
  ActivateAfter = 2
  DeactivateAfter = 1
  Timeout = 1
  Cooldown = 1
  Latch = TRUE
  Invert = FALSE
  Retentive = TRUE
  StartActive = TRUE
  Concurrent = TRUE
  TimerIds = {1, 2, 3, 4}
  NoTimer = NoTimer
  MaxNotices = 1
SPECIFICATION Spec
INVARIANTS TypeOK LatchSafe
PROPERTIES OnlyClearUnlatches
