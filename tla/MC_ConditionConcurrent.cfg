CONSTANTS
  ActivateAfter = 1
  DeactivateAfter = 1
  Timeout = 1
  Cooldown = 1
  Latch = FALSE
  Invert = TRUE
  Retentive = FALSE
  StartActive = TRUE
  Concurrent = TRUE
  TimerIds = {1, 2, 3, 4}
  NoTimer = NoTimer
  MaxNotices = 1
SPECIFICATION Spec
INVARIANTS NoLostWakeup InputAgrees HooksBalance
PROPERTIES InhibitBlocks
