CONSTANTS
  ActivateAfter = 2
  DeactivateAfter = 0
  Timeout = 0
  Cooldown = 0
  Latch = FALSE
  Invert = FALSE
  Retentive = FALSE
  StartActive = FALSE
  Concurrent = TRUE
  TimerIds = {1, 2, 3}
  NoTimer = NoTimer
  MaxNotices = 1
SPECIFICATION Spec

PROPERTIES ActivationDelayed
