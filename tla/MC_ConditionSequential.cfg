CONSTANTS
  ActivateAfter = 3
  DeactivateAfter = 2
  Timeout = 4
  Cooldown = 5
  Latch = FALSE
  Invert = TRUE
  Retentive = FALSE
  StartActive = TRUE
  Concurrent = FALSE
  TimerIds = {1, 2, 3, 4}
  NoTimer = NoTimer
  MaxNotices = 1
SPECIFICATION FairSpec
INVARIANTS WatchersAgree
PROPERTIES EventuallyActive ActivationDelayed CooldownObserved TimeoutExact HoldExact
