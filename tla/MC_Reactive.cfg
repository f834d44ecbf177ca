CONSTANTS
  Null = Null
  Callers = {c1, c2}
  DebIds = {d1, d2}
  TimerIds = {t1}
  Presets = {2}
  Initials = {0, 1}
  Windows = {0, 2}
  Deltas <- UpAndDown
  MaxCount = 3
  Values = {0, 1, 2, 3, 4}
  High = 3
  Low = 1
  Debounces = {0, 1}
  MaxFired = 2
  Sources = {"a", "b"}
  Shapes <- Wirings
  Overrides = {"o1"}
  MaxRuns = 2
  MaxCalls = 2
  Files = {"f1"}
  SubFiles = {"s1"}
  MaxEvents = 2
  MaxTimers = 3
  Notifiers = {"n1", "n2"}
  MaxChanges = 3
  Readers = {"n1", "n2"}
  MaxSends = 1
  QueueSizes = {1, 2}
SPECIFICATION Spec
INVARIANTS NothingStranded LoneCallDecides NothingTwice
PROPERTIES StepsInTime
SYMMETRY Symmetry
CHECK_DEADLOCK FALSE
