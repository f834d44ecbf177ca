CONSTANTS
  Window = 2
  InitialGrace = 3
  Repeat = FALSE
  MaxMisses = 2
  HasStopWhen = FALSE
  ActionFails = FALSE
  Feeders = {f1, f2}
  Prompt = FALSE
  MaxCount = 3
SPECIFICATION FairSpec
PROPERTIES StopReturns
