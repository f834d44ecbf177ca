CONSTANTS
  Callers = {r1}
  Nobody = Nobody
  Calls <- DelayCalls
  Policies <- DelayPolicies
  MaxTokens = 3
  MaxRevokes = 1
  MaxFails = 3
SPECIFICATION Spec
INVARIANT SuccessNotResent
CHECK_DEADLOCK FALSE
