CONSTANTS
  Configs <- SharedName
  Plugins = {"len"}
SPECIFICATION Spec
INVARIANT OrderDoesNotMatter
CHECK_DEADLOCK FALSE
