SPECIFICATION McpSpec
CONSTANTS
  Branches = {main, b1}
  DefaultBranch = main
  NoBranch = NoBranch
  MaxLines = 2
PROPERTY ServesUntilStdinCloses
CHECK_DEADLOCK FALSE
