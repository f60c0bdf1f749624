SPECIFICATION Spec
CONSTANTS
  SQLs <- MCSQLs
  TagOf <- MCTagOf
  GuessOf <- MCGuessOf
  Carries <- MCCarries
  Fires <- MCFires
  Guarded = {"DROP TABLE"}
  CustomRules <- MCCustomRules
  Builtin = builtin
  Custom = custom
  BuiltinRule <- MCBuiltinRule
  NoRule = NoRule
  MaxCalls = 2
  MaxRuleChanges = 2
  MaxId = 2
  Names = {main, b1, b2}
  Root = main
  Objects = {o1}
  Nothing = Nothing
  NoDiff = NoDiff
  MaxRows = 3
  RowHashes = {v1, v2, v3}
  MaxLen = 5
SYMMETRY Symmetry
INVARIANTS EntriesAreItsOwn  DiffSplitsAtFork DropsAreFlagged RootCommitsToRows
CHECK_DEADLOCK FALSE
