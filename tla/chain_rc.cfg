SPECIFICATION FairSpec
CONSTANTS
  Sessions = {s1, s2}
  Tables = {}
  None = None
  MaxId = 3
  Isolations = {"rc"}
INVARIANTS IntactUnlessReordered
PROPERTIES ImplementsLog RefusedReturns
