SPECIFICATION MCSpec
CONSTANTS
  j1 = j1
  j2 = j2
  Names = {a, b}
  Jobs = {j1, j2}
  Clients = {c}
  Plans <- MCPlans
  None = None
  Targets = {a}
  MaxEvents = 2
INVARIANTS SuccessIsComplete  ReplicationSuspendedOnlyByRace ReaperSparesClients SubscriptionsHaveTheirSlot IntegersFit DocumentsKept
CHECK_DEADLOCK FALSE
