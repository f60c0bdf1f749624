SPECIFICATION FairSpec
CONSTANTS
  Engines = {e1, e2}
  Audits = TRUE
  MaxSeq = 3
  ParentRows = 0
  Faults = {"fail", "reorder", "stale"}
  MaxFaults = 2
PROPERTIES FalseAlarmHasACause EntriesGetCheckpointed
