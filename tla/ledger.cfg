\* Up to three entries and two changes of the database.
CONSTANTS
  EntryTypes <- MCEntryTypes
  Dids <- MCDids
  Data <- MCData
  Times <- MCTimes
  Edits <- MCEdits
  MaxRows = 3
  MaxChanges = 2
SPECIFICATION Spec
CHECK_DEADLOCK FALSE
INVARIANTS
  InductiveInvariant
  HonestChainValid
  HashFixesHistory
PROPERTY VerdictStands
