\* A statement of SYSTEM_EXPLAINER.md and ledger.py.
CONSTANTS
  EntryTypes <- MCEntryTypes
  Dids <- MCDids
  Data <- MCData
  Times <- MCTimes
  Edits <- MCEdits
  MaxRows = 3
  MaxChanges = 1
SPECIFICATION Spec
CHECK_DEADLOCK FALSE
INVARIANT TamperingBreaksChain
