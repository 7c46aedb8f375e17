SPECIFICATION Spec
CONSTANTS
  Kinds <- MCKinds
  Addresses = {a1}
  Slots = {k1}
  Codes = {c1}
  SlotValues = {1}
  Balances = {1}
  Tokens = {t1}
  Absent = absent
  Unsaved = unsaved
  Nothing = nothing
  NoCode = nocode
  MaxDepth = 2
  MaxTotal = 2
  MaxCalls = 6
INVARIANTS
    ManagersAgree
    ProofsHold
CONSTRAINT Followed
CHECK_DEADLOCK FALSE
