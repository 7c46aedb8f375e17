SPECIFICATION Spec
CONSTANTS
  a = a  b = b  n = n  c = c
  Holders = {a, b}
  Fresh = {n}
  Contracts = {c}
  Staked = {a}
  Funds = 6
  IntMax = 8
  Amounts = {2}
  Envelopes <- SomeEnvelopes
  Issues <- SomeIssues
  Names = {"", "name"}
  Ids <- SomeIds
  PermissionSets <- SomePermissions
  Percents = {0, 70}
  FreeNet = 1
  StakedNet = 2
  StakedEnergy = 3
  OriginLimit = 3
  Limits = {2}
  FeeLimit = 4
  Uses = {0, 4}
  Fees <- SomeFees
  TotalSignNum = 2
  Params <- BothParams
  MaxTxs = 3
  MaxDay = 2
INVARIANTS
    LedgerSound
    AccountsSound
PROPERTY CreationPaid
CHECK_DEADLOCK FALSE
