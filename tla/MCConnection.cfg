SPECIFICATION FairSpec
CONSTANTS
  Accounts = {a1, a2}
  Amounts = {low, high}
  MaxFailures = 3
  MaxPicks = 3
  MaxTransfers = 3
INVARIANTS
  TypeOK
  SelectionIsKept
  BalanceAgrees
PROPERTIES
  PageComesBack
CHECK_DEADLOCK FALSE
