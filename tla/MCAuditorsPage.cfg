SPECIFICATION FairSpec
CONSTANTS
  Accounts = {a1, a2}
  MaxSwitches = 2
  MaxChanges = 1
  MaxTxs = 1
INVARIANTS
  TypeOK
  PageAgreesWithChain
  ProfilesAreOwn
PROPERTIES
  StandingIsShown
CHECK_DEADLOCK FALSE
