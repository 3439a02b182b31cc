SPECIFICATION FairSpec
CONSTANTS
  h1 = h1
  h2 = h2
  u1 = u1
  u2 = u2
  Hashes = {h1, h2}
  Tars = {h1, h2}
  Urls = {u1, u2}
  NameOf <- MCNameOf
  Events <- MCEvents
  Unreadable = Unreadable
  MaxBlocks = 2
  MaxTurns = 3
INVARIANTS
  TypeOK
  HandledOncePerTurn
  ContainersHaveTheirPackage
  ReportsAreOfCompleted
PROPERTIES
  StableBlockIsHandled
CHECK_DEADLOCK FALSE
