SPECIFICATION FairSpec
CONSTANTS
  a1 = a1
  a2 = a2
  p1 = p1
  h1 = h1
  Accounts = {a1, a2}
  Hashes = {h1}
  Auditors = {p1}
  Requestors = {}
  Homes = {}
  Wallet <- MCWallet
  ReportUrls <- MCReportUrls
  Characters <- MCCharacters
  Seeds <- MCSeeds
  MaxRows = 2
  MaxPosts = 2
  MaxLost = 1
  MaxSwitches = 1
  MaxEvents = 3
PROPERTIES
  ReportsAreSaved
CHECK_DEADLOCK FALSE
