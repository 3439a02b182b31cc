SPECIFICATION Spec
CONSTANTS
  g1 = g1
  g2 = g2
  g3 = g3
  low = low
  user = user
  NotSignedUp = NotSignedUp
  NoScore = NoScore
  NoReview = NoReview
  NoVulnerabilities = NoVulnerabilities
  Accounts <- MCBountyAccounts
  GenesisScore <- MCBountyGenesisScore
  GenesisBalance <- MCBountyGenesisBalance
  Profiles = {p1}
  Hashes = {h1, h2}
  Bounties = {50, 120}
  MinScores = {3000}
  VulnerabilityLists = {list}
  ExistentialDeposit = 60
  ScoreModulus = 65536
  EloMaxGap = 3853
  MinAuditorStake = 100
  InitialAuditorScore = 1000
  MinimalApproverScore = 2000
  TransferAmounts = {345}
  MaxGames = 1
  MaxReportsPerReview = 1
  MaxChallengesPerReport = 1
SYMMETRY MCSymmetry
INVARIANTS
  ReservedIsOwed
CHECK_DEADLOCK FALSE
