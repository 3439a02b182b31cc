SPECIFICATION Spec
CONSTANTS
  g1 = g1
  g2 = g2
  g3 = g3
  low = low
  user = user
  NotSignedUp = NotSignedUp
  NoScore = NoScore
  NoReview = NoReview
  NoVulnerabilities = NoVulnerabilities
  Accounts <- MCChallengeAccounts
  GenesisScore <- MCChallengeGenesisScore
  GenesisBalance <- MCChallengeGenesisBalance
  Profiles = {p1}
  Hashes = {h1}
  Bounties = {50}
  MinScores = {1000}
  VulnerabilityLists = {list}
  ExistentialDeposit = 1
  ScoreModulus = 65536
  EloMaxGap = 3853
  MinAuditorStake = 100
  InitialAuditorScore = 1000
  MinimalApproverScore = 2000
  TransferAmounts = {}
  MaxGames = 2
  MaxReportsPerReview = 2
  MaxChallengesPerReport = 2
INVARIANTS
  TypeOK
  VulnerabilitiesMatchReports
  ChallengersAreOthers
PROPERTIES
  RecordIsPermanent
  VerdictsConserveScore
  DocketKept
CHECK_DEADLOCK FALSE
