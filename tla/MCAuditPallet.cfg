SPECIFICATION AuditSpec
CONSTANTS
  g1 = g1
  g2 = g2
  g3 = g3
  low = low
  user = user
  NotSignedUp = NotSignedUp
  NoScore = NoScore
  Accounts <- MCAccounts
  GenesisScore <- MCGenesisScore
  GenesisBalance <- MCGenesisBalance
  Profiles = {p1}
  ExistentialDeposit = 500
  ScoreModulus = 65536
  EloMaxGap = 3853
  MinAuditorStake = 100
  InitialAuditorScore = 1000
  MinimalApproverScore = 2000
  TransferAmounts = {500}
  MaxGames = 1
SYMMETRY MCSymmetry
INVARIANTS
  AuditTypeOK
  ApprovedByThreeOthers
  StakeHeld
PROPERTIES
  StandingSurvives
  GamesConserveScore
  RegisterKept
  OnlyForfeitsBurn
CHECK_DEADLOCK FALSE
