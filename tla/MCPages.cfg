SPECIFICATION Spec
CONSTANTS
  c1 = c1
  c2 = c2
  h1 = h1
  h2 = h2
  Accounts = {a1, a2}
  Ranked = {a1}
  Candidates = {x1, x2}
  Council = {a1}
  Challenges = {c1, c2}
  Audits = {h1, h2}
  AuditOf <- MCAuditOf
  Reports = {r1, r2}
  Lists = {"patch"}
  MaxPresses = 3
  MaxEdits = 2
  MaxReads = 2
  MaxChanges = 2
  MaxProposals = 2
  MaxPicks = 2
  MaxVerdicts = 1
  MaxRows = 2
  MaxSubmits = 2
INVARIANTS
  TypeOK
  StatusIsLatest
  CallsAreAsPressed
  ApplicantsWait
  ProposalsAreOfShown
  ClosedIsClear
SYMMETRY MCSymmetry
CHECK_DEADLOCK FALSE
