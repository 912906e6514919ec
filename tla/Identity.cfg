SPECIFICATION IdentitySpec
CONSTANTS
  r1 = r1  r2 = r2  g1 = g1  g2 = g2  p1 = p1  p2 = p2
  Requests = {r1, r2}
  SessionLifetime = 1
  MaxSessions = 2
  MaxTime = 2
  MaxRunning = 2
  Crashes = TRUE
  Versions = {"v1", "v2"}
  Pages = {p1, p2}
  Grants = {g1, g2}
  MaxConsents = 4
  MaxGrants = 2
  GrantsLost = TRUE
SYMMETRY Symmetric
INVARIANTS
  HumanBeforeAutomation
  ColumnsAgree
  ChallengeHoldsAlone
  TermsWereAccepted
  WithdrawalHoldsAlone
