SPECIFICATION SellSpec
CONSTANTS
  t1 = t1  r1 = r1  r2 = r2
  Titles = {t1}
  MaxCopies = 2
  MaxAds = 2
  Requests = {r1}
  MaxRunning = 1
  MaxRequests = 2
  MaxFaults = 0
  MaxChanges = 0
  Creates = FALSE
SYMMETRY Symmetric
CHECK_DEADLOCK FALSE
INVARIANTS
  PreparedCanBeConfirmed
