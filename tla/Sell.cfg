SPECIFICATION SellSpec
CONSTANTS
  t1 = t1  r1 = r1  r2 = r2
  Titles = {t1}
  MaxCopies = 2
  MaxAds = 2
  Requests = {r1, r2}
  MaxRunning = 2
  MaxRequests = 6
  MaxFaults = 1
  MaxChanges = 2
  Creates = TRUE
SYMMETRY Symmetric
CHECK_DEADLOCK FALSE
INVARIANTS
  OneListingPerProduct
  OneProductPerTitleAlone
