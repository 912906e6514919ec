SPECIFICATION Spec
CONSTANTS
  i1 = i1  d1 = d1  d2 = d2  d3 = d3  shoes = shoes  books = books
  c1 = c1  c2 = c2
  NoAd = NoAd  NoIdentity = NoIdentity
  Identities = {i1}
  Ads = {d1, d2}
  AlreadyListed = {}
  Categories = {shoes, books}
  Owner <- MCOwner
  CategoryOf <- MCCategoryOf
  Claimers = {c1}
  Enqueuers = {"e1"}
  Recorders = {"r1"}
  Expirers = {"x1"}
  Reconcilers = {}
  MaxActiveAds = 2
  PacingMin = 1
  PacingMax = 1
  CategoryCooldown = 1
  ClaimLimit = 5
  StaleAfter = 0
  MaxAttempts = 2
  MaxTime = 2
  MaxRunning = 2
  Crashes = TRUE
  Withdrawals = TRUE
  UnclaimedResults = FALSE
SYMMETRY SameCategoryAds
INVARIANTS
  TypeOK
  AtMostOneSubmitting
  OneOpenAttemptPerAd
  SlotsSpaced
PROPERTIES
  ImplementsLifecycle
