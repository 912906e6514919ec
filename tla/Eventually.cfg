SPECIFICATION EventuallySpec
CONSTANTS
  StockAds = {d1, d2}
  StockWorkers = {w1}
  Quantities = {0, 1, 2}
  MaxStockEvents = 3  MaxCrashes = 1
  Ads = {a1, a2}
  AdRequests = {r1}
  Window = 1
  MinInterval = 1  MaxInterval = 1
  Lifetime = 1  FallbackAfter = 1
  MaxRunning = 2  MaxRequests = 1
  MaxLookupFaults = 1  MaxThrows = 1
  MaxEdits = 0  MaxDays = 0
  Evaluates = TRUE
  Attempts = {t1}
  Slots = {s1, s2}
  MaxStarts = 3  MaxPageFaults = 1
  Services = {bazos, auth}
  Public = {auth}
  Requests = {g1, g2}
  MaxSockets = 1
CHECK_DEADLOCK FALSE
INVARIANTS
  EventuallyTypeOK
PROPERTIES
  EventuallyCaughtUp
  GoneIsNoticed
  RefreshNotLeft
  EventuallyAnswered
