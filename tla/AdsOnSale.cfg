SPECIFICATION OnSaleSpec
CONSTANTS
  r1 = r1  r2 = r2
  CatalogAds = {d1, d2}
  CatalogWorkers = {w1, w2}
  MaxWithdrawals = 2
  MaxOverlap = 2
  StockAds = {d1}
  StockWorkers = {w1}
  MaxStockEvents = 2
  MaxCatalogEvents = 1
  Quantities = {0, 1}
  MaxCrashes = 1
  Ads = {a1}
  Requests = {r1}
  Window = 1
  MinInterval = 2
  MaxInterval = 3
  Lifetime = 3
  FallbackAfter = 2
  MaxRunning = 1
  MaxRequests = 3
  MaxFaults = 0
  MaxThrows = 0
  MaxEdits = 2
  MaxDays = 1
  Evaluates = FALSE
CHECK_DEADLOCK FALSE
INVARIANTS
  DeletedOnlyIfGone
  CatalogStops
PROPERTIES
  PendingKept
  EvidenceKept
