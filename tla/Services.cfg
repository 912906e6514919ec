SPECIFICATION ServicesSpec
CONSTANTS
  r1 = r1  r2 = r2  l1 = l1  l2 = l2  p1 = p1  p2 = p2
  a1 = a1  a2 = a2  w1 = w1  w2 = w2
  Purchases = {1}
  Listings = {l1, l2}
  Direct = "direct"
  Products = {p1, p2}
  Requests = {r1, r2}
  MaxRows = 2
  MaxAdChanges = 1
  Ads = {a1, a2}
  Workers = {w1, w2}
  MaxFaults = 3
CHECK_DEADLOCK FALSE
SYMMETRY Symmetric
INVARIANTS
  OncePerPurchase
  ForwardedAgrees
  WholeOrder
  OutageZeroesNothing
  TagsKeptAlone
