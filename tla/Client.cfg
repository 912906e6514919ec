SPECIFICATION ClientSpec
CONSTANTS
  p1 = p1  p2 = p2  None = None
  Attempts = {p1, p2}
  Slots = {s1, s2}
  MaxStarts = 5
  MaxPageFaults = 1
  Tabs = {t1, t2}
  TabCalls = {k1}
  MaxTabLogins = 2
  MaxTabCalls = 1
  MaxTabFaults = 3
  Tab = t1
  Requests = {c1, c2}
  MaxLogins = 3
  MaxRequests = 3
  MaxFaults = 1
  MaxTries = 2
  Products = {p1, p2}
  Lists <- Searches
  Calls = {c1, c2}
  MaxInFlight = 1
  MaxCalls = 6
CHECK_DEADLOCK FALSE
SYMMETRY Symmetric
INVARIANTS
  ClientTypeOK
  SettledShowsView
  NothingMixed
  PageAndServerAgreeAlone
PROPERTIES
  OwnLoginStored
  ValidTokenKept
