SPECIFICATION Spec
CONSTANTS
  t1 = t1  s1 = s1  s2 = s2
  Attempts = {t1}
  Slots = {s1, s2}
  MaxStarts = 5
  MaxFaults = 0
CHECK_DEADLOCK FALSE
PROPERTIES
  HandoffStays
