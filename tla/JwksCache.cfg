SPECIFICATION Spec
CONSTANTS
  Threads = {t1, t2}
  Kids = {k1}
  None = None
  MinRefresh = 1
  Timeout = 1
  MaxAges = {0, 3}
  MaxTime = 5
SYMMETRY ThreadSymmetry
PROPERTIES
  ServedKeyIsFound
  WithdrawnKeyIsForgotten
