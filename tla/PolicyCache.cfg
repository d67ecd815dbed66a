SPECIFICATION FairSpec
CONSTANTS
  Threads = {t1, t2}
  Clients = {c1}
  Files = {f1}
  Absent = Absent
  Failed = Failed
  None = None
  Ttl = 2
  LoadTime = 1
  MaxTime = 5
PROPERTIES RefinesPolicyStore EveryLoadEnds
