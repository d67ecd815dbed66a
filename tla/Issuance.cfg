SPECIFICATION MCSpec
CONSTANTS
  c1 = c1
  c2 = c2
  k1 = k1
  k2 = k2
  w1 = w1
  w2 = w2
  m1 = m1
  m2 = m2
  t1 = t1
  t2 = t2
  Threads = {t1, t2}
  Clients = {c1, c2}
  Files <- MCFiles
  Absent = Absent
  Failed = Failed
  None = None
  Window = 1
  MaxTime = 2
  Requests <- MCRequests
  DefaultWorkload = w2
  MaxApproved = 1
  MaxRequests = 3
INVARIANTS IssuedIsAuthorised ValidityIsEndorsed ApprovedIsBounded ApprovedIsCounted
PROPERTIES EveryRequestIsAnswered
