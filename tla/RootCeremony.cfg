SPECIFICATION FairSpec
CONSTANTS
  Instances = {i1, i2}
  Gens = {g1, g2, g3, g4, g5}
  None = None
  MaxFaults = 3
INVARIANTS
  StoredRootIsWhole
  ServedRootIsPublished
  TlogEntryIsOfRoot
  TlogEntryIsLogged
PROPERTIES
  RefinesRootOfTrust
  KeepsServing
