SPECIFICATION Spec
CONSTANTS
  Instances = {i1}
  Gens = {g1, g2}
  None = None
  MaxFaults = 1
INVARIANT ServedRootIsLogged
