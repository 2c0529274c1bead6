CONSTANTS
  c1 = c1  c2 = c2  k1 = k1
  Clients = {c1, c2}
  NGroups = 1
  Group <- GroupFlat
  Weighted = {c1, c2}
  ErrorThreshold = 3
  Callers = {k1}
  Wrapped = {k1}
  MaxConns = 1
SPECIFICATION Spec
INVARIANTS TypeOK HealthyIsSampled
PROPERTIES NothingRunsAfterClose
SYMMETRY ClientSymmetry
