CONSTANTS
  c1 = c1  c2 = c2  k1 = k1
  Clients = {c1, c2}
  NGroups = 2
  Group <- GroupTwo
  Weighted = {c1, c2}
  ErrorThreshold = 2
  Callers = {k1}
  Wrapped = {}
  MaxConns = 1
SPECIFICATION FairSpec
PROPERTIES CloseEnds NodeServes DeadNodeShunned FailBack
