CONSTANTS
  k1 = k1
  k2 = k2
  Keys = {k1, k2}
  Containers = {"c1"}
  Reserved = {"payloadLength"}
  MaxRecords = 2
  MaxParts = 3
  u1 = u1
  u2 = u2
  MaxAllowed = 3
  Users = {u1, u2}
  MaxSets = 2
  NetMaps <- MCNetMaps
  PolicyFilters <- MCPolicyFilters
  InnerFilters <- MCInnerFilters
  Height <- MCHeight
  PolicySelectors <- MCPolicySelectors
  PolicyReplicas <- MCPolicyReplicas
  BackupFactors = {1, 2}
  Nesting = 2
  MaxPolicy = 4
  MaxOfKind = 2
  MaxNodes = 4
  MaxWeight = 3
INIT MCInit
NEXT MCNext
INVARIANT LinePerReplica
SYMMETRY Symmetry
CHECK_DEADLOCK FALSE
