CONSTANTS
  k1 = k1
  k2 = k2
  Keys = {}
  Containers = {}
  Reserved = {}
  MaxRecords = 3
  MaxParts = 5
  u1 = u1
  u2 = u2
  MaxAllowed = 3
  Users = {u1, u2}
  MaxSets = 2
  NetMaps <- MCNetMaps
  PolicyFilters <- MCPolicyFilters
  InnerFilters <- MCInnerFilters
  Height <- MCHeight
  PolicySelectors <- MCPolicySelectors
  PolicyReplicas <- MCPolicyReplicas
  BackupFactors = {1, 2}
  Nesting = 2
  MaxPolicy = 4
  MaxOfKind = 2
  MaxNodes = 4
  MaxWeight = 3
INIT TargetsInit
NEXT MCNext
INVARIANT RulesStayAsAdded
SYMMETRY Symmetry
CHECK_DEADLOCK FALSE
