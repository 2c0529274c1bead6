CONSTANTS
  n1 = n1  n2 = n2  s1 = s1  s2 = s2  k1 = k1  k2 = k2  p1 = p1  v1 = v1  Base = Base  None = None
  Nodes = {n1}
  Longer <- OneAddress
  Signers = {s1}
  Callers = {k1, k2}
  Signer <- OneSigner
  PoolSigner = s1
  Wrapped = {k1, k2}
  Streaming = {k1}
  Probers = {p1}
  Scopes = {v1}
  CacheSize = 1
  Duration = 1
  MaxUint = 2
  MaxEpoch = 2
  MaxFaults = 2
SPECIFICATION FairSpec
PROPERTIES AutoSessionWorks
