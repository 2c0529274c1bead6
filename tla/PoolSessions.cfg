CONSTANTS
  n1 = n1  n2 = n2  s1 = s1  s2 = s2  k1 = k1  k2 = k2  p1 = p1  v1 = v1  Base = Base  None = None
  Nodes = {n1, n2}
  Longer <- LongerAddress
  Signers = {s1, s2}
  Callers = {k1, k2}
  Signer <- TwoSigners
  PoolSigner = s1
  Wrapped = {k1}
  Streaming = {}
  Probers = {}
  Scopes = {v1}
  CacheSize = 2
  Duration = 1
  MaxUint = 1
  MaxEpoch = 1
  MaxFaults = 1
SPECIFICATION Spec
INVARIANTS SessionOfTheNode SessionOfTheSigner
