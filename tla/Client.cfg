CONSTANTS
  c1 = c1
  c2 = c2
  s1 = s1
  s2 = s2
  b1 = b1
  b2 = b2
  Callers = {c1, c2}
  MaxCalls = 3
  MaxPairs = 1
  Magics = {1, 2}
  MaxHops = 3
  Signers = {s1, s2}
  Bodies = {b1, b2}
  MaxLayers = 3
  MaxInt = 3
  MaxSent = 7
  MaxChunk = 3
  MaxBuf = 3
  MaxBad = 2
  MaxChunkLen = 2
  MaxPayload = 7
  MaxSignFails = 1
INIT MCInit
NEXT MCNext
INVARIANTS
  OnlyVerifiedReturned
  StatisticsAddUp
  NodeBlamed
  ErrorSurvives
  VerifiesAsSigned
  InOrder
  LengthReported
  CleanCloseMeansAll
  ServerReadsInOrder
  CloseNilMeansStored
  RefusalReported
SYMMETRY Symmetry
CHECK_DEADLOCK FALSE
