CONSTANTS
  Limit = 3
  MaxInput = 16
  Retry = FALSE
SPECIFICATION RelationsSpec
INVARIANTS PayloadWithinLimit MetaMatchesPayload ChainContiguous ChainComplete
PROPERTIES ImplementsPayloadStream GetReturns
CHECK_DEADLOCK FALSE
