CONSTANTS
  Limit = 2
  MaxInput = 5
  Retry = FALSE
  EOFWithData = TRUE
SPECIFICATION PutSpec
INVARIANTS PutStoresInput
CHECK_DEADLOCK FALSE
