CONSTANTS
  MAX_JSON_DEPTH = 3
  AllocMayFail = FALSE
  ParseAllocFails = FALSE
  GrowAt = {1}
  MaxOut = 7
  InputLength = 1
  Inputs <- MCInputs
  Objects <- MCObjects
SPECIFICATION TextSpec
INVARIANT NestingDecides
CHECK_DEADLOCK FALSE
