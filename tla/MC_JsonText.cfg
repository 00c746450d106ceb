CONSTANTS
  MAX_JSON_DEPTH = 4
  AllocMayFail = TRUE
  ParseAllocFails = TRUE
  GrowAt = {1}
  MaxOut = 9
  InputLength = 5
  Inputs <- MCInputs
  Objects <- MCObjects
SPECIFICATION TextSpec
INVARIANTS
  FramesInStep
  WritesDocument
  ParsesJson
  PrintedIsParsed
CHECK_DEADLOCK FALSE
