SPECIFICATION Spec
CONSTANTS
    \* 0, bytes(1), bytes(_), array(1), array(_), map(1), tag, break
    Core = {0, 65, 95, 129, 159, 161, 194, 255}
    CoreLength = 4
    \* also uint8, negative, empty text, text(_), array(2), map(_), null, false, half float
    Wide = {0, 24, 32, 96, 127, 130, 191, 246, 244, 249, 255}
    WideLength = 3
    Buffers <- MCBuffers
    INT64_MAX = 127
    SIZE_MAX = 15
    AllocMayFail = TRUE
INVARIANTS
  ReaderConsistent
  AcceptsDocuments
PROPERTIES
  SkipExact
  SkipTerminates
CHECK_DEADLOCK FALSE
