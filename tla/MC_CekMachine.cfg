SPECIFICATION Spec
CONSTANTS
    MaxSize = 5
    Cpu = {1, 19, 60}
    Programs <- MCPrograms
    Budgets <- MCBudgets
    CHUNK_SLOTS = 2
    SLIPPAGE = 3
    INT64_MAX = 66
    StepCosts <- MCStepCosts
    STARTUP <- MCStartup
    BuiltinCosts <- MCBuiltinCosts
    MAX_DISCHARGE = 7
    AllocMayFail = TRUE
    BYTE_BITS = 2
    INT_MAX = 7
    INT_TO_BS_MAX = 3
    VALUE_KEY_MAX = 2
    AMOUNT_LIMIT = 4
INVARIANTS
  AgreesWithReference
  BuiltinsSound
  BatchedAsStepwise
PROPERTIES
  Terminates
CHECK_DEADLOCK FALSE
