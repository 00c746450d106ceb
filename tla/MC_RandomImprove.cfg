SPECIFICATION Spec
CONSTANTS
  NAssets = 2
  MinAdaBase = 2
  MinAdaPerAsset = 1
  MaxValueAssets = 0
  MaxPool = 3
  MaxPre = 1
  Multipliers = {2}
  Requests <- MCRequests
  UtxoValues <- UtxoSamples
  UserOutputs <- OutputLists
  Implicit <- ImplicitValues
INVARIANTS
  PickFindsAll
  ShortfallIsReal
  SelectionAccounted
PROPERTIES
  UndoRestoresTotal
  ImplementsCoinSelection
  Termination
