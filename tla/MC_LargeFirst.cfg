SPECIFICATION Spec
CONSTANTS
  NAssets = 2
  MinAdaBase = 2
  MinAdaPerAsset = 1
  MaxValueAssets = 1
  MaxAvailable = 3
  UtxoValues <- TwoAssetUtxos
  Targets <- TwoAssetTargets
  Requests <- MCRequests
INVARIANTS
  ListsAccounted
  LoopTakesTheFront
  AnswerIsBest
PROPERTIES
  ImplementsCoinSelection
  Termination
