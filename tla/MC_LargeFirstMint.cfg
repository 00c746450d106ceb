SPECIFICATION Spec
CONSTANTS
  NAssets = 1
  MinAdaBase = 2
  MinAdaPerAsset = 1
  MaxValueAssets = 0
  MaxAvailable = 2
  UtxoValues <- OneAssetUtxos
  Targets <- MintTargets
  Requests <- MCRequests
INVARIANT
  SelectsAnInput
