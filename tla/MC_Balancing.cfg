SPECIFICATION Spec
CONSTANTS
  NAssets = 1
  MinAdaBase = 2
  MinAdaPerAsset = 1
  MaxValueAssets = 0
  KeyDeposit = 2
  PoolDeposit = 3
  MinFeeA = 1
  MinFeeB = 1
  WitnessSize = 1
  HeaderStep = 2
  CoinStep = 16
  ExPrice = 1
  CollateralPercentage = 150
  DefaultCollateral = 20
  Requests <- MCRequests
INVARIANTS
  OnlyLastRound
  BalancedOrRefused
  RedeemersFitLayout
  FeeCovers
PROPERTIES
  Termination
