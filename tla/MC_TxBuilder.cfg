SPECIFICATION MCSpec
CONSTANTS
  Calls <- AllCalls
  WalletIds <- Wallet
  CostModels = {"v1", "v2"}
  MaxCalls = 7
  Programs <- CollectOrBuild
INVARIANTS
  RedeemersComplete
  HashCoversWitnesses
  FirstFailureReported
  PointersFindTheirItem
PROPERTIES
  HandedOutIsFinal
