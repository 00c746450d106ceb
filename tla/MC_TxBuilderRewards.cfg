SPECIFICATION MCSpec
CONSTANTS
  Calls <- Withdrawals
  WalletIds <- Wallet
  CostModels = {"v1", "v2"}
  MaxCalls = 4
  Programs <- Withdraw
INVARIANT RewardPointersFindTheirWithdrawal
