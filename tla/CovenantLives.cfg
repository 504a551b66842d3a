SPECIFICATION Spec
CONSTANTS
  MaxInputs = 80
  MaxSigners = 100
  MaxUtxos = 250
  Dust = 1
  MaxFeeRate = 2
  StorageParam = 20
  WyrmElements = {0}
  SupplyCap = 1
  HalfDay = 1
  GrowthNeeds <- MCNeeds
  WyrmReserve = 10
  StorageTarget = 20
  MinVault = 10
  Notice = 2
  MaxVaultFee = 6
  InactivityRange <- MCInactivity
  MaxDaa = 1000
  Users <- MCUsers
  StartCoins <- MCStartCoins
  MaxNow = 7
  MaxTxs = 3
  Lives <- MCLives
  GiftAmount = 12
  VaultTerms <- MCTerms
  Deposit = 10
  Password <- MCPassword
INVARIANTS
  ContractAgrees
  DeathIsDeserved
  WyrmStaysSpendable
  VaultPaysItsHeir
  DraftIsMinable
  BackupFindsVault
CONSTRAINT OneAtATime
CHECK_DEADLOCK FALSE
