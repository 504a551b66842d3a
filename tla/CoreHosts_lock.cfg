SPECIFICATION WindowsSpec
CONSTANTS
  MaxInputs = 6
  MaxSigners = 3
  MaxUtxos = 6
  Dust = 2
  MaxFeeRate = 2
  StorageParam = 200
  PsktLimit = 8
  TokenSupply = 1000
  NetworkFeeCap = 200
  NoteFloor = 20
  PrepareDebit = 700
  OrderDeposit = 30
  OrderFeeCap = 250
  MergeCost = 300
  ExpiryWindow <- MCExpiry
  RocketPayees <- MCRocketPayees
  Deci = 10
  BraidPins <- MCBraidPins
  RouterPin <- MCRouterPin
  KasScale = 1
  LpScale = 10
  MassLimit = 10000
  StorageTarget = 5000
  CellFee = 10
  CellDeposit = 20
  FundingMargin = 50
  PlanSteps = 4
  PlanCells = 8
  InputLimit <- MCInputLimit
  Lots = 1000
  CurveLots = 650
  Base = 20
  Slope = 1
  Cell = 20
  PoolFloor = 100
  SwapFeeCap = 1000
  SellFeeCap = 1000
  FeeBand <- MCFeeBand
  Commission <- MCCommission
  FeeUnit = 1
  MinPlatformFee = 5
  PriceUnit = 10
  MaxFunds = 3
  TangemKeys <- MCTangemKeys
  CommitAmount = 60
  ListAmount = 200
  MaxHiddenIndex = 9
  MaxHiddenCoins = 3
  HiddenDust = 2
  HiddenMass = 1000
  FeeRounds = 5
  MaxMessage = 10
  EvmChains <- MCEvmChains
  GasRange <- MCGas
  MaxVaultFee = 50
  Notice = 5
  Registry <- MCRegistry
  Bond = 100
  SaleReserve = 100
  MinSalePrice = 1000
  MaxSalePrice = 100000
  SaleMassLimit = 10000
  SecretOf <- MCSecretOf
  Requests <- MCRequests
  Plays <- MCPlays
  FirstWallet = "w1"
  MaxFailures = 2
  SessionLife = 2
  ReviewLife = 2
  MaxReviews = 1
  MaxQueued = 1
  Secret <- secret
  Samples <- MCSamples
  Stranger <- thief
  Nudges <- MCNudges
  MaxEdits = 2
  MaxAmends = 2
INVARIANT LockForgetsPassword
CHECK_DEADLOCK FALSE
