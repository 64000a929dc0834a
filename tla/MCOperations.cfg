\* One call of each operation, with everything it may find.
CONSTANTS
  Wallet = {"shop", "customer"}
  Shop = "shop"
  Token = {"usdc", "fake"}
  Stable = "usdc"
  TokenAccount <- MCTokenAccount
  OwnerOf <- MCOwnerOf
  MintOf <- MCMintOf
  PaymentCases <- MCPaymentCases
  ReorgDepth = 1
  NodeLag = 1
  LookupMoves = 2
  SafeLag = 2
  FinalLag = 4
  MaxHeight = 10
  StatusCases <- MCStatusCases
  MaxU64 = 2
  PlainGas = 10
  SendCases <- MCSendCases
  MaxCalls = 4
  DefaultChunk = 3
  HistoryLag = 1
  MaxBlocks = 5
  Grown <- MCGrown
  HistoryCases <- MCHistoryCases
  StateLag = 1
  MaxStates = 3
  IssuerStates <- MCIssuerStates
  IssuerCases <- MCIssuerCases
  CardStates <- MCCardStates
  NeobankCases <- MCNeobankCases
  FirstWeekday = 4
  Years <- MCYears
  Holidays <- MCHolidays
  EarlyCloses <- MCEarlyCloses
  StockCases <- MCStockCases
  PriceSources = 2
  Whole = 10
  MarketCases <- MCMarketCases
  QuoteSources = 3
  BuildSources = 2
  MaxSlippage = 5
  WideSpread = 2
  TradeCases <- MCTradeCases
  Chain <- MCChain
  FamilyOf <- MCFamilyOf
  Registry <- MCRegistry
  TokenCases <- MCTokenCases
  TransferGas = 2
  ToolCases <- MCToolCases
SPECIFICATION Spec
CHECK_DEADLOCK FALSE
INVARIANTS
  PaidMeansReceived
  VerdictIsFinal
  BuiltMovesAsked
  PagesComplete
  ChecksOfOneBlock
  ClearMeansScreened
  CardVerdictOfOneBlock
  StatementAddsUp
  PricesHonest
  SwapKeepsItsFloor
  OnlyCanonicalTokens
