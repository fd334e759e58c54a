\* A message buys weight in KSM, the native currency and a registered asset,
\* gets it back and delivers the rest, while locations and multiples change
\* before and in it. Weight 50 is free in KSM; a product of the multiple 1500
\* with weight 150 wraps.
SPECIFICATION Spec
CONSTANTS
  root = root
  treasury = treasury
  chain = chain
  None = None
  Accounts = {root, treasury, chain}
  CurrencyIds = {0, 2, 7}
  Native = 0
  Treasury = treasury
  NativeED = 3
  AirDropAmount = 3
  Permitted <- RegistryCalls
  Locations <- AllLocations
  Metadata <- OneMetadata
  Multiples = {1500}
  ParaId = 2105
  BaseWeight = 10
  BaseTxFee = 10
  WeightPerSecond = 100
  U128 = 200000
  Assets <- TwoAssets
  Minimums <- SmallAccounts
  Origins <- OneSibling
  LocationToAccountId <- Sovereign
  Funds <- SovereignFunds
  Arrivals <- FewArrivals
  Beneficiaries = {root}
  Weights = {50, 150}
  MaxPurchases = 2
  MaxMessages = 1
INVARIANTS TypeOK ReturnsHome FeesConserved
PROPERTIES RevenueArrives DeliveryArrives
CHECK_DEADLOCK FALSE
