\* Two accounts, the native currency and one that is not at genesis, in either
\* runtime: assets are created, described, moved, burned, given air drops, and
\* accounts opened and closed by changes of the existential deposit.
SPECIFICATION Spec
CONSTANTS
  root = root
  bob = bob
  None = None
  Accounts = {root, bob}
  CurrencyIds = {0, 7}
  Native = 0
  Treasury = treasury
  NativeED = 2
  AirDropAmount = 2
  Permitted <- LedgerCalls
  Locations = {}
  Metadata <- AllMetadata
  Multiples = {}
  Amounts = {1}
  Dropped = {7}
  Numbers = {1}
  Deposits = {1}
  Root = root
  GenesisMetadata <- Listen
  Endowment = 1
  Endowed <- EndowedRoot
  MaxNative = 4
  MaxTokens = 1
  ListenFoundationAccounts = {root}
  Multisigs = {bob}
  Members = {bob}
  MaxProviders = 2
INVARIANTS TypeOK UsersCounted HoldersAlive
PROPERTIES AssetInfoStable SupplyFixed NobodyEmptied
CHECK_DEADLOCK FALSE
