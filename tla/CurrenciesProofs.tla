---------------------------- MODULE CurrenciesProofs ----------------------------
(***************************************************************************)
(* What an asset is stays, for any assets, accounts and calls. The only    *)
(* call beside those on the registry that touches what assets are is       *)
(* create_asset, which takes a currency that has no metadata: the assets   *)
(* the chain starts with, or one that was created without any.             *)
(*                                                                         *)
(* The ledger is sound at genesis and stays so: users are counted, and     *)
(* what an account holds has its providers (RegistryProofs). What a call   *)
(* does to the supplies and to native balances is stated with it, so that  *)
(* the two properties of steps follow call by call.                        *)
(***************************************************************************)
EXTENDS Currencies, RegistryProofs

LEMMA InitInfo == Init => InfoTyped
<1> SUFFICES ASSUME Init
             PROVE  InfoTyped
  OBVIOUS
<1>1. ListenAssetsInfo = [c \in DOMAIN Genesis |-> Genesis[c].info]
  BY DEF Init, RegistryInit
<1>2. \A c \in DOMAIN Genesis :
        Genesis[c].info = [owner |-> Root, metadata |-> GenesisMetadata]
  BY DEF Genesis
<1>3. [owner |-> Root, metadata |-> GenesisMetadata] \in AssetInfo
  BY CurrenciesAssumption DEF AssetInfo
<1> QED BY <1>1, <1>2, <1>3 DEF InfoTyped

\* create_asset takes a currency that has no metadata yet.
LEMMA CreateAssetKeeps ==
  ASSUME InfoTyped, NEW who \in Accounts, NEW d, NEW amount,
         NEW metadata \in Metadata \cup {None}, CreateAsset(who, d, amount, metadata)
  PROVE  InfoTyped' /\ \A c : InfoKept(c)
<1> DEFINE new == [owner |-> who, metadata |-> metadata]
<1>1. new \in AssetInfo
  BY DEF AssetInfo
<1>2. ~IsExistsMetadata(d) /\ ListenAssetsInfo' = Put(ListenAssetsInfo, d, new)
  BY DEF CreateAsset
<1> HIDE DEF new
<1>3. /\ ListenAssetsInfo' =
           [c \in DOMAIN ListenAssetsInfo \cup {d} |-> ListenAssetsInfo'[c]]
      /\ DOMAIN ListenAssetsInfo' = DOMAIN ListenAssetsInfo \cup {d}
      /\ ListenAssetsInfo'[d] = new
      /\ \A c \in DOMAIN ListenAssetsInfo \ {d} :
           ListenAssetsInfo'[c] = ListenAssetsInfo[c]
  BY <1>2 DEF Put
<1>4. InfoTyped'
  BY <1>1, <1>3 DEF InfoTyped, AssetInfo
<1>5. ASSUME NEW c, IsExistsMetadata(c)
      PROVE  c \in DOMAIN ListenAssetsInfo' /\ ListenAssetsInfo'[c] = ListenAssetsInfo[c]
  BY <1>2, <1>3, <1>5 DEF IsExistsMetadata, Exists
<1> QED BY <1>4, <1>5 DEF InfoKept, IsExistsMetadata, Exists

\* A step that leaves the assets alone keeps them.
LEMMA NothingKeeps ==
  ASSUME InfoTyped, UNCHANGED registry
  PROVE  InfoTyped' /\ \A c : InfoKept(c)
BY DEF registry, InfoTyped, InfoKept, IsExistsMetadata, Exists

LEMMA NextKeeps ==
  ASSUME InfoTyped, [Next]_vars
  PROVE  InfoTyped' /\ \A c : InfoKept(c)
<1>1. CASE \E who \in Accounts, c \in CurrencyIds, amount \in Amounts,
              metadata \in Metadata \cup {None} : CreateAsset(who, c, amount, metadata)
  BY <1>1, CreateAssetKeeps
<1>2. CASE RegistryCall
  BY <1>2, RegistryKeepsInfo DEF RegistryCall
<1>3. CASE UNCHANGED registry
  BY <1>3, NothingKeeps
<1>4. ASSUME NEW who \in Accounts, NEW c \in CurrencyIds, AssetCall(who, c)
      PROVE  InfoTyped' /\ \A d : InfoKept(d)
  <2>1. CASE \E deposit \in Deposits : SetExistenialDeposit(who, c, deposit)
    BY <1>3, <2>1 DEF SetExistenialDeposit
  <2> QED BY <1>1, <1>4, <2>1 DEF AssetCall
<1>5. ASSUME NEW who \in Accounts, NEW c \in CurrencyIds, BalanceCall(who, c)
      PROVE  InfoTyped' /\ \A d : InfoKept(d)
  BY <1>3, <1>5 DEF BalanceCall, Burn, TransferCall, TokensTransfer, UpdateBalanceCall,
                    PalletDeposit, PalletWithdraw
<1>6. CASE \E c \in Dropped, number \in Numbers : SetAirDropNumer(c, number)
  BY <1>3, <1>6 DEF SetAirDropNumer
<1>7. CASE \E who \in Accounts, multisig \in Multisigs : SetMultisig(who, multisig)
  BY <1>3, <1>7 DEF SetMultisig
<1>8. CASE \E user \in Members : AirDrop(user)
  BY <1>3, <1>8 DEF AirDrop
<1>9. CASE UNCHANGED vars
  BY <1>3, <1>9 DEF vars
<1> QED BY <1>2, <1>4, <1>5, <1>6, <1>7, <1>8, <1>9 DEF Next

\* Once an asset has metadata its owner and its decimals stay (create_asset,
\* set_metadata).
THEOREM AssetsStay == Spec => AssetInfoStable
<1>1. InfoTyped /\ [Next]_vars => InfoTyped'
  BY NextKeeps
<1>2. InfoTyped /\ [Next]_vars =>
        [\A c \in CurrencyIds :
           IsExistsMetadata(c) =>
             /\ IsExistsMetadata(c)'
             /\ ListenAssetsInfo'[c].owner = ListenAssetsInfo[c].owner
             /\ ListenAssetsInfo'[c].metadata.decimals
                  = ListenAssetsInfo[c].metadata.decimals]_vars
  BY NextKeeps DEF InfoKept
<1> QED BY InitInfo, <1>1, <1>2, PTL DEF Spec, AssetInfoStable

-----------------------------------------------------------------------------
(* The ledger: at genesis, and after every call.                           *)

\* What genesis deposits assets to: the native balances, account by account.
EndowedLedger(runtime) ==
  FoldSet(LAMBDA a, l : NativeDeposit(l, a, Endowed[a]), NoLedger(runtime), Accounts)

LEMMA EndowedSound ==
  ASSUME NEW runtime \in Runtimes
  PROVE  Sound(EndowedLedger(runtime))
<1> DEFINE base == NoLedger(runtime)
           L == {l \in Ledgers : Sound(l)}
           Result(g, T) == IF T = {} THEN base
                           ELSE NativeDeposit(g[T \ {Chosen(T)}], Chosen(T), Endowed[Chosen(T)])
           Results(g) == g = [T \in SUBSET Accounts |-> Result(g, T)]
           step == [p \in Accounts \X L |-> NativeDeposit(p[2], p[1], Endowed[p[1]])]
           g == CHOOSE g : Results(g)
<1>1. EndowedLedger(runtime) = g[Accounts]
  BY DEF EndowedLedger, FoldSet, MapThenFoldSet, Chosen
<1>2. \A a \in Accounts, l \in L : NativeDeposit(l, a, Endowed[a]) \in L
  BY CurrenciesAssumption, NativeDepositSound DEF Sound, Kept
<1>3. step \in [Accounts \X L -> L]
  <2>1. \A p \in Accounts \X L : p[1] \in Accounts /\ p[2] \in L
    OBVIOUS
  <2> QED BY <1>2, <2>1
<1>4. \A a \in Accounts, l \in L : step[<<a, l>>] = NativeDeposit(l, a, Endowed[a])
  OBVIOUS
<1>5. base \in L
  BY NoLedgerSound DEF Sound, Kept
<1>6. IsFiniteSet(Accounts)
  BY LedgerAssumption
<1> HIDE DEF base, L, step
<1>7. PICK h \in [SUBSET Accounts -> L] : PartialFolds(step, base, h, Accounts)
  BY <1>3, <1>5, <1>6, FoldsExist
<1>8. ASSUME NEW T \in SUBSET Accounts
      PROVE  h[T] = Result(h, T)
  <2>1. CASE T = {}
    BY <1>7, <2>1 DEF PartialFolds
  <2>2. CASE T # {}
    <3>1. Chosen(T) \in Accounts /\ h[T \ {Chosen(T)}] \in L
      BY <2>2, ChosenIn
    <3> QED BY <1>4, <1>7, <2>2, <3>1 DEF PartialFolds
  <2> QED BY <2>1, <2>2
<1>9. Results(h)
  BY <1>8
<1>10. Results(g)
  BY <1>9
<1> HIDE DEF g
<1>11. \A T \in SUBSET Accounts : g[T] = Result(g, T)
  BY <1>10
<1>12. g[{}] \in L
  BY <1>5, <1>11
<1>13. ASSUME NEW T \in SUBSET Accounts, T # {}, g[T \ {Chosen(T)}] \in L
       PROVE  g[T] \in L
  BY <1>2, <1>11, <1>13, ChosenIn
<1>14. g[Accounts] \in L
  BY <1>6, <1>12, <1>13, FoldStays
<1>15. Sound(g[Accounts])
  BY <1>14 DEF L
<1> QED BY <1>1, <1>15

\* The assets of genesis, each deposited to its owner.
LEMMA GenesisSound ==
  ASSUME NEW runtime \in Runtimes
  PROVE  Sound(GenesisLedger(runtime))
<1> DEFINE base == EndowedLedger(runtime)
           S == DOMAIN Genesis
           L == {l \in Ledgers : Sound(l)}
           Deposited(l, c) == TokenDeposit(l, c, Genesis[c].info.owner, Genesis[c].amount)
           Result(g, T) == IF T = {} THEN base
                           ELSE Deposited(g[T \ {Chosen(T)}], Chosen(T))
           Results(g) == g = [T \in SUBSET S |-> Result(g, T)]
           step == [p \in S \X L |-> Deposited(p[2], p[1])]
           g == CHOOSE g : Results(g)
<1>1. GenesisLedger(runtime) = g[S]
  BY DEF GenesisLedger, EndowedLedger, FoldSet, MapThenFoldSet, Chosen
<1>2. \A c \in S : /\ c \in CurrencyIds /\ Genesis[c].info.owner \in Accounts
                   /\ Genesis[c].amount \in Nat
  BY CurrenciesAssumption DEF Genesis
<1>3. \A c \in S, l \in L : Deposited(l, c) \in L
  BY <1>2, TokenDepositSound DEF Sound, Kept
<1>4. base \in L
  BY EndowedSound DEF Sound, Kept
<1>5. IsFiniteSet(S)
  BY LedgerAssumption, FS_Subset DEF Genesis
<1> HIDE DEF base, L, S, Deposited
<1>6. step \in [S \X L -> L]
  <2>1. \A p \in S \X L : p[1] \in S /\ p[2] \in L
    OBVIOUS
  <2> QED BY <1>3, <2>1
<1>7. \A c \in S, l \in L : step[<<c, l>>] = Deposited(l, c)
  OBVIOUS
<1> HIDE DEF step
<1>8. PICK h \in [SUBSET S -> L] : PartialFolds(step, base, h, S)
  BY <1>4, <1>5, <1>6, FoldsExist
<1>9. ASSUME NEW T \in SUBSET S
      PROVE  h[T] = Result(h, T)
  <2>1. CASE T = {}
    BY <1>8, <2>1 DEF PartialFolds
  <2>2. CASE T # {}
    <3>1. Chosen(T) \in S /\ h[T \ {Chosen(T)}] \in L
      BY <2>2, ChosenIn
    <3> QED BY <1>7, <1>8, <2>2, <3>1 DEF PartialFolds
  <2> QED BY <2>1, <2>2
<1>10. Results(h)
  BY <1>9
<1>11. Results(g)
  BY <1>10
<1> HIDE DEF g
<1>12. \A T \in SUBSET S : g[T] = Result(g, T)
  BY <1>11
<1>13. g[{}] \in L
  BY <1>4, <1>12
<1>14. ASSUME NEW T \in SUBSET S, T # {}, g[T \ {Chosen(T)}] \in L
       PROVE  g[T] \in L
  BY <1>3, <1>12, <1>14, ChosenIn
<1>15. g[S] \in L
  BY <1>5, <1>13, <1>14, FoldStays
<1> QED BY <1>1, <1>15 DEF L

\* Storing tokens takes nobody's native money.
LEMMA StoresLeaves ==
  ASSUME NEW l, Sound(l), NEW m, Sound(m), NEW c, NEW a, NEW amount,
         Stores(l, m, c, a, amount)
  PROVE  NobodyLeft(l, m)
BY DEF Stores, NobodyLeft, Sound, Kept, Ledgers

\* What a step may do to the money: c is the only currency whose supply grows,
\* and nobody is left without native money.
Grows(l, m, c) ==
  /\ Sound(m) /\ NobodyLeft(l, m)
  /\ \A d \in CurrencyIds \ {c} : SupplyOf(m, d) = SupplyOf(l, d)

LEMMA CreateAssetSound ==
  ASSUME Sound(ledger), NEW who \in Accounts, NEW c \in CurrencyIds,
         NEW amount \in Amounts, NEW metadata, CreateAsset(who, c, amount, metadata)
  PROVE  Grows(ledger, ledger', c) /\ ~IsExistsMetadata(c)
<1> DEFINE total == TokenBalance(ledger, c, who) + amount
<1>1. amount \in Nat
  BY CurrenciesAssumption
<1>2. ledger' = TokenDeposit(ledger, c, who, amount) /\ ~IsExistsMetadata(c)
  BY DEF CreateAsset
<1>3. Sound(ledger') /\ Stores(ledger, ledger', c, who, total)
  BY <1>1, <1>2, TokenDepositSound
<1>4. total \in Nat
  BY <1>1, TokenBalanceType
<1> HIDE DEF total
<1>5. \A d \in CurrencyIds \ {c} : SupplyOf(ledger', d) = SupplyOf(ledger, d)
  BY <1>3, <1>4, SupplyStored
<1> QED BY <1>2, <1>3, <1>5, StoresLeaves DEF Grows

LEMMA BurnSound ==
  ASSUME Sound(ledger), NEW who \in Accounts, NEW c \in CurrencyIds,
         NEW amount \in Amounts, Burn(who, c, amount)
  PROVE  Grows(ledger, ledger', c) /\ ~(SupplyOf(ledger', c) > SupplyOf(ledger, c))
<1> DEFINE left == TokenBalance(ledger, c, who) - amount
<1>1. amount \in Nat \ {0}
  BY CurrenciesAssumption
<1>2. /\ CanTokenWithdraw(ledger, c, who, amount)
      /\ ledger' = TokenWithdraw(ledger, c, who, amount)
  BY DEF Burn
<1>3. Sound(ledger') /\ Stores(ledger, ledger', c, who, left)
  BY <1>1, <1>2, TokenWithdrawSound
<1>4. left \in Nat /\ TokenBalance(ledger, c, who) \in Nat
  BY <1>1, <1>2, TokenBalanceType DEF CanTokenWithdraw
<1>5. /\ SupplyOf(ledger, c) \in Int
      /\ SupplyOf(ledger', c) = SupplyOf(ledger, c) - TokenBalance(ledger, c, who) + left
      /\ \A d \in CurrencyIds \ {c} : SupplyOf(ledger', d) = SupplyOf(ledger, d)
  BY <1>3, <1>4, SupplyStored
<1>6. ~(SupplyOf(ledger', c) > SupplyOf(ledger, c))
  BY <1>1, <1>4, <1>5
<1> QED BY <1>3, <1>5, <1>6, StoresLeaves DEF Grows

\* Transfers, of either kind, leave every supply.
LEMMA MoveSound ==
  ASSUME Sound(ledger), NEW from \in Accounts, NEW to \in Accounts \ {from},
         NEW c \in CurrencyIds, NEW amount \in Amounts,
         TransferCall(from, to, c, amount) \/ TokensTransfer(from, to, c, amount)
  PROVE  Grows(ledger, ledger', c) /\ SupplyOf(ledger', c) = SupplyOf(ledger, c)
<1>1. amount \in Nat \ {0} /\ from # to
  BY CurrenciesAssumption
<1>2. CASE TransferCall(from, to, c, amount)
  BY <1>1, <1>2, TransferSound DEF TransferCall, Grows
<1>3. CASE TokensTransfer(from, to, c, amount)
  BY <1>1, <1>3, TokenTransferSound DEF TokensTransfer, Grows
<1> QED BY <1>2, <1>3

LEMMA PalletDepositSound ==
  ASSUME Sound(ledger), NEW who \in Accounts, NEW c \in CurrencyIds,
         NEW amount \in Amounts, PalletDeposit(who, c, amount)
  PROVE  /\ Grows(ledger, ledger', c)
         /\ c = Native => SupplyOf(ledger', c) = SupplyOf(ledger, c)
<1>1. amount \in Nat /\ ledger' = Deposit(ledger, c, who, amount)
  BY CurrenciesAssumption DEF PalletDeposit
<1> QED BY <1>1, DepositSound DEF Grows

LEMMA PalletWithdrawSound ==
  ASSUME Sound(ledger), NEW who \in Accounts, NEW c \in CurrencyIds,
         NEW amount \in Amounts, PalletWithdraw(who, c, amount)
  PROVE  /\ Grows(ledger, ledger', c)
         /\ c = Native => SupplyOf(ledger', c) = SupplyOf(ledger, c)
<1>1. /\ amount \in Nat \ {0} /\ CanWithdraw(ledger, c, who, amount)
      /\ ledger' = Withdraw(ledger, c, who, amount)
  BY CurrenciesAssumption DEF PalletWithdraw
<1> QED BY <1>1, WithdrawSound DEF Grows

\* root adds to a balance as a pallet deposits.
LEMMA RaiseSound ==
  ASSUME Sound(ledger), NEW who \in Accounts, NEW c \in CurrencyIds,
         NEW amount \in Amounts, UpdateBalanceCall(who, c, amount)
  PROVE  /\ Grows(ledger, ledger', c)
         /\ c = Native => SupplyOf(ledger', c) = SupplyOf(ledger, c)
<1>1. amount \in Nat /\ amount >= 0
  BY CurrenciesAssumption
<1>2. ledger' = Deposit(ledger, c, who, amount)
  BY <1>1 DEF UpdateBalanceCall, UpdateBalance
<1> QED BY <1>1, <1>2, DepositSound DEF Grows

\* root takes from a balance what is there; only here may the native money of an
\* account be used up, and only of the account that root names.
LEMMA LowerSound ==
  ASSUME Sound(ledger), NEW who \in Accounts, NEW c \in CurrencyIds,
         NEW amount \in Amounts, UpdateBalanceCall(who, c, -amount)
  PROVE  /\ Sound(ledger')
         /\ \A d \in CurrencyIds :
              d # c \/ c = Native => SupplyOf(ledger', d) = SupplyOf(ledger, d)
         /\ \A b \in Accounts :
              NativeBalance(ledger, b) > 0 /\ ~(NativeBalance(ledger', b) > 0)
                => c = Native /\ b = who /\ ~LeavesAirDrop(ledger, who, amount)
<1>1. amount \in Nat \ {0} /\ -amount < 0 /\ ~(-amount >= 0) /\ -(-amount) = amount
  BY CurrenciesAssumption
<1>2. /\ CanUpdateBalance(ledger, c, who, -amount)
      /\ ledger' = Withdraw(ledger, c, who, amount)
  BY <1>1 DEF UpdateBalanceCall, UpdateBalance
<1>3. CASE c = Native
  <2> DEFINE m == NativeWithdraw(ledger, who, amount)
  <2>1. ledger' = m /\ NativeBalance(ledger, who) >= amount
    BY <1>1, <1>2, <1>3 DEF Withdraw, CanUpdateBalance
  <2>2. /\ Sound(m) /\ m.tokens = ledger.tokens
        /\ \A b \in Accounts \ {who} : m.balances[b] = ledger.balances[b]
        /\ LeavesAirDrop(ledger, who, amount) => m.balances[who] > 0
    BY <1>1, <2>1, NativeWithdrawSound
  <2> HIDE DEF m
  <2>3. \A d \in CurrencyIds : SupplyOf(m, d) = SupplyOf(ledger, d)
    BY <2>2, SupplySame DEF TokenBalance
  <2> QED BY <1>3, <2>1, <2>2, <2>3 DEF NativeBalance
<1>4. CASE c # Native
  <2>1. CanWithdraw(ledger, c, who, amount)
    BY <1>1, <1>2, <1>4 DEF CanUpdateBalance, CanWithdraw
  <2>2. /\ Sound(ledger') /\ NobodyLeft(ledger, ledger')
        /\ \A d \in CurrencyIds : d # c => SupplyOf(ledger', d) = SupplyOf(ledger, d)
    BY <1>1, <1>2, <2>1, WithdrawSound
  <2> QED BY <1>4, <2>2 DEF NobodyLeft, NativeBalance
<1> QED BY <1>3, <1>4

\* Settings, air drops and whatever leaves the ledger leave every supply.
SuppliesStay(l, m) ==
  /\ Sound(m) /\ NobodyLeft(l, m)
  /\ \A d \in CurrencyIds : SupplyOf(m, d) = SupplyOf(l, d)

LEMMA SettingsSound ==
  ASSUME Sound(ledger),
         \/ \E who \in Accounts, c \in CurrencyIds, deposit \in Deposits :
              SetExistenialDeposit(who, c, deposit)
         \/ \E c \in Dropped, number \in Numbers : SetAirDropNumer(c, number)
         \/ UNCHANGED ledger
  PROVE  SuppliesStay(ledger, ledger')
<1>1. ledger \in Ledgers
  BY DEF Sound, Kept
<1>2. ASSUME NEW c \in CurrencyIds, NEW deposit \in Nat,
             ledger' = [ledger EXCEPT !.existential[c] = deposit]
      PROVE  SuppliesStay(ledger, ledger')
  <2> DEFINE existential == [ledger.existential EXCEPT ![c] = deposit]
  <2>1. ledger' = [ledger EXCEPT !.existential = existential]
    BY <1>1, <1>2 DEF Ledgers
  <2>2. existential \in [CurrencyIds -> Nat]
    BY <1>1 DEF Ledgers
  <2> HIDE DEF existential
  <2>3. /\ ledger' \in Ledgers /\ ledger'.runtime = ledger.runtime
        /\ ledger'.balances = ledger.balances /\ ledger'.tokens = ledger.tokens
        /\ ledger'.providers = ledger.providers /\ ledger'.users = ledger.users
    BY <1>1, <2>1, <2>2 DEF Ledgers
  <2> QED BY <2>3, SettingsKeep DEF SuppliesStay
<1>3. ASSUME NEW c \in CurrencyIds, NEW number \in Nat,
             ledger' = [ledger EXCEPT !.airdrops[c] = number]
      PROVE  SuppliesStay(ledger, ledger')
  <2> DEFINE airdrops == [ledger.airdrops EXCEPT ![c] = number]
  <2>1. ledger' = [ledger EXCEPT !.airdrops = airdrops]
    BY <1>1, <1>3 DEF Ledgers
  <2>2. airdrops \in [CurrencyIds -> Nat]
    BY <1>1 DEF Ledgers
  <2> HIDE DEF airdrops
  <2>3. /\ ledger' \in Ledgers /\ ledger'.runtime = ledger.runtime
        /\ ledger'.balances = ledger.balances /\ ledger'.tokens = ledger.tokens
        /\ ledger'.providers = ledger.providers /\ ledger'.users = ledger.users
    BY <1>1, <2>1, <2>2 DEF Ledgers
  <2> QED BY <2>3, SettingsKeep DEF SuppliesStay
<1>4. CASE UNCHANGED ledger
  BY <1>4 DEF SuppliesStay, NobodyLeft
<1>5. Deposits \subseteq Nat /\ Numbers \subseteq Nat /\ Dropped \subseteq CurrencyIds
  BY CurrenciesAssumption
<1> QED BY <1>2, <1>3, <1>4, <1>5 DEF SetExistenialDeposit, SetAirDropNumer

LEMMA AirDropSound ==
  ASSUME Sound(ledger), NEW user \in Members, AirDrop(user)
  PROVE  SuppliesStay(ledger, ledger')
<1>1. user \in Accounts /\ AirDropAmount \in Nat /\ ledger.balances \in [Accounts -> Nat]
  BY CurrenciesAssumption, LedgerAssumption DEF Sound, Kept, Ledgers
<1>2. PICK k : /\ k = ledger \/ k = NativeDeposit(ledger, user, AirDropAmount)
               /\ ledger' = IncProviders(k, user)
  BY DEF AirDrop
<1>3. /\ Sound(k) /\ k.tokens = ledger.tokens
      /\ \A b \in Accounts : k.balances[b] >= ledger.balances[b]
  <2>1. CASE k = ledger
    BY <1>1, <2>1
  <2>2. CASE k = NativeDeposit(ledger, user, AirDropAmount)
    BY <1>1, <2>2, NativeDepositSound
  <2> QED BY <1>2, <2>1, <2>2
<1>4. Sound(ledger') /\ SameMoney(k, ledger')
  BY <1>1, <1>2, <1>3, IncSound
<1>5. ledger'.tokens = ledger.tokens /\ ledger'.balances = k.balances
  BY <1>3, <1>4 DEF SameMoney
<1>6. \A d \in CurrencyIds : SupplyOf(ledger', d) = SupplyOf(ledger, d)
  BY <1>5, SupplySame DEF TokenBalance
<1>7. NobodyLeft(ledger, ledger')
  BY <1>3, <1>5 DEF NobodyLeft, Sound, Kept, Ledgers
<1> QED BY <1>4, <1>6, <1>7 DEF SuppliesStay

-----------------------------------------------------------------------------
(* The theorems about money.                                               *)

\* A step that leaves every supply.
StayingStep ==
  \/ \E who \in Accounts, c \in CurrencyIds, deposit \in Deposits :
       SetExistenialDeposit(who, c, deposit)
  \/ \E c \in Dropped, number \in Numbers : SetAirDropNumer(c, number)
  \/ \E user \in Members : AirDrop(user)
  \/ UNCHANGED ledger

\* A step of amount of c on the balance of who.
MoneyStep(who, c, amount) ==
  \/ \E metadata \in Metadata \cup {None} : CreateAsset(who, c, amount, metadata)
  \/ Burn(who, c, amount)
  \/ \E to \in Accounts \ {who} :
       TransferCall(who, to, c, amount) \/ TokensTransfer(who, to, c, amount)
  \/ UpdateBalanceCall(who, c, amount) \/ UpdateBalanceCall(who, c, -amount)
  \/ PalletDeposit(who, c, amount) \/ PalletWithdraw(who, c, amount)

LEMMA StepIs ==
  ASSUME [Next]_vars
  PROVE  \/ StayingStep
         \/ \E who \in Accounts, c \in CurrencyIds, amount \in Amounts : MoneyStep(who, c, amount)
<1>1. CASE UNCHANGED vars
  BY <1>1 DEF vars, StayingStep
<1>2. ASSUME NEW who \in Accounts, NEW c \in CurrencyIds, AssetCall(who, c)
      PROVE  StayingStep \/ \E amount \in Amounts : MoneyStep(who, c, amount)
  BY <1>2 DEF AssetCall, StayingStep, MoneyStep
<1>3. ASSUME NEW who \in Accounts, NEW c \in CurrencyIds, BalanceCall(who, c)
      PROVE  \E amount \in Amounts : MoneyStep(who, c, amount)
  BY <1>3 DEF BalanceCall, MoneyStep
<1>4. CASE RegistryCall
  BY <1>4 DEF RegistryCall, StayingStep
<1>5. CASE \E who \in Accounts, multisig \in Multisigs : SetMultisig(who, multisig)
  BY <1>5 DEF SetMultisig, StayingStep
<1>6. CASE \E c \in Dropped, number \in Numbers : SetAirDropNumer(c, number)
  BY <1>6 DEF StayingStep
<1>7. CASE \E user \in Members : AirDrop(user)
  BY <1>7 DEF StayingStep
<1> QED BY <1>1, <1>2, <1>3, <1>4, <1>5, <1>6, <1>7 DEF Next

LEMMA StayingSound ==
  ASSUME Sound(ledger), StayingStep
  PROVE  SuppliesStay(ledger, ledger')
BY SettingsSound, AirDropSound DEF StayingStep

\* Every step but root's lowering of a balance.
LEMMA MoneyStepSound ==
  ASSUME Sound(ledger), NEW who \in Accounts, NEW c \in CurrencyIds,
         NEW amount \in Amounts, MoneyStep(who, c, amount)
  PROVE  UpdateBalanceCall(who, c, -amount) \/ Grows(ledger, ledger', c)
BY CreateAssetSound, BurnSound, MoveSound, RaiseSound, PalletDepositSound,
   PalletWithdrawSound DEF MoneyStep

LEMMA SoundStays ==
  ASSUME Sound(ledger), [Next]_vars
  PROVE  Sound(ledger')
<1>1. CASE StayingStep
  BY <1>1, StayingSound DEF SuppliesStay
<1>2. ASSUME NEW who \in Accounts, NEW c \in CurrencyIds, NEW amount \in Amounts,
             MoneyStep(who, c, amount)
      PROVE  Sound(ledger')
  BY <1>2, MoneyStepSound, LowerSound DEF Grows
<1> QED BY <1>1, <1>2, StepIs

LEMMA InitSound == Init => Sound(ledger)
BY GenesisSound DEF Init

LEMMA SoundAlways == Spec => []Sound(ledger)
<1>1. Sound(ledger) /\ [Next]_vars => Sound(ledger)'
  BY SoundStays
<1> QED BY InitSound, <1>1, PTL DEF Spec

LEMMA InitTyped == Init => RegistryTyped
<1> SUFFICES ASSUME Init
             PROVE  RegistryTyped
  OBVIOUS
<1>1. ListenAssetsInfo = [c \in DOMAIN Genesis |-> Genesis[c].info]
  BY DEF Init, RegistryInit
<1>2. /\ DOMAIN Genesis \subseteq CurrencyIds
      /\ \A c \in DOMAIN Genesis :
           Genesis[c].info = [owner |-> Root, metadata |-> GenesisMetadata]
  BY DEF Genesis
<1>3. [owner |-> Root, metadata |-> GenesisMetadata] \in AssetInfo
  BY CurrenciesAssumption DEF AssetInfo
<1>4. AssetLocations = EmptyMap /\ LocationToCurrencyIds = EmptyMap /\ DOMAIN EmptyMap = {}
  BY DEF Init, RegistryInit, EmptyMap
<1>5. WeightRateMultiple \in [CurrencyIds -> Multiples \cup {DefaultMultiple}]
  BY DEF Init, RegistryInit
<1> QED BY <1>1, <1>2, <1>3, <1>4, <1>5 DEF RegistryTyped

\* What the calls store in the registry and who gives air drops.
LEMMA TypesKept ==
  ASSUME RegistryTyped, Multisig \in GenesisMultisigs, [Next]_vars
  PROVE  RegistryTyped' /\ Multisig' \in GenesisMultisigs
<1>1. CASE RegistryCall
  BY <1>1, RegistryKeepsType DEF RegistryCall
<1>2. CASE UNCHANGED <<registry, Multisig>>
  BY <1>2 DEF registry, locations, RegistryTyped
<1>3. ASSUME NEW who \in Accounts, NEW c \in CurrencyIds, NEW amount,
             NEW metadata \in Metadata \cup {None}, CreateAsset(who, c, amount, metadata)
      PROVE  RegistryTyped' /\ Multisig' \in GenesisMultisigs
  <2> DEFINE new == [owner |-> who, metadata |-> metadata]
  <2>1. new \in AssetInfo
    BY DEF AssetInfo
  <2>2. /\ ListenAssetsInfo' = Put(ListenAssetsInfo, c, new)
        /\ UNCHANGED <<AssetLocations, LocationToCurrencyIds, WeightRateMultiple, Multisig>>
    BY <1>3 DEF CreateAsset, locations
  <2> HIDE DEF new
  <2>3. /\ DOMAIN ListenAssetsInfo' = DOMAIN ListenAssetsInfo \cup {c}
        /\ ListenAssetsInfo'[c] = new
        /\ \A d \in DOMAIN ListenAssetsInfo \ {c} : ListenAssetsInfo'[d] = ListenAssetsInfo[d]
    BY <2>2 DEF Put
  <2>4. /\ DOMAIN ListenAssetsInfo' \subseteq CurrencyIds
        /\ \A d \in DOMAIN ListenAssetsInfo' : ListenAssetsInfo'[d] \in AssetInfo
    BY <2>1, <2>3 DEF RegistryTyped
  <2> QED BY <2>2, <2>4 DEF RegistryTyped
<1>4. ASSUME NEW who \in Accounts, NEW multisig \in Multisigs, SetMultisig(who, multisig)
      PROVE  RegistryTyped' /\ Multisig' \in GenesisMultisigs
  BY <1>4 DEF SetMultisig, registry, locations, RegistryTyped, GenesisMultisigs
<1>5. ASSUME NEW who \in Accounts, NEW c \in CurrencyIds, AssetCall(who, c)
      PROVE  RegistryTyped' /\ Multisig' \in GenesisMultisigs
  BY <1>2, <1>3, <1>5 DEF AssetCall, SetExistenialDeposit
<1>6. ASSUME NEW who \in Accounts, NEW c \in CurrencyIds, BalanceCall(who, c)
      PROVE  UNCHANGED <<registry, Multisig>>
  BY <1>6 DEF BalanceCall, Burn, TransferCall, TokensTransfer, UpdateBalanceCall,
              PalletDeposit, PalletWithdraw
<1>7. CASE \E c \in Dropped, number \in Numbers : SetAirDropNumer(c, number)
  BY <1>2, <1>7 DEF SetAirDropNumer
<1>8. CASE \E user \in Members : AirDrop(user)
  BY <1>2, <1>8 DEF AirDrop
<1>9. CASE UNCHANGED vars
  BY <1>2, <1>9 DEF vars
<1> QED BY <1>1, <1>2, <1>4, <1>5, <1>6, <1>7, <1>8, <1>9 DEF Next

\* The type invariant, of the ledger through every nested call and hook.
THEOREM TypesStay == Spec => []TypeOK
<1>1. Init => RegistryTyped /\ Multisig \in GenesisMultisigs
  BY InitTyped DEF Init
<1>2. RegistryTyped /\ Multisig \in GenesisMultisigs /\ [Next]_vars
        => RegistryTyped' /\ (Multisig \in GenesisMultisigs)'
  <2>1. GenesisMultisigs' = GenesisMultisigs
    BY DEF GenesisMultisigs
  <2> QED BY <2>1, TypesKept
<1>3. Sound(ledger) /\ RegistryTyped /\ Multisig \in GenesisMultisigs => TypeOK
  BY LedgersAre DEF Sound, Kept, TypeOK
<1> QED BY <1>1, <1>2, <1>3, SoundAlways, PTL DEF Spec

\* UsersNumber says who uses a currency, whatever opens, closes and nests
\* (the runtimes' account hooks).
THEOREM UsersStayCounted == Spec => []UsersCounted
<1>1. ASSUME Sound(ledger)
      PROVE  UsersCounted
  <2>1. Alive = AliveIn(ledger) /\ \A c : HoldersOf(c) = HoldersIn(ledger, c)
    BY DEF Alive, AliveIn, HoldersOf, HoldersIn
  <2>2. \A c \in CurrencyIds : TokenAccounts(ledger)[c] = Cardinality(HoldersIn(ledger, c))
    BY DEF TokenAccounts
  <2>3. Native \in CurrencyIds
    BY LedgerAssumption
  <2>4. Counted(ledger, TokenAccounts(ledger))
    BY <1>1 DEF Sound, Kept
  <2> QED BY <2>1, <2>2, <2>3, <2>4 DEF UsersCounted, Counted
<1> QED BY <1>1, SoundAlways, PTL

\* Whatever an account holds keeps it in the system, and no native balance is
\* dust (inc_providers and dec_providers of orml_tokens and pallet_balances).
THEOREM HoldersStayAlive == Spec => []HoldersAlive
<1>1. ASSUME Sound(ledger)
      PROVE  HoldersAlive
  <2>1. ledger.balances \in [Accounts -> Nat] /\ Backed(ledger)
    BY <1>1 DEF Sound, Kept, Ledgers
  <2>2. ASSUME NEW a \in Accounts
        PROVE  {c \in CurrencyIds : a \in HoldersOf(c)} = HeldBy(ledger, a)
    BY DEF HoldersOf, HeldBy
  <2>3. ASSUME NEW a \in Accounts
        PROVE  NativeBalance(ledger, a) \in {0} \cup {n \in Nat : n >= NativeED}
    BY <2>1 DEF Backed, NativeBalance
  <2> QED BY <2>1, <2>2, <2>3 DEF HoldersAlive, Backed, NativeBalance
<1> QED BY <1>1, SoundAlways, PTL

\* Only root takes the last native money of an account (update_balance); a
\* payment leaves more than the air drop.
THEOREM NobodyIsEmptied == Spec => NobodyEmptied
<1>1. ASSUME Sound(ledger), [Next]_vars, NEW a \in Accounts,
             NativeBalance(ledger, a) > 0, NativeBalance(ledger, a)' = 0
      PROVE  \E amount \in Amounts :
               UpdateBalanceCall(a, Native, -amount) /\ ~PalletWithdraw(a, Native, amount)
  <2>1. ~NobodyLeft(ledger, ledger')
    BY <1>1 DEF NobodyLeft, NativeBalance
  <2>2. ~StayingStep
    BY <1>1, <2>1, StayingSound DEF SuppliesStay
  <2>3. PICK who \in Accounts, c \in CurrencyIds, amount \in Amounts :
               MoneyStep(who, c, amount)
    BY <1>1, <2>2, StepIs
  <2>4. UpdateBalanceCall(who, c, -amount)
    BY <1>1, <2>1, <2>3, MoneyStepSound DEF Grows
  <2>5. ~(NativeBalance(ledger', a) > 0)
    BY <1>1 DEF NativeBalance
  <2>6. c = Native /\ a = who /\ ~LeavesAirDrop(ledger, who, amount)
    BY <1>1, <2>4, <2>5, LowerSound
  <2>7. ~PalletWithdraw(a, Native, amount)
    BY <2>6, CurrenciesAssumption DEF PalletWithdraw, CanWithdraw
  <2> QED BY <2>4, <2>6, <2>7
<1>2. Sound(ledger) /\ [Next]_vars =>
        [\A a \in Accounts :
           NativeBalance(ledger, a) > 0 /\ NativeBalance(ledger, a)' = 0
             => \E amount \in Amounts :
                  UpdateBalanceCall(a, Native, -amount)
                    /\ ~PalletWithdraw(a, Native, amount)]_vars
  BY <1>1
<1> QED BY <1>2, SoundAlways, PTL DEF Spec, NobodyEmptied

\* Users do not issue an asset that has metadata, and the adapter makes no
\* tokens of the native currency (the MultiCurrency of the currencies pallet).
THEOREM SupplyStaysFixed == Spec => SupplyFixed
<1>1. \A c : TokenSupply(c) = SupplyOf(ledger, c) /\ TokenSupply(c)' = SupplyOf(ledger', c)
  BY DEF TokenSupply, SupplyOf
<1>2. ASSUME NEW l, Sound(l), NEW c \in CurrencyIds
      PROVE  SupplyOf(l, c) \in Int
  <2> DEFINE f == [a \in Accounts |-> TokenBalance(l, c, a)]
  <2>1. IntegerOn(f, Accounts) /\ DOMAIN f = Accounts
    BY <1>2, TokenBalanceType DEF IntegerOn
  <2>2. SupplyOf(l, c) = SumFunctionOnSet(f, Accounts)
    BY DEF SupplyOf, SumFunction
  <2> HIDE DEF f
  <2> QED BY <2>1, <2>2, SumInt, LedgerAssumption
<1>3. ASSUME Sound(ledger), NEW c \in CurrencyIds, IsExistsMetadata(c), UserCall
      PROVE  ~(SupplyOf(ledger', c) > SupplyOf(ledger, c))
  <2>1. PICK who \in Accounts, d \in CurrencyIds, amount \in Amounts :
          \/ Burn(who, d, amount)
          \/ \E metadata \in Metadata \cup {None} : CreateAsset(who, d, amount, metadata)
          \/ \E to \in Accounts \ {who} :
               TransferCall(who, to, d, amount) \/ TokensTransfer(who, to, d, amount)
    BY <1>3 DEF UserCall
  <2>2. SupplyOf(ledger, c) \in Int
    BY <1>2, <1>3
  <2>3. CASE Burn(who, d, amount)
    <3>1. Grows(ledger, ledger', d) /\ ~(SupplyOf(ledger', d) > SupplyOf(ledger, d))
      BY <1>3, <2>3, BurnSound
    <3> QED BY <2>2, <3>1 DEF Grows
  <2>4. CASE \E metadata \in Metadata \cup {None} : CreateAsset(who, d, amount, metadata)
    <3>1. Grows(ledger, ledger', d) /\ ~IsExistsMetadata(d)
      BY <1>3, <2>4, CreateAssetSound
    <3> QED BY <1>3, <2>2, <3>1 DEF Grows
  <2>5. CASE \E to \in Accounts \ {who} :
               TransferCall(who, to, d, amount) \/ TokensTransfer(who, to, d, amount)
    <3>1. Grows(ledger, ledger', d) /\ SupplyOf(ledger', d) = SupplyOf(ledger, d)
      BY <1>3, <2>5, MoveSound
    <3> QED BY <2>2, <3>1 DEF Grows
  <2> QED BY <2>1, <2>3, <2>4, <2>5
<1>4. ASSUME Sound(ledger), [Next]_vars, IsExistsMetadata(Native)
      PROVE  ~(SupplyOf(ledger', Native) > SupplyOf(ledger, Native))
  <2>1. Native \in CurrencyIds
    BY LedgerAssumption
  <2>2. SupplyOf(ledger, Native) \in Int
    BY <1>2, <1>4, <2>1
  <2>3. CASE StayingStep
    <3>1. SupplyOf(ledger', Native) = SupplyOf(ledger, Native)
      BY <1>4, <2>1, <2>3, StayingSound DEF SuppliesStay
    <3> QED BY <2>2, <3>1
  <2>4. ASSUME NEW who \in Accounts, NEW c \in CurrencyIds, NEW amount \in Amounts,
               MoneyStep(who, c, amount)
        PROVE  ~(SupplyOf(ledger', Native) > SupplyOf(ledger, Native))
    <3>1. CASE UpdateBalanceCall(who, c, -amount)
      <4>1. SupplyOf(ledger', Native) = SupplyOf(ledger, Native)
        BY <1>4, <2>1, <3>1, LowerSound
      <4> QED BY <2>2, <4>1
    <3>2. CASE /\ ~UpdateBalanceCall(who, c, -amount)
               /\ c # Native
      <4>1. Grows(ledger, ledger', c)
        BY <1>4, <2>4, <3>2, MoneyStepSound
      <4>2. SupplyOf(ledger', Native) = SupplyOf(ledger, Native)
        BY <2>1, <3>2, <4>1 DEF Grows
      <4> QED BY <2>2, <4>2
    <3>3. CASE /\ c = Native
               /\ \/ UpdateBalanceCall(who, c, amount)
                  \/ PalletDeposit(who, c, amount) \/ PalletWithdraw(who, c, amount)
      <4>1. SupplyOf(ledger', Native) = SupplyOf(ledger, Native)
        BY <1>4, <3>3, RaiseSound, PalletDepositSound, PalletWithdrawSound
      <4> QED BY <2>2, <4>1
    <3>4. CASE \/ \E metadata \in Metadata \cup {None} : CreateAsset(who, c, amount, metadata)
               \/ Burn(who, c, amount)
               \/ \E to \in Accounts \ {who} :
                    TransferCall(who, to, c, amount) \/ TokensTransfer(who, to, c, amount)
      <4>1. UserCall
        BY <3>4 DEF UserCall
      <4> QED BY <1>3, <1>4, <2>1, <4>1
    <3> QED BY <2>4, <3>1, <3>2, <3>3, <3>4 DEF MoneyStep
  <2> QED BY <1>4, <2>3, <2>4, StepIs
<1>5. Sound(ledger) /\ [Next]_vars =>
        [\A c \in CurrencyIds :
           IsExistsMetadata(c) /\ ~UNCHANGED ledger /\ TokenSupply(c)' > TokenSupply(c)
             => c # Native /\ ~UserCall]_vars
  BY <1>1, <1>3, <1>4
<1> QED BY <1>5, SoundAlways, PTL DEF Spec, SupplyFixed
=============================================================================
