------------------------------ MODULE Currencies ------------------------------
(***************************************************************************)
(* The currencies pallet on its ledger (pallets/currencies/src/lib.rs):    *)
(* assets are created, described, moved and burned, and root changes       *)
(* balances. With it what else moves the same money: the air drop of the   *)
(* room pallet, the calls of orml_tokens, which the runtimes do not filter,*)
(* and the deposits and withdrawals of the other pallets.                  *)
(***************************************************************************)
EXTENDS Registry, FiniteSetsExt, Functions

CONSTANTS
  Amounts,        \* amounts of the calls
  Dropped,        \* bound: the currencies set_air_drop_numer is called for
  Numbers,        \* numbers of air drops it sets
  Deposits,       \* existential deposits that set_existenial_deposit sets
  Root,           \* get_root of the chain specification
  GenesisMetadata,\* what its assets are called
  Endowment,      \* ENDOWMENT
  Endowed,        \* account -> native balance at genesis
  MaxNative,      \* bound: the native money there may be
  MaxTokens,      \* bound: the tokens of a currency there may be
  ListenFoundationAccounts,
  Multisigs,      \* accounts set_multisig sets
  Members,        \* bound: the members of room's air drops
  MaxProviders    \* bound: the providers of an account air drops may reach

VARIABLES
  ledger,
  Multisig        \* who gives air drops, None before it is set

vars == <<registry, ledger, Multisig>>

ASSUME CurrenciesAssumption ==
  /\ Amounts \subseteq Nat \ {0} /\ Numbers \subseteq Nat /\ Deposits \subseteq Nat
  /\ Root \in Accounts /\ GenesisMetadata \in Metadata /\ Endowment \in Nat
  /\ Endowed \in [Accounts -> Nat]
  /\ Dropped \subseteq CurrencyIds /\ Members \subseteq Accounts
  /\ Multisigs \subseteq Accounts /\ ListenFoundationAccounts \subseteq Accounts

\* Two members or more have an account together at genesis.
GenesisMultisigs == Multisigs \cup {None}

TypeOK ==
  /\ IsLedger(ledger)
  /\ RegistryTyped
  /\ Multisig \in GenesisMultisigs

\* The assets of the chain specification (testnet_genesis), all of root's.
Genesis ==
  [c \in CurrencyIds \cap {0, 1, 2, 5, 100} |->
     [info |-> [owner |-> Root, metadata |-> GenesisMetadata],
      amount |-> IF c \in {0, 1} THEN Endowment ELSE 0]]

\* The balances pallet comes first; assets are then deposited as tokens, the
\* native currency's too.
GenesisLedger(runtime) ==
  LET endowed == FoldSet(LAMBDA a, l : NativeDeposit(l, a, Endowed[a]),
                         NoLedger(runtime), Accounts)
  IN FoldSet(LAMBDA c, l : TokenDeposit(l, c, Genesis[c].info.owner, Genesis[c].amount),
             endowed, DOMAIN Genesis)

Init ==
  /\ RegistryInit([c \in DOMAIN Genesis |-> Genesis[c].info])
  /\ \E runtime \in Runtimes : ledger = GenesisLedger(runtime)
  /\ Multisig \in GenesisMultisigs

TokenSupply(c) == SumFunction([a \in Accounts |-> TokenBalance(ledger, c, a)])
NativeSupply == SumFunction([a \in Accounts |-> NativeBalance(ledger, a)])

\* Bound: amount more of c may be issued.
WithinSupply(c, amount) ==
  IF c = Native THEN NativeSupply + amount <= MaxNative
                ELSE TokenSupply(c) + amount <= MaxTokens

-----------------------------------------------------------------------------
(* Calls on assets and balances.                                           *)

\* create_asset, by anyone, of any currency whose metadata is not set; the
\* amount is deposited as tokens even of the native currency.
CreateAsset(who, c, amount, metadata) ==
  /\ "create_asset" \in Permitted
  /\ ~IsExistsMetadata(c)
  /\ CanTokenDeposit(ledger, c, who, amount)
  /\ TokenSupply(c) + amount <= MaxTokens
  /\ ledger' = TokenDeposit(ledger, c, who, amount)
  /\ ListenAssetsInfo' =
       Put(ListenAssetsInfo, c, [owner |-> who, metadata |-> metadata])
  /\ UNCHANGED <<locations, WeightRateMultiple, Multisig>>

\* set_existenial_deposit: the accounts there are stay as they are.
SetExistenialDeposit(who, c, deposit) ==
  /\ "set_existenial_deposit" \in Permitted
  /\ IsOwner(who, c)
  /\ ledger' = [ledger EXCEPT !.existential[c] = deposit]
  /\ UNCHANGED <<registry, Multisig>>

\* set_air_drop_numer, of root or half the council
SetAirDropNumer(c, number) ==
  /\ "set_air_drop_numer" \in Permitted
  /\ ledger' = [ledger EXCEPT !.airdrops[c] = number]
  /\ UNCHANGED <<registry, Multisig>>

\* burn: of tokens, even of the native currency
Burn(who, c, amount) ==
  /\ "burn" \in Permitted
  /\ IsExistsMetadata(c)
  /\ CanTokenWithdraw(ledger, c, who, amount)
  /\ ledger' = TokenWithdraw(ledger, c, who, amount)
  /\ UNCHANGED <<registry, Multisig>>

\* transfer
TransferCall(from, to, c, amount) ==
  /\ "transfer" \in Permitted
  /\ IsExistsMetadata(c)
  /\ CanTransfer(ledger, c, from, to, amount)
  /\ ledger' = Transfer(ledger, c, from, to, amount)
  /\ UNCHANGED <<registry, Multisig>>

\* update_balance, of root
UpdateBalanceCall(who, c, by) ==
  /\ "update_balance" \in Permitted
  /\ IsExistsMetadata(c)
  /\ CanUpdateBalance(ledger, c, who, by)
  /\ WithinSupply(c, by)
  /\ ledger' = UpdateBalance(ledger, c, who, by)
  /\ UNCHANGED <<registry, Multisig>>

\* The calls on the registry, which leave the ledger alone.
RegistryCall == RegistryNext /\ UNCHANGED <<ledger, Multisig>>

-----------------------------------------------------------------------------
(* What else moves this money.                                             *)

EnsureListenFoundation(who) == who \in ListenFoundationAccounts

\* set_multisig of the room pallet; the genesis may set one as well
SetMultisig(who, multisig) ==
  /\ "set_multisig" \in Permitted
  /\ EnsureListenFoundation(who)
  /\ Multisig' = multisig
  /\ UNCHANGED <<registry, ledger>>

\* air_drop of the room pallet, for one of the members the multisig account
\* gives. Every member gets a provider, whether there was a drop or not; no
\* code takes it back.
AirDrop(user) ==
  /\ "air_drop" \in Permitted
  /\ Multisig # None
  /\ ledger.providers[user] < MaxProviders
  /\ LET dropped == IF NativeBalance(ledger, user) = 0
                    THEN NativeDeposit(ledger, user, AirDropAmount)
                    ELSE ledger
     IN ledger' = IncProviders(dropped, user)
  /\ UNCHANGED <<registry, Multisig>>

\* transfer of orml_tokens, which asks for no metadata and moves tokens of the
\* native currency too
TokensTransfer(from, to, c, amount) ==
  /\ "tokens_transfer" \in Permitted
  /\ CanTokenTransfer(ledger, c, from, to, amount)
  /\ ledger' = TokenTransfer(ledger, c, from, to, amount)
  /\ UNCHANGED <<registry, Multisig>>

\* deposit and withdraw of the MultiCurrency, as the room pallet, the nft pallet
\* and the XCM executor call them
PalletDeposit(who, c, amount) ==
  /\ "pallets" \in Permitted
  /\ CanDeposit(ledger, c, who, amount)
  /\ WithinSupply(c, amount)
  /\ ledger' = Deposit(ledger, c, who, amount)
  /\ UNCHANGED <<registry, Multisig>>

PalletWithdraw(who, c, amount) ==
  /\ "pallets" \in Permitted
  /\ CanWithdraw(ledger, c, who, amount)
  /\ ledger' = Withdraw(ledger, c, who, amount)
  /\ UNCHANGED <<registry, Multisig>>

AssetCall(who, c) ==
  \/ \E amount \in Amounts, metadata \in Metadata \cup {None} :
       CreateAsset(who, c, amount, metadata)
  \/ \E deposit \in Deposits : SetExistenialDeposit(who, c, deposit)

BalanceCall(who, c) ==
  \E amount \in Amounts :
    \/ Burn(who, c, amount)
    \/ \E to \in Accounts \ {who} :
         TransferCall(who, to, c, amount) \/ TokensTransfer(who, to, c, amount)
    \/ UpdateBalanceCall(who, c, amount) \/ UpdateBalanceCall(who, c, -amount)
    \/ PalletDeposit(who, c, amount) \/ PalletWithdraw(who, c, amount)

Next ==
  \/ \E who \in Accounts, c \in CurrencyIds : AssetCall(who, c) \/ BalanceCall(who, c)
  \/ \E c \in Dropped, number \in Numbers : SetAirDropNumer(c, number)
  \/ \E who \in Accounts, multisig \in Multisigs : SetMultisig(who, multisig)
  \/ \E user \in Members : AirDrop(user)
  \/ RegistryCall

Spec == Init /\ [][Next]_vars

-----------------------------------------------------------------------------
(* Properties.                                                             *)

\* The accounts of the system, and those with tokens of c.
Alive == {a \in Accounts : ledger.providers[a] > 0}
HoldersOf(c) == {a \in Accounts : <<c, a>> \in DOMAIN ledger.tokens}

\* UsersNumber says who uses a currency, through opened and closed accounts,
\* nested air drops and changes of the existential deposit: of a token the
\* number of its accounts; of the native currency no more than the accounts
\* there are in listen, and those and the accounts of its tokens in tisten,
\* whose hook does not pass over the native currency. Air drops rest on it.
UsersCounted ==
  /\ \A c \in CurrencyIds \ {Native} :
       ledger.users[c] = Cardinality(HoldersOf(c))
  /\ ledger.runtime = "listen" => ledger.users[Native] <= Cardinality(Alive)
  /\ ledger.runtime = "tisten" =>
       ledger.users[Native] = Cardinality(Alive) + Cardinality(HoldersOf(Native))

\* Whatever an account holds keeps it in the system: each of its token accounts
\* and its native balance has a provider of its own, so that closing one never
\* takes the others with it; and a native balance is never dust.
HoldersAlive ==
  \A a \in Accounts :
    /\ ledger.providers[a] >=
         Cardinality({c \in CurrencyIds : a \in HoldersOf(c)})
           + (IF NativeBalance(ledger, a) > 0 THEN 1 ELSE 0)
    /\ NativeBalance(ledger, a) \in {0} \cup {n \in Nat : n >= NativeED}

\* Once an asset has metadata its owner and its decimals stay, whoever creates
\* an asset of the same currency or describes it anew.
AssetInfoStable ==
  [][\A c \in CurrencyIds :
       IsExistsMetadata(c) =>
         /\ IsExistsMetadata(c)'
         /\ ListenAssetsInfo'[c].owner = ListenAssetsInfo[c].owner
         /\ ListenAssetsInfo'[c].metadata.decimals
              = ListenAssetsInfo[c].metadata.decimals]_vars

\* A call that anyone may make moves or burns money.
UserCall ==
  \E who \in Accounts, c \in CurrencyIds, amount \in Amounts :
    \/ Burn(who, c, amount)
    \/ \E metadata \in Metadata \cup {None} : CreateAsset(who, c, amount, metadata)
    \/ \E to \in Accounts \ {who} :
         TransferCall(who, to, c, amount) \/ TokensTransfer(who, to, c, amount)

\* Users do not issue an asset that has metadata, and of the native currency
\* the adapter never makes or moves tokens: those there are can be burned and
\* handed on, never issued again.
SupplyFixed ==
  [][\A c \in CurrencyIds :
       IsExistsMetadata(c) /\ ~UNCHANGED ledger /\ TokenSupply(c)' > TokenSupply(c)
         => c # Native /\ ~UserCall]_vars

\* The air drop stays with an account that pays: only root takes the last
\* native money of an account, so nobody is given an air drop twice by moving
\* the money on.
NobodyEmptied ==
  [][\A a \in Accounts :
       NativeBalance(ledger, a) > 0 /\ NativeBalance(ledger, a)' = 0
         => \E amount \in Amounts :
              UpdateBalanceCall(a, Native, -amount) /\ ~PalletWithdraw(a, Native, amount)]_vars
=============================================================================
