--------------------------------- MODULE Ledger ---------------------------------
(***************************************************************************)
(* The money of the chain as the currencies pallet sees it: native         *)
(* balances (pallet_balances), token accounts (orml_tokens), the provider  *)
(* counts that keep an account in the system, and UsersNumber, which the   *)
(* runtime's account hooks keep.                                           *)
(*                                                                         *)
(* A ledger is a record; each operator returns the ledger after a call.    *)
(* Calls nest the way the pallets call each other: a token account that is *)
(* opened counts a provider, the first provider creates the account, and   *)
(* the runtime's hooks run in between. Can... is when the call succeeds.   *)
(*                                                                         *)
(* Reserves, locks and consumer counts are in Holds: no code of the        *)
(* repository reserves or locks money through the currencies pallet.       *)
(***************************************************************************)
EXTENDS Integers, FiniteSets

CONSTANTS
  Accounts,
  CurrencyIds,
  Native,         \* GetNativeCurrencyId, 0 in both runtimes
  AirDropAmount,  \* whoever pays natively keeps more than this
  NativeED,       \* EXISTENTIAL_DEPOSIT: less than this is no native account
  Treasury        \* the treasury's account

ASSUME LedgerAssumption ==
  /\ IsFiniteSet(Accounts) /\ IsFiniteSet(CurrencyIds)
  /\ Native \in CurrencyIds
  /\ NativeED \in Nat \ {0} /\ AirDropAmount \in Nat
  /\ NativeED <= AirDropAmount

\* The accounts of modules, of which the collators' pot is not modelled, may have
\* less than the existential deposit.
DustRemovalWhitelist == {Treasury}

\* The two runtimes of the repository.
Runtimes == {"listen", "tisten"}

SaturatingSub(a, b) == IF a >= b THEN a - b ELSE 0

EmptyMap == [x \in {} |-> x]

\* The map f with key k set to v, and without key k.
Put(f, k, v) == [x \in DOMAIN f \cup {k} |-> IF x = k THEN v ELSE f[x]]
Without(f, k) == [x \in DOMAIN f \ {k} |-> f[x]]

TokenKeys == CurrencyIds \X Accounts

\* What is a ledger. runtime never changes.
IsLedger(l) ==
  /\ DOMAIN l = {"runtime", "balances", "tokens", "providers", "users",
                 "existential", "airdrops"}
  /\ l.runtime \in Runtimes
  /\ l.balances \in [Accounts -> Nat]        \* native balances
  /\ DOMAIN l.tokens \subseteq TokenKeys     \* the token accounts there are
  /\ \A k \in DOMAIN l.tokens : l.tokens[k] \in Nat
  /\ l.providers \in [Accounts -> Nat]
  /\ l.users \in [CurrencyIds -> Nat]        \* UsersNumber
  /\ l.existential \in [CurrencyIds -> Nat]  \* ExistentialDeposits
  /\ l.airdrops \in [CurrencyIds -> Nat]     \* AirDropNumberOfAsset

\* The ledger without an account.
NoLedger(runtime) ==
  [runtime |-> runtime,
   balances |-> [a \in Accounts |-> 0],
   tokens |-> EmptyMap,
   providers |-> [a \in Accounts |-> 0],
   users |-> [c \in CurrencyIds |-> 0],
   existential |-> [c \in CurrencyIds |-> 0],
   airdrops |-> [c \in CurrencyIds |-> 0]]

\* total_balance of the native currency; nothing is reserved.
NativeBalance(l, a) == l.balances[a]

TokenBalance(l, c, a) ==
  IF <<c, a>> \in DOMAIN l.tokens THEN l.tokens[<<c, a>>] ELSE 0

-----------------------------------------------------------------------------
(* Accounts, with the runtime's hooks.                                     *)

CountUser(l, c) == [l EXCEPT !.users[c] = @ + 1]

\* Mutant: users are only ever counted.
UncountNobody(l, c) == l

UncountUser(l, c) == [l EXCEPT !.users[c] = SaturatingSub(@, 1)]

\* NewAccount and KilledAccount of the runtime
OnNewAccount(l) == CountUser(l, Native)
OnKilledAccount(l) == UncountUser(l, Native)

\* inc_providers of frame_system
IncProviders(l, a) ==
  LET counted == [l EXCEPT !.providers[a] = @ + 1]
  IN IF l.providers[a] = 0 THEN OnNewAccount(counted) ELSE counted

\* Mutant: whatever closes takes the account with it.
DropProviders(l, a) == OnKilledAccount([l EXCEPT !.providers[a] = 0])

\* dec_providers of frame_system
DecProviders(l, a) ==
  LET counted == [l EXCEPT !.providers[a] = SaturatingSub(@, 1)]
  IN IF l.providers[a] = 1 THEN OnKilledAccount(counted) ELSE counted

\* pallet_balances stores a native balance; less than NativeED is dust, which
\* goes with the account.
SetNative(l, a, amount) ==
  LET stored == [l EXCEPT !.balances[a] = IF amount >= NativeED THEN amount ELSE 0]
  IN CASE l.balances[a] = 0 /\ amount >= NativeED -> IncProviders(stored, a)
       [] l.balances[a] > 0 /\ amount < NativeED -> DecProviders(stored, a)
       [] OTHER -> stored

\* deposit of the BasicCurrencyAdapter: what deposit_creating answers is
\* dropped, so a deposit that is too small to open an account gets lost.
NativeDeposit(l, a, amount) ==
  IF amount = 0 \/ (l.balances[a] = 0 /\ amount < NativeED) THEN l
  ELSE SetNative(l, a, l.balances[a] + amount)

\* OnNewTokenAccount of the runtime: who has no native money gets the air drop
\* while the asset has fewer users than it gives air drops. listen passes over
\* the native currency, tisten does not.
AirDropNewUser(l, c, a) ==
  IF NativeBalance(l, a) = 0 /\ l.airdrops[c] > l.users[c]
  THEN NativeDeposit(l, a, AirDropAmount)
  ELSE l

ListenOnNewTokenAccount(l, c, a) ==
  IF c = Native THEN l ELSE CountUser(AirDropNewUser(l, c, a), c)

TistenOnNewTokenAccount(l, c, a) == CountUser(AirDropNewUser(l, c, a), c)

OnNewTokenAccount(l, c, a) ==
  IF l.runtime = "listen" THEN ListenOnNewTokenAccount(l, c, a)
                          ELSE TistenOnNewTokenAccount(l, c, a)

\* OnKilledTokenAccount, the same in both
OnKilledTokenAccount(l, c) == UncountUser(l, c)

\* orml_tokens stores a balance: only an empty account of a currency with an
\* existential deposit is removed.
SetToken(l, c, a, amount) ==
  LET key == <<c, a>>
      exists == amount > 0 \/ l.existential[c] = 0
      stored == [l EXCEPT !.tokens = IF exists THEN Put(@, key, amount)
                                               ELSE Without(@, key)]
  IN CASE key \notin DOMAIN l.tokens /\ exists ->
            OnNewTokenAccount(IncProviders(stored, a), c, a)
       [] key \in DOMAIN l.tokens /\ ~exists ->
            OnKilledTokenAccount(DecProviders(stored, a), c)
       [] OTHER -> stored

-----------------------------------------------------------------------------
(* orml_tokens.                                                            *)

CanTokenDeposit(l, c, a, amount) ==
  \/ amount = 0 \/ a \in DustRemovalWhitelist
  \/ TokenBalance(l, c, a) + amount >= l.existential[c]

TokenDeposit(l, c, a, amount) ==
  IF amount = 0 THEN l ELSE SetToken(l, c, a, TokenBalance(l, c, a) + amount)

\* Mutant: anything can be withdrawn.
CanTokenOverdraw(l, c, a, amount) == TRUE

CanTokenWithdraw(l, c, a, amount) == TokenBalance(l, c, a) >= amount

TokenWithdraw(l, c, a, amount) ==
  IF amount = 0 THEN l ELSE SetToken(l, c, a, TokenBalance(l, c, a) - amount)

CanTokenTransfer(l, c, from, to, amount) ==
  \/ amount = 0 \/ from = to
  \/ CanTokenWithdraw(l, c, from, amount) /\ CanTokenDeposit(l, c, to, amount)

\* The sender's account is stored, and its hooks run, before the receiver's.
TokenTransfer(l, c, from, to, amount) ==
  IF from = to THEN l
  ELSE TokenDeposit(TokenWithdraw(l, c, from, amount), c, to, amount)

-----------------------------------------------------------------------------
(* The MultiCurrency of the currencies pallet: the native currency goes to *)
(* pallet_balances and the others to orml_tokens.                          *)

\* Mutant: any balance may be used up.
LeavesAnything(l, a, amount) == NativeBalance(l, a) >= amount

\* More than the air drop stays after a native payment.
LeavesAirDrop(l, a, amount) ==
  SaturatingSub(NativeBalance(l, a), amount) > AirDropAmount

CanDeposit(l, c, a, amount) ==
  c = Native \/ CanTokenDeposit(l, c, a, amount)

\* Mutant: the native currency is a token like the others.
DepositTokens(l, c, a, amount) == TokenDeposit(l, c, a, amount)

Deposit(l, c, a, amount) ==
  IF c = Native THEN NativeDeposit(l, a, amount)
                ELSE TokenDeposit(l, c, a, amount)

CanWithdraw(l, c, a, amount) ==
  \/ amount = 0
  \/ c = Native /\ LeavesAirDrop(l, a, amount)
  \/ c # Native /\ CanTokenWithdraw(l, c, a, amount)

\* withdraw of the BasicCurrencyAdapter: KeepAlive is not asked for.
NativeWithdraw(l, a, amount) == SetNative(l, a, NativeBalance(l, a) - amount)

Withdraw(l, c, a, amount) ==
  IF c = Native THEN NativeWithdraw(l, a, amount)
                ELSE TokenWithdraw(l, c, a, amount)

CanTransfer(l, c, from, to, amount) ==
  \/ amount = 0 \/ from = to
  \/ /\ c = Native
     /\ LeavesAirDrop(l, from, amount)
     /\ NativeBalance(l, to) + amount >= NativeED
  \/ c # Native /\ CanTokenTransfer(l, c, from, to, amount)

Transfer(l, c, from, to, amount) ==
  IF amount = 0 \/ from = to THEN l
  ELSE Deposit(Withdraw(l, c, from, amount), c, to, amount)

\* update_balance of the BasicCurrencyAdapter and of orml_tokens, by a signed
\* amount: the air drop need not stay.
CanUpdateBalance(l, c, a, by) ==
  \/ by >= 0 /\ CanDeposit(l, c, a, by)
  \/ by < 0 /\ c = Native /\ NativeBalance(l, a) >= -by
  \/ by < 0 /\ c # Native /\ CanTokenWithdraw(l, c, a, -by)

UpdateBalance(l, c, a, by) ==
  IF by >= 0 THEN Deposit(l, c, a, by) ELSE Withdraw(l, c, a, -by)
=============================================================================
