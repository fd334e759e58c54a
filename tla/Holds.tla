--------------------------------- MODULE Holds ---------------------------------
(***************************************************************************)
(* Money that is reserved or locked through the currencies pallet          *)
(* (pallets/currencies/src/lib.rs): the traits the pallet implements for   *)
(* other pallets route every call, of the native currency through the      *)
(* BasicCurrencyAdapter to pallet_balances, of the others to orml_tokens,  *)
(* and the two do not do the same. Ledger has the accounts without holds   *)
(* and with the runtime's hooks; here are the holds, without the hooks.    *)
(*                                                                         *)
(* An account of a currency has money that is free, of which a part may be *)
(* frozen, and money that is reserved. It is a provider of the system's    *)
(* account; an account with locks is a consumer, which keeps the last      *)
(* native provider from going.                                             *)
(***************************************************************************)
EXTENDS Integers, FiniteSetsExt, Functions

CONSTANTS
  Accounts,
  CurrencyIds,
  Native,          \* GetNativeCurrencyId
  minimum_balance, \* currency -> existential deposit
  AirDropAmount,   \* whoever pays natively keeps more than this
  LockIds,
  Amounts,         \* amounts of the calls
  Lockable,        \* bound: the accounts of currencies that are locked
  MaxIssuance      \* bound: currency -> the money there may be

VARIABLES
  accounts,        \* <<currency, account>> -> [free, reserved, frozen]
  locks,           \* <<currency, account>> -> [lock -> amount], 0 for none
  total_issuance,  \* currency -> what the pallets count
  providers,       \* account -> its references in the system
  consumers

vars == <<accounts, locks, total_issuance, providers, consumers>>

ASSUME HoldsAssumption ==
  /\ Native \in CurrencyIds
  /\ minimum_balance \in [CurrencyIds -> Nat \ {0}]
  /\ AirDropAmount \in Nat /\ Amounts \subseteq Nat \ {0}
  /\ minimum_balance[Native] <= AirDropAmount
  /\ IsFiniteSet(Accounts) /\ IsFiniteSet(LockIds)

Keys == CurrencyIds \X Accounts
AccountData == [free : Nat, reserved : Nat, frozen : Nat]
NoAccount == [free |-> 0, reserved |-> 0, frozen |-> 0]
NoLock == [id \in LockIds |-> 0]

TypeOK ==
  /\ accounts \in [Keys -> AccountData]
  /\ locks \in [Keys -> [LockIds -> Nat]]
  /\ total_issuance \in [CurrencyIds -> Nat]
  /\ providers \in [Accounts -> Nat] /\ consumers \in [Accounts -> Nat]

\* Before anything is deposited.
Init ==
  /\ accounts = [k \in Keys |-> NoAccount]
  /\ locks = [k \in Keys |-> NoLock]
  /\ total_issuance = [c \in CurrencyIds |-> 0]
  /\ providers = [a \in Accounts |-> 0] /\ consumers = [a \in Accounts |-> 0]

MinOf(x, y) == IF x < y THEN x ELSE y
SaturatingSub(x, y) == IF x >= y THEN x - y ELSE 0

Total(data) == data.free + data.reserved
total_balance(c, who) == Total(accounts[<<c, who>>])
free_balance(c, who) == accounts[<<c, who>>].free
reserved_balance(c, who) == accounts[<<c, who>>].reserved

-----------------------------------------------------------------------------
(* Storing accounts.                                                       *)

\* What becomes of an account that is stored: a native one below the minimum is
\* removed with its dust, one of a token when it is empty. The locks stay.
Stored(c, data) ==
  IF Total(data) < (IF c = Native THEN minimum_balance[c] ELSE 1)
  THEN NoAccount ELSE data

Opens(c, who, data) == total_balance(c, who) = 0 /\ Total(Stored(c, data)) > 0
Closes(c, who, data) == total_balance(c, who) > 0 /\ Total(Stored(c, data)) = 0

\* The last provider of an account with consumers does not go.
MayStore(c, who, data) ==
  c = Native /\ Closes(c, who, data) => providers[who] > 1 \/ consumers[who] = 0

\* The providers of who afterwards; orml_tokens drops the error of the last one
\* and closes its account.
ProvidersAfter(c, who, data) ==
  CASE Opens(c, who, data) -> providers[who] + 1
    [] Closes(c, who, data) /\ (providers[who] > 1 \/ consumers[who] = 0) ->
         SaturatingSub(providers[who], 1)
    [] OTHER -> providers[who]

\* The accounts of c in the domain of changed are stored, and issued, which may
\* be negative, is counted; dust is taken off.
StoreAll(c, changed, issued) ==
  LET dust == SumFunction([a \in DOMAIN changed |->
                Total(changed[a]) - Total(Stored(c, changed[a]))])
  IN /\ \A a \in DOMAIN changed : MayStore(c, a, changed[a])
     /\ accounts' = [k \in Keys |->
          IF k[1] = c /\ k[2] \in DOMAIN changed
          THEN Stored(c, changed[k[2]]) ELSE accounts[k]]
     /\ total_issuance' = [total_issuance EXCEPT ![c] = @ + issued - dust]
     /\ providers' = [a \in Accounts |->
          IF a \in DOMAIN changed THEN ProvidersAfter(c, a, changed[a])
                                  ELSE providers[a]]
     /\ UNCHANGED <<locks, consumers>>

Store(c, who, data, issued) == StoreAll(c, [a \in {who} |-> data], issued)

-----------------------------------------------------------------------------
(* Payments: BasicCurrency and BasicCurrencyExtended.                      *)

\* Mutant: the adapter asks for the balance only, not the pallet for the locks.
CanWithdrawAny(c, who, amount) ==
  amount + (IF c = Native THEN 0 ELSE accounts[<<c, who>>].frozen)
    <= free_balance(c, who)

\* ensure_can_withdraw: what is frozen stays.
CanWithdraw(c, who, amount) ==
  amount + accounts[<<c, who>>].frozen <= free_balance(c, who)

\* A native payment leaves more than the air drop free.
LeavesAirDrop(c, who, amount) ==
  c = Native => SaturatingSub(free_balance(c, who), amount) > AirDropAmount

\* A new account is not opened with less than the minimum: orml_tokens returns
\* an error, and what the adapter could not deposit is gone.
Deposit(c, who, amount) ==
  /\ total_issuance[c] + amount <= MaxIssuance[c]
  /\ total_balance(c, who) > 0 \/ amount >= minimum_balance[c]
  /\ Store(c, who, [accounts[<<c, who>>] EXCEPT !.free = @ + amount], amount)

Withdrawn(c, who, amount) == [accounts[<<c, who>>] EXCEPT !.free = @ - amount]

\* Mutant: the adapter keeps the imbalance of what it withdraws.
WithdrawKept(c, who, amount) ==
  /\ CanWithdraw(c, who, amount) /\ LeavesAirDrop(c, who, amount)
  /\ Store(c, who, Withdrawn(c, who, amount), IF c = Native THEN 0 ELSE -amount)

\* withdraw: the adapter drops the imbalance, and with it goes the issuance.
Withdraw(c, who, amount) ==
  /\ CanWithdraw(c, who, amount) /\ LeavesAirDrop(c, who, amount)
  /\ Store(c, who, Withdrawn(c, who, amount), -amount)

\* Both pallets ask for a provider the sender can do without.
Transfer(c, from, to, amount) ==
  LET changed == [a \in {from, to} |->
        IF a = from THEN Withdrawn(c, from, amount)
        ELSE [accounts[<<c, to>>] EXCEPT !.free = @ + amount]]
  IN /\ from # to
     /\ CanWithdraw(c, from, amount) /\ LeavesAirDrop(c, from, amount)
     /\ Total(changed[to]) >= minimum_balance[c]
     /\ Closes(c, from, changed[from]) => providers[from] > 1 \/ consumers[from] = 0
     /\ StoreAll(c, changed, 0)

\* update_balance by a negative amount: the air drop need not stay. By a
\* positive one it is Deposit.
UpdateBalance(c, who, amount) ==
  /\ CanWithdraw(c, who, amount)
  /\ Store(c, who, Withdrawn(c, who, amount), -amount)

\* data without amount, of the free money first and then of the reserved.
Slashed(data, amount) ==
  LET taken == MinOf(data.free, amount)
  IN [data EXCEPT !.free = @ - taken, !.reserved = SaturatingSub(@, amount - taken)]

\* What can be taken of amount from a native account that must stay.
Sparing(who, amount) ==
  MinOf(amount, SaturatingSub(total_balance(Native, who), minimum_balance[Native]))

\* The account becomes all, or, if it would close and cannot, spared: what
\* pallet_balances then tries.
BestEffort(c, who, all, spared) ==
  LET new == IF MayStore(c, who, all) THEN all ELSE spared
  IN Store(c, who, new, Total(new) - total_balance(c, who))

\* slash, of an account that is there
Slash(c, who, amount) ==
  LET data == accounts[<<c, who>>]
  IN /\ total_balance(c, who) > 0
     /\ BestEffort(c, who, Slashed(data, amount), Slashed(data, Sparing(who, amount)))

-----------------------------------------------------------------------------
(* Locks: BasicLockableCurrency.                                           *)

MaxOf(held) == Max({0} \cup {held[id] : id \in LockIds})

\* The locks of who become held: frozen is the largest, of an account that is
\* there, and the first lock is a consumer, if who is in the system.
UpdateLocks(c, who, held) ==
  /\ locks' = [locks EXCEPT ![<<c, who>>] = held]
  /\ accounts' = IF total_balance(c, who) = 0 THEN accounts
                 ELSE [accounts EXCEPT ![<<c, who>>].frozen = MaxOf(held)]
  /\ consumers' = [consumers EXCEPT ![who] =
       CASE locks[<<c, who>>] = NoLock /\ held # NoLock /\ providers[who] > 0 -> @ + 1
         [] locks[<<c, who>>] # NoLock /\ held = NoLock -> SaturatingSub(@, 1)
         [] OTHER -> @]
  /\ UNCHANGED <<total_issuance, providers>>

\* A lock of nothing changes nothing.
SetLock(c, who, id, amount) ==
  UpdateLocks(c, who, [locks[<<c, who>>] EXCEPT ![id] = amount])

ExtendLock(c, who, id, amount) ==
  UpdateLocks(c, who, [locks[<<c, who>>] EXCEPT ![id] = IF @ < amount THEN amount ELSE @])

RemoveLock(c, who, id) == UpdateLocks(c, who, [locks[<<c, who>>] EXCEPT ![id] = 0])

-----------------------------------------------------------------------------
(* Reserves: BasicReservableCurrency.                                      *)

\* reserve: both pallets ask whether the money could be withdrawn.
Reserve(c, who, amount) ==
  /\ CanWithdraw(c, who, amount)
  /\ Store(c, who, [accounts[<<c, who>>] EXCEPT !.free = @ - amount,
                                           !.reserved = @ + amount], 0)

\* What of amount is reserved.
ActuallyReserved(c, who, amount) == MinOf(amount, reserved_balance(c, who))

Unreserve(c, who, amount) ==
  LET actual == ActuallyReserved(c, who, amount)
  IN Store(c, who, [accounts[<<c, who>>] EXCEPT !.free = @ + actual,
                                           !.reserved = @ - actual], 0)

\* data without amount, of the reserved money only.
ReservedSlashed(data, amount) == [data EXCEPT !.reserved = SaturatingSub(@, amount)]

SlashReserved(c, who, amount) ==
  LET data == accounts[<<c, who>>]
  IN /\ total_balance(c, who) > 0
     /\ BestEffort(c, who, ReservedSlashed(data, amount),
                   ReservedSlashed(data, Sparing(who, amount)))

\* repatriate_reserved to another account, as free or as reserved money;
\* pallet_balances asks for one that is there.
RepatriateReserved(c, slashed, beneficiary, amount, status) ==
  LET actual == ActuallyReserved(c, slashed, amount)
      changed == [a \in {slashed, beneficiary} |->
        IF a = slashed
        THEN [accounts[<<c, slashed>>] EXCEPT !.reserved = @ - actual]
        ELSE [accounts[<<c, beneficiary>>] EXCEPT ![status] = @ + actual]]
  IN /\ slashed # beneficiary
     /\ c = Native => total_balance(c, beneficiary) > 0
     /\ StoreAll(c, changed, 0)

-----------------------------------------------------------------------------

\* Currency<T, GetCurrencyId>: the calls on the one currency c.
Payments(c, who, amount) ==
  \/ Deposit(c, who, amount)
  \/ Withdraw(c, who, amount)
  \/ \E to \in Accounts : Transfer(c, who, to, amount)
  \/ UpdateBalance(c, who, amount)

LockableCalls(c, who, amount) ==
  /\ <<c, who>> \in Lockable
  /\ \E id \in LockIds :
       SetLock(c, who, id, amount) \/ ExtendLock(c, who, id, amount)
         \/ RemoveLock(c, who, id)

ReservableCalls(c, who, amount) ==
  \/ Reserve(c, who, amount)
  \/ Unreserve(c, who, amount)
  \/ SlashReserved(c, who, amount)
  \/ \E beneficiary \in Accounts, status \in {"free", "reserved"} :
       RepatriateReserved(c, who, beneficiary, amount, status)

Next ==
  \E c \in CurrencyIds, who \in Accounts, amount \in Amounts :
    \/ Payments(c, who, amount)
    \/ Slash(c, who, amount)
    \/ LockableCalls(c, who, amount)
    \/ ReservableCalls(c, who, amount)

Spec == Init /\ [][Next]_vars

-----------------------------------------------------------------------------
(* Properties.                                                             *)

\* What the pallets count as issued is what the accounts hold, through dust,
\* slashes of more than there is and reserves that are handed on, although the
\* adapter drops the imbalances of all that it deposits, withdraws and slashes.
IssuanceAgrees ==
  \A c \in CurrencyIds :
    total_issuance[c] = SumFunction([a \in Accounts |-> total_balance(c, a)])

\* An account of c, of which less than the minimum is left, ends.
Ends(c, who) ==
  /\ c = Native /\ total_balance(c, who)' = 0
  /\ \/ free_balance(c, who) < minimum_balance[c]
     \/ \E amount \in Amounts : UpdateBalance(c, who, amount)

\* Locked money stays: no payment of anyone and no way to reserve, unreserve or
\* hand on brings free money under what is frozen; only a slash does, or the end
\* of an account. The adapter sets its locks for all WithdrawReasons, so that one
\* lock counts for each of these calls.
LocksHold ==
  [][\A c \in CurrencyIds, who \in Accounts :
       /\ free_balance(c, who)' < free_balance(c, who)
       /\ free_balance(c, who)' < accounts[<<c, who>>].frozen
       => Ends(c, who) \/ ~\E a \in Accounts, amount \in Amounts :
                              Payments(c, a, amount) \/ ReservableCalls(c, a, amount)]_vars
=============================================================================
