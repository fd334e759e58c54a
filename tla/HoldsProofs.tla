------------------------------ MODULE HoldsProofs ------------------------------
(***************************************************************************)
(* What is issued is what the accounts hold, and locked money stays, for   *)
(* any currencies, accounts and locks: every call that stores accounts     *)
(* stores them with as much more as it counts as issued, and, unless it is *)
(* a slash, with what is frozen, or more than was free before.             *)
(***************************************************************************)
EXTENDS Holds, SumTheorems

\* What is frozen is one of the locks, or nothing.
LEMMA MaxOfType ==
  ASSUME NEW held \in [LockIds -> Nat]
  PROVE  MaxOf(held) \in Nat
<1> DEFINE image == {held[id] : id \in LockIds}
<1>1. held \in Surjection(LockIds, image)
  BY DEF Surjection
<1>2. IsFiniteSet(image)
  BY <1>1, HoldsAssumption, FS_Surjection
<1>3. image \in SUBSET Nat
  OBVIOUS
<1> HIDE DEF image
<1> DEFINE S == {0} \cup image
<1>4. S \in SUBSET Nat /\ IsFiniteSet(S) /\ S # {}
  <2>1. IsFiniteSet(image \cup {0})
    BY <1>2, FS_AddElement
  <2>2. S = image \cup {0}
    OBVIOUS
  <2> QED BY <1>3, <2>1, <2>2
<1>5. MaxOf(held) = Max(S)
  BY DEF MaxOf, image
<1> HIDE DEF S
<1>6. Max(S) \in S
  <2>1. S \in SUBSET Int
    BY <1>4
  <2>2. PICK m \in S : \A n \in S : n <= m
    BY <1>4, <2>1, LargestExists
  <2>3. \A n \in S : m >= n
    BY <1>4, <2>2
  <2> QED BY <2>2, <2>3 DEF Max
<1> QED BY <1>4, <1>5, <1>6

-----------------------------------------------------------------------------
\* Accounts, locks and counts are what they should be.
Typed ==
  /\ accounts \in [Keys -> AccountData]
  /\ locks \in [Keys -> [LockIds -> Nat]]
  /\ total_issuance \in [CurrencyIds -> Int]
  /\ providers \in [Accounts -> Nat] /\ consumers \in [Accounts -> Nat]

\* The record of an account that a call stores has the type of an account, and
\* keeps what is free or what is frozen; the one of a native account that ends
\* had less than the minimum free, or the money is taken by UpdateBalance.
Keeping(c, who, data) ==
  /\ data \in AccountData
  /\ data.free >= free_balance(c, who) \/ data.free >= accounts[<<c, who>>].frozen

KeptWhenEnding(c, who, data) ==
  c = Native /\ Total(data) < minimum_balance[c] =>
    free_balance(c, who) < minimum_balance[c]

-----------------------------------------------------------------------------
(* Storing accounts.                                                       *)

\* What the accounts that are stored gain, and what of it is dust.
Gains(c, changed) ==
  [a \in DOMAIN changed |-> Total(changed[a]) - total_balance(c, a)]

Dust(c, changed) ==
  [a \in DOMAIN changed |-> Total(changed[a]) - Total(Stored(c, changed[a]))]

\* Accounts are stored, and what they gain is issued.
StoresWell(c, changed, issued) ==
  /\ StoreAll(c, changed, issued)
  /\ DOMAIN changed \subseteq Accounts
  /\ \A a \in DOMAIN changed : changed[a] \in AccountData
  /\ issued = SumFunctionOnSet(Gains(c, changed), DOMAIN changed)

LEMMA StoredFacts ==
  ASSUME NEW c \in CurrencyIds, NEW data \in AccountData
  PROVE  /\ Stored(c, data) \in AccountData
         /\ Total(data) \in Nat /\ Total(Stored(c, data)) \in Nat
         /\ Total(Stored(c, data)) <= Total(data)
         /\ Stored(c, data) = NoAccount \/ Stored(c, data) = data
<1>1. NoAccount \in AccountData /\ Total(NoAccount) = 0
  BY DEF NoAccount, AccountData, Total
<1>2. Total(data) \in Nat
  BY DEF AccountData, Total
<1>3. Stored(c, data) = NoAccount \/ Stored(c, data) = data
  BY DEF Stored
<1> QED BY <1>1, <1>2, <1>3

LEMMA TotalFacts ==
  ASSUME Typed, NEW c \in CurrencyIds, NEW a \in Accounts
  PROVE  /\ accounts[<<c, a>>] \in AccountData
         /\ total_balance(c, a) \in Nat
         /\ total_balance(c, a) = accounts[<<c, a>>].free + accounts[<<c, a>>].reserved
BY DEF Typed, Keys, AccountData, total_balance, Total

\* The sums are sums of integers.
LEMMA StoreSums ==
  ASSUME Typed, NEW c \in CurrencyIds, NEW changed, NEW issued,
         StoresWell(c, changed, issued)
  PROVE  /\ IsFiniteSet(Accounts) /\ IsFiniteSet(DOMAIN changed)
         /\ IntegerOn(Gains(c, changed), DOMAIN changed)
         /\ NaturalOn(Dust(c, changed), DOMAIN changed)
         /\ issued \in Int
         /\ SumFunctionOnSet(Dust(c, changed), DOMAIN changed) \in Nat
<1>1. IsFiniteSet(Accounts) /\ IsFiniteSet(DOMAIN changed)
  BY HoldsAssumption, FS_Subset DEF StoresWell
<1>2. \A a \in DOMAIN changed :
        /\ Total(changed[a]) \in Nat /\ Total(Stored(c, changed[a])) \in Nat
        /\ Total(Stored(c, changed[a])) <= Total(changed[a])
        /\ total_balance(c, a) \in Nat
  BY StoredFacts, TotalFacts DEF StoresWell
<1>3. IntegerOn(Gains(c, changed), DOMAIN changed)
  BY <1>2 DEF Gains, IntegerOn
<1>4. NaturalOn(Dust(c, changed), DOMAIN changed)
  BY <1>2 DEF Dust, NaturalOn
<1>5. issued \in Int
  BY <1>1, <1>3, SumInt DEF StoresWell
<1>6. SumFunctionOnSet(Dust(c, changed), DOMAIN changed) \in Nat
  BY <1>1, <1>4, SumNat
<1> QED BY <1>1, <1>3, <1>4, <1>5, <1>6

LEMMA StoreCounts ==
  ASSUME NEW c, NEW changed, NEW issued, StoreAll(c, changed, issued)
  PROVE  total_issuance' = [total_issuance EXCEPT ![c] =
           @ + issued - SumFunctionOnSet(Dust(c, changed), DOMAIN changed)]
<1>1. DOMAIN Dust(c, changed) = DOMAIN changed
  BY DEF Dust
<1>2. SumFunction(Dust(c, changed)) =
        SumFunctionOnSet(Dust(c, changed), DOMAIN changed)
  BY <1>1 DEF SumFunction
<1> QED BY <1>2 DEF StoreAll, Dust

\* Storing such records keeps the types.
LEMMA StoreTyped ==
  ASSUME Typed, NEW c \in CurrencyIds, NEW changed, NEW issued,
         StoresWell(c, changed, issued)
  PROVE  Typed'
<1>1. \A a \in DOMAIN changed : Stored(c, changed[a]) \in AccountData
  BY StoredFacts DEF StoresWell
<1>2. accounts' \in [Keys -> AccountData]
  BY <1>1 DEF StoresWell, StoreAll, Typed, Keys
<1> DEFINE dust == SumFunctionOnSet(Dust(c, changed), DOMAIN changed)
<1>3. issued \in Int /\ dust \in Int
  BY StoreSums
<1>4. total_issuance' = [total_issuance EXCEPT ![c] = @ + issued - dust]
  BY StoreCounts DEF StoresWell
<1> HIDE DEF dust
<1>5. total_issuance' \in [CurrencyIds -> Int]
  BY <1>3, <1>4 DEF Typed
<1>6. providers' \in [Accounts -> Nat]
  <2>1. \A a \in DOMAIN changed : ProvidersAfter(c, a, changed[a]) \in Nat
    BY DEF StoresWell, Typed, ProvidersAfter, SaturatingSub
  <2> QED BY <2>1 DEF StoresWell, StoreAll, Typed
<1> QED BY <1>2, <1>5, <1>6 DEF StoresWell, StoreAll, Typed

\* What the pallets count stays what the accounts hold: the accounts that are
\* stored gain what is issued, less the dust.
Held(c) == [a \in Accounts |-> total_balance(c, a)]

LEMMA StoreAgrees ==
  ASSUME Typed, IssuanceAgrees, NEW c \in CurrencyIds, NEW changed, NEW issued,
         StoresWell(c, changed, issued)
  PROVE  IssuanceAgrees'
<1> DEFINE D == DOMAIN changed
           old == Held(c)
           new == [a \in Accounts |-> total_balance(c, a)']
           gains == Gains(c, changed)
           dust == Dust(c, changed)
           both == [a \in D |-> Total(changed[a])]
           sum(f, S) == SumFunctionOnSet(f, S)
<1>1. /\ D \subseteq Accounts /\ IsFiniteSet(D) /\ IsFiniteSet(Accounts)
      /\ IsFiniteSet(Accounts \ D)
      /\ IntegerOn(gains, D) /\ IntegerOn(dust, D)
      /\ issued \in Int /\ issued = sum(gains, D) /\ sum(dust, D) \in Int
  BY StoreSums, NaturalIsInteger, FS_Subset DEF StoresWell
<1>2. \A k \in Keys : accounts'[k] = IF k[1] = c /\ k[2] \in D
                                     THEN Stored(c, changed[k[2]]) ELSE accounts[k]
  BY DEF StoresWell, StoreAll
<1>3. /\ \A a \in Accounts \ D : new[a] = old[a]
      /\ \A a \in D : /\ both[a] = old[a] + gains[a]
                      /\ both[a] = new[a] + dust[a]
                      /\ old[a] \in Int /\ new[a] \in Int
      /\ \A a \in Accounts : old[a] \in Int
  <2>1. ASSUME NEW a \in Accounts \ D
        PROVE  new[a] = old[a]
    BY <1>2, <2>1 DEF Keys, Held, total_balance
  <2>2. ASSUME NEW a \in D
        PROVE  /\ both[a] = old[a] + gains[a] /\ both[a] = new[a] + dust[a]
               /\ old[a] \in Int /\ new[a] \in Int
    <3>1. a \in Accounts /\ changed[a] \in AccountData
      BY <1>1 DEF StoresWell
    <3>2. accounts'[<<c, a>>] = Stored(c, changed[a])
      BY <1>2, <3>1 DEF Keys
    <3>3. new[a] = Total(Stored(c, changed[a]))
      BY <3>1, <3>2 DEF total_balance
    <3>4. /\ Total(changed[a]) \in Nat /\ Total(Stored(c, changed[a])) \in Nat
          /\ total_balance(c, a) \in Nat
      BY <3>1, StoredFacts, TotalFacts
    <3>5. /\ gains[a] = Total(changed[a]) - total_balance(c, a)
          /\ dust[a] = Total(changed[a]) - Total(Stored(c, changed[a]))
          /\ old[a] = total_balance(c, a)
      BY <3>1 DEF Gains, Dust, Held
    <3> QED BY <3>3, <3>4, <3>5
  <2>3. ASSUME NEW a \in Accounts
        PROVE  old[a] \in Int
    <3>1. total_balance(c, a) \in Nat
      BY TotalFacts
    <3> QED BY <3>1 DEF Held
  <2> QED BY <2>1, <2>2, <2>3
<1> HIDE DEF D, old, new, gains, dust, both
<1>4. /\ IntegerOn(old, Accounts) /\ IntegerOn(old, D) /\ IntegerOn(new, D)
      /\ IntegerOn(old, Accounts \ D) /\ IntegerOn(new, Accounts)
  BY <1>1, <1>3 DEF IntegerOn
<1>5. sum(both, D) = sum(old, D) + sum(gains, D)
  BY <1>1, <1>3, <1>4, SumPlus
<1>6. sum(both, D) = sum(new, D) + sum(dust, D)
  BY <1>1, <1>3, <1>4, SumPlus
<1>7. sum(new, Accounts \ D) = sum(old, Accounts \ D)
  BY <1>1, <1>3, <1>4, SumAgree
<1>8. /\ sum(old, Accounts) = sum(old, D) + sum(old, Accounts \ D)
      /\ sum(new, Accounts) = sum(new, D) + sum(new, Accounts \ D)
  BY <1>1, <1>4, SumSplit
<1>9. /\ sum(old, D) \in Int /\ sum(new, D) \in Int
      /\ sum(old, Accounts \ D) \in Int
  BY <1>1, <1>4, SumInt
<1> HIDE DEF sum
<1>10. sum(new, Accounts) = sum(old, Accounts) + issued - sum(dust, D)
  BY <1>1, <1>5, <1>6, <1>7, <1>8, <1>9
<1>11. total_issuance[c] = sum(old, Accounts)
  BY DEF IssuanceAgrees, old, Held, sum, SumFunction
<1>12. total_issuance' = [total_issuance EXCEPT ![c] = @ + issued - sum(dust, D)]
  BY StoreCounts DEF StoresWell, sum, dust, D
<1>13. total_issuance'[c] = sum(new, Accounts)
  BY <1>10, <1>11, <1>12 DEF Typed
<1>14. ASSUME NEW d \in CurrencyIds
       PROVE  total_issuance'[d] = SumFunction([a \in Accounts |-> total_balance(d, a)])'
  <2>1. CASE d = c
    BY <1>13, <2>1 DEF sum, new, SumFunction
  <2>2. CASE d # c
    <3>1. total_issuance'[d] = total_issuance[d]
      BY <1>12, <2>2 DEF Typed
    <3>2. \A a \in Accounts : total_balance(d, a)' = total_balance(d, a)
      BY <1>2, <2>2 DEF Keys, total_balance
    <3>3. [a \in Accounts |-> total_balance(d, a)'] = [a \in Accounts |-> total_balance(d, a)]
      BY <3>2
    <3> QED BY <3>1, <3>3 DEF IssuanceAgrees
  <2> QED BY <2>1, <2>2
<1> QED BY <1>14 DEF IssuanceAgrees

\* One account is stored.
LEMMA StoreOne ==
  ASSUME Typed, NEW c \in CurrencyIds, NEW who \in Accounts, NEW data \in AccountData,
         NEW issued, Store(c, who, data, issued),
         issued = Total(data) - total_balance(c, who)
  PROVE  StoresWell(c, [a \in {who} |-> data], issued)
<1> DEFINE changed == [a \in {who} |-> data]
<1>1. StoreAll(c, changed, issued)
  BY DEF Store
<1>2. DOMAIN changed = {who} /\ changed[who] = data
  OBVIOUS
<1> HIDE DEF changed
<1>3. Gains(c, changed)[who] = issued
  BY <1>2 DEF Gains
<1>4. issued \in Int
  BY StoredFacts, TotalFacts
<1>5. SumFunctionOnSet(Gains(c, changed), {who}) = issued
  BY <1>3, <1>4, SumSingleton
<1>6. StoresWell(c, changed, issued)
  BY <1>1, <1>2, <1>5 DEF StoresWell
<1> QED BY <1>6 DEF changed

\* Money goes from one account to another.
LEMMA StoreTwo ==
  ASSUME Typed, NEW c \in CurrencyIds, NEW from \in Accounts, NEW to \in Accounts,
         from # to, NEW less \in AccountData, NEW more \in AccountData,
         StoreAll(c, [a \in {from, to} |-> IF a = from THEN less ELSE more], 0),
         Total(less) + Total(more) = total_balance(c, from) + total_balance(c, to)
  PROVE  StoresWell(c, [a \in {from, to} |-> IF a = from THEN less ELSE more], 0)
<1> DEFINE changed == [a \in {from, to} |-> IF a = from THEN less ELSE more]
<1>1. DOMAIN changed = {from, to} /\ changed[from] = less /\ changed[to] = more
  OBVIOUS
<1>2. StoreAll(c, changed, 0)
  OBVIOUS
<1> HIDE DEF changed
<1> DEFINE gains == Gains(c, changed)
<1>3. /\ gains[from] = Total(less) - total_balance(c, from)
      /\ gains[to] = Total(more) - total_balance(c, to)
  BY <1>1 DEF Gains
<1>4. /\ Total(less) \in Nat /\ Total(more) \in Nat
      /\ total_balance(c, from) \in Nat /\ total_balance(c, to) \in Nat
  BY StoredFacts, TotalFacts
<1> HIDE DEF gains
<1>5. gains[from] \in Int /\ gains[to] \in Int /\ gains[from] + gains[to] = 0
  BY <1>3, <1>4
<1>6. SumFunctionOnSet(gains, {from, to}) = gains[from] + gains[to]
  BY <1>5, SumPair
<1>7. StoresWell(c, changed, 0)
  BY <1>1, <1>2, <1>5, <1>6 DEF StoresWell, gains
<1> QED BY <1>7 DEF changed

-----------------------------------------------------------------------------
(* Locked money.                                                           *)

\* And leaves every account what LocksHold says.
LEMMA StoreKeeps ==
  ASSUME Typed, NEW c \in CurrencyIds, NEW changed, NEW issued, NEW who \in Accounts,
         who \in DOMAIN changed => Keeping(c, who, changed[who]),
         StoreAll(c, changed, issued),
         free_balance(c, who)' < free_balance(c, who),
         free_balance(c, who)' < accounts[<<c, who>>].frozen
  PROVE  /\ who \in DOMAIN changed /\ c = Native /\ total_balance(c, who)' = 0
         /\ Total(changed[who]) < minimum_balance[c]
<1>1. <<c, who>> \in Keys /\ accounts[<<c, who>>] \in AccountData
  BY DEF Keys, Typed
<1>2. accounts'[<<c, who>>] = IF who \in DOMAIN changed THEN Stored(c, changed[who])
                                                   ELSE accounts[<<c, who>>]
  BY <1>1 DEF StoreAll
<1>3. who \in DOMAIN changed
  BY <1>1, <1>2 DEF free_balance, AccountData
<1>4. accounts'[<<c, who>>] = Stored(c, changed[who]) /\ changed[who] \in AccountData
  BY <1>2, <1>3 DEF Keeping
<1>5. Stored(c, changed[who]) = NoAccount
      /\ Total(changed[who]) < (IF c = Native THEN minimum_balance[c] ELSE 1)
  <2>1. Stored(c, changed[who]) # changed[who]
    <3>1. SUFFICES ASSUME Stored(c, changed[who]) = changed[who]
                   PROVE  FALSE
      OBVIOUS
    <3>2. free_balance(c, who)' = changed[who].free
      BY <1>4, <3>1 DEF free_balance
    <3> QED BY <1>1, <1>3, <3>2 DEF Keeping, free_balance, AccountData
  <2> QED BY <2>1 DEF Stored
<1>6. total_balance(c, who)' = 0
  BY <1>4, <1>5 DEF total_balance, Total, NoAccount
<1>7. c = Native
  <2>1. SUFFICES ASSUME c # Native
                 PROVE  FALSE
    OBVIOUS
  <2>2. changed[who].free = 0
    BY <1>4, <1>5, <2>1 DEF Total, AccountData
  <2>3. free_balance(c, who)' = 0
    BY <1>4, <1>5 DEF free_balance, NoAccount
  <2> QED BY <1>1, <1>3, <2>2, <2>3 DEF Keeping, free_balance, AccountData
<1> QED BY <1>3, <1>5, <1>6, <1>7

\* A call on an account stores it as LocksHold asks.
Right(c, who, data) == Keeping(c, who, data) /\ KeptWhenEnding(c, who, data)

\* One account is stored: what is said of its record is said of all that change.
LEMMA StoreRight ==
  ASSUME Typed, NEW c \in CurrencyIds, NEW who \in Accounts, NEW data, NEW issued,
         Store(c, who, data, issued), Right(c, who, data),
         issued = Total(data) - total_balance(c, who)
  PROVE  \E changed, n : /\ StoresWell(c, changed, n)
                         /\ \A a \in Accounts : a \in DOMAIN changed =>
                                                Right(c, a, changed[a])
<1>1. StoresWell(c, [a \in {who} |-> data], issued)
  BY StoreOne DEF Right, Keeping
<1>2. \A a \in Accounts : a \in DOMAIN [x \in {who} |-> data] =>
                         Right(c, a, [x \in {who} |-> data][a])
  OBVIOUS
<1> QED BY <1>1, <1>2

\* What is reserved and what is asked for.
LEMMA ActuallyReservedType ==
  ASSUME Typed, NEW c \in CurrencyIds, NEW who \in Accounts, NEW amount \in Nat
  PROVE  /\ ActuallyReserved(c, who, amount) \in Nat
         /\ ActuallyReserved(c, who, amount) <= reserved_balance(c, who)
<1>1. accounts[<<c, who>>] \in AccountData
  BY DEF Keys, Typed
<1> QED BY <1>1 DEF ActuallyReserved, MinOf, reserved_balance, AccountData

\* Every payment but UpdateBalance, which may leave less than the air drop, and
\* every call on reserves stores right records.
LEMMA CallStores ==
  ASSUME Typed, NEW c \in CurrencyIds, NEW who \in Accounts, NEW amount \in Amounts,
         Payments(c, who, amount) \/ ReservableCalls(c, who, amount),
         ~UpdateBalance(c, who, amount)
  PROVE  \E changed, issued : /\ StoresWell(c, changed, issued)
                              /\ \A a \in Accounts : a \in DOMAIN changed =>
                                                     Right(c, a, changed[a])
<1>1. /\ amount \in Nat /\ minimum_balance[c] \in Nat \ {0} /\ AirDropAmount \in Nat
      /\ minimum_balance[Native] <= AirDropAmount
  BY HoldsAssumption
<1>2. \A a \in Accounts : accounts[<<c, a>>] \in AccountData
  BY DEF Keys, Typed
<1>3. CASE Deposit(c, who, amount)
  <2> DEFINE data == [accounts[<<c, who>>] EXCEPT !.free = @ + amount]
  <2>1. Right(c, who, data)
    BY <1>1, <1>2 DEF Right, Keeping, KeptWhenEnding, AccountData, free_balance, Total
  <2>2. amount = Total(data) - total_balance(c, who)
    BY <1>1, <1>2 DEF AccountData, total_balance, Total
  <2> QED BY <1>3, <2>1, <2>2, StoreRight DEF Deposit
<1>4. CASE Withdraw(c, who, amount)
  <2>1. Right(c, who, Withdrawn(c, who, amount))
    BY <1>1, <1>2, <1>4
    DEF Withdraw, CanWithdraw, LeavesAirDrop, SaturatingSub, Withdrawn, Right, Keeping,
        KeptWhenEnding, AccountData, free_balance, Total
  <2>2. -amount = Total(Withdrawn(c, who, amount)) - total_balance(c, who)
    BY <1>1, <1>2 DEF Withdrawn, AccountData, total_balance, Total
  <2> QED BY <1>4, <2>1, <2>2, StoreRight DEF Withdraw
<1>5. ASSUME NEW to \in Accounts, Transfer(c, who, to, amount)
      PROVE  \E changed, issued : /\ StoresWell(c, changed, issued)
                                  /\ \A a \in Accounts : a \in DOMAIN changed =>
                                                         Right(c, a, changed[a])
  <2> DEFINE changed == [a \in {who, to} |->
                IF a = who THEN Withdrawn(c, who, amount)
                ELSE [accounts[<<c, to>>] EXCEPT !.free = @ + amount]]
  <2>1. StoreAll(c, changed, 0) /\ who # to /\ CanWithdraw(c, who, amount)
        /\ LeavesAirDrop(c, who, amount) /\ Total(changed[to]) >= minimum_balance[c]
    BY <1>5 DEF Transfer
  <2>2. Right(c, who, Withdrawn(c, who, amount))
    BY <1>1, <1>2, <2>1
    DEF CanWithdraw, LeavesAirDrop, SaturatingSub, Withdrawn, Right, Keeping,
        KeptWhenEnding, AccountData, free_balance, Total
  <2>3. Right(c, to, [accounts[<<c, to>>] EXCEPT !.free = @ + amount])
    BY <1>1, <1>2 DEF Right, Keeping, KeptWhenEnding, AccountData, free_balance, Total
  <2>4. \A a \in Accounts : a \in DOMAIN changed => Right(c, a, changed[a])
    BY <2>1, <2>2, <2>3
  <2> DEFINE less == Withdrawn(c, who, amount)
             more == [accounts[<<c, to>>] EXCEPT !.free = @ + amount]
  <2>5. Total(less) + Total(more) = total_balance(c, who) + total_balance(c, to)
    BY <1>1, <1>2 DEF Withdrawn, AccountData, total_balance, Total
  <2>6. less \in AccountData /\ more \in AccountData
    BY <2>2, <2>3 DEF Right, Keeping
  <2>7. StoreAll(c, [a \in {who, to} |-> IF a = who THEN less ELSE more], 0)
    BY <2>1
  <2> HIDE DEF less, more
  <2>8. StoresWell(c, [a \in {who, to} |-> IF a = who THEN less ELSE more], 0)
    BY <2>1, <2>5, <2>6, <2>7, StoreTwo
  <2> QED BY <2>4, <2>8 DEF less, more
<1>6. CASE Reserve(c, who, amount)
  <2> DEFINE data == [accounts[<<c, who>>] EXCEPT !.free = @ - amount,
                                                  !.reserved = @ + amount]
  <2>1. amount + accounts[<<c, who>>].frozen <= accounts[<<c, who>>].free
    BY <1>6 DEF Reserve, CanWithdraw, free_balance
  <2>2. /\ data \in AccountData
        /\ data.free = accounts[<<c, who>>].free - amount
        /\ data.reserved = accounts[<<c, who>>].reserved + amount
    <3> DEFINE d == accounts[<<c, who>>]
               x == d.free - amount
               y == d.reserved + amount
    <3>1. d \in AccountData /\ x \in Nat /\ y \in Nat
      BY <1>1, <1>2, <2>1 DEF AccountData
    <3>2. data = [d EXCEPT !.free = x, !.reserved = y]
      OBVIOUS
    <3>3. /\ data \in AccountData /\ data.free = x /\ data.reserved = y
      <4> HIDE DEF data, d, x, y
      <4>1. data = [free |-> x, reserved |-> y, frozen |-> d.frozen]
        BY <3>1, <3>2 DEF AccountData
      <4> QED BY <3>1, <4>1 DEF AccountData
    <3> QED BY <3>3
  <2>3. Store(c, who, data, 0)
    BY <1>6 DEF Reserve
  <2> HIDE DEF data
  <2>4. Right(c, who, data)
    BY <1>1, <1>2, <2>1, <2>2
    DEF Right, Keeping, KeptWhenEnding, AccountData, free_balance, Total
  <2>5. 0 = Total(data) - total_balance(c, who)
    BY <1>1, <1>2, <2>2 DEF AccountData, total_balance, Total
  <2> QED BY <2>3, <2>4, <2>5, StoreRight
<1>7. CASE Unreserve(c, who, amount)
  <2> DEFINE actual == ActuallyReserved(c, who, amount)
             data == [accounts[<<c, who>>] EXCEPT !.free = @ + actual,
                                                  !.reserved = @ - actual]
  <2>1. actual \in Nat /\ actual <= accounts[<<c, who>>].reserved
    BY <1>1, ActuallyReservedType DEF reserved_balance
  <2>2. Store(c, who, data, 0)
    BY <1>7 DEF Unreserve
  <2>3. /\ data \in AccountData
        /\ data.free = accounts[<<c, who>>].free + actual
        /\ data.reserved = accounts[<<c, who>>].reserved - actual
    <3> HIDE DEF actual
    <3> DEFINE d == accounts[<<c, who>>]
               x == d.free + actual
               y == d.reserved - actual
    <3>1. d \in AccountData /\ x \in Nat /\ y \in Nat
      BY <1>2, <2>1 DEF AccountData
    <3>2. data = [d EXCEPT !.free = x, !.reserved = y]
      OBVIOUS
    <3>3. /\ data \in AccountData /\ data.free = x /\ data.reserved = y
      <4> HIDE DEF data, d, x, y
      <4>1. data = [free |-> x, reserved |-> y, frozen |-> d.frozen]
        BY <3>1, <3>2 DEF AccountData
      <4> QED BY <3>1, <4>1 DEF AccountData
    <3> QED BY <3>3
  <2> HIDE DEF data, actual
  <2>4. Right(c, who, data)
    BY <1>1, <1>2, <2>1, <2>3
    DEF Right, Keeping, KeptWhenEnding, AccountData, free_balance, Total
  <2>5. 0 = Total(data) - total_balance(c, who)
    BY <1>2, <2>1, <2>3 DEF AccountData, total_balance, Total
  <2> QED BY <2>2, <2>4, <2>5, StoreRight
<1>8. CASE SlashReserved(c, who, amount)
  <2>1. PICK n \in Nat :
          LET new == ReservedSlashed(accounts[<<c, who>>], n)
          IN Store(c, who, new, Total(new) - total_balance(c, who))
    <3>1. Sparing(who, amount) \in Nat
      <4>1. total_balance(Native, who) \in Nat /\ minimum_balance[Native] \in Nat
        BY HoldsAssumption DEF Typed, Keys, AccountData, total_balance, Total
      <4> QED BY <1>1, <4>1 DEF Sparing, MinOf, SaturatingSub
    <3> QED BY <1>1, <1>8, <3>1 DEF SlashReserved, BestEffort
  <2>2. Right(c, who, ReservedSlashed(accounts[<<c, who>>], n))
    BY <1>1, <1>2, <2>1 DEF ReservedSlashed, SaturatingSub, Right, Keeping, KeptWhenEnding,
                      AccountData, free_balance, Total
  <2> QED BY <2>1, <2>2, StoreRight
<1>9. ASSUME NEW to \in Accounts, NEW status \in {"free", "reserved"},
             RepatriateReserved(c, who, to, amount, status)
      PROVE  \E changed, issued : /\ StoresWell(c, changed, issued)
                                  /\ \A a \in Accounts : a \in DOMAIN changed =>
                                                         Right(c, a, changed[a])
  <2> DEFINE actual == ActuallyReserved(c, who, amount)
             less == [accounts[<<c, who>>] EXCEPT !.reserved = @ - actual]
             more == [accounts[<<c, to>>] EXCEPT ![status] = @ + actual]
             changed == [a \in {who, to} |-> IF a = who THEN less ELSE more]
  <2>1. StoreAll(c, changed, 0) /\ who # to
    BY <1>9 DEF RepatriateReserved
  <2>2. actual \in Nat /\ actual <= accounts[<<c, who>>].reserved
    BY <1>1, ActuallyReservedType DEF reserved_balance
  <2>3. Right(c, who, less)
    <3> HIDE DEF actual
    <3> QED BY <1>1, <1>2, <2>2
         DEF Right, Keeping, KeptWhenEnding, AccountData, free_balance, Total
  <2>4. Right(c, to, more)
    <3> HIDE DEF actual
    <3>1. CASE status = "free"
      BY <1>1, <1>2, <2>2, <3>1
      DEF Right, Keeping, KeptWhenEnding, AccountData, free_balance, Total
    <3>2. CASE status = "reserved"
      BY <1>1, <1>2, <2>2, <3>2
      DEF Right, Keeping, KeptWhenEnding, AccountData, free_balance, Total
    <3> QED BY <3>1, <3>2
  <2>5. Total(less) + Total(more) = total_balance(c, who) + total_balance(c, to)
    <3> HIDE DEF actual
    <3>1. Total(less) = total_balance(c, who) - actual
      BY <1>2, <2>2 DEF AccountData, total_balance, Total
    <3>2. Total(more) = total_balance(c, to) + actual
      <4>1. CASE status = "free"
        BY <1>2, <2>2, <4>1 DEF AccountData, total_balance, Total
      <4>2. CASE status = "reserved"
        BY <1>2, <2>2, <4>2 DEF AccountData, total_balance, Total
      <4> QED BY <4>1, <4>2
    <3>3. total_balance(c, who) \in Nat /\ total_balance(c, to) \in Nat
      BY TotalFacts
    <3> HIDE DEF less, more
    <3> QED BY <2>2, <3>1, <3>2, <3>3
  <2> HIDE DEF less, more
  <2>6. less \in AccountData /\ more \in AccountData
    BY <2>3, <2>4 DEF Right, Keeping
  <2>7. StoresWell(c, changed, 0)
    BY <2>1, <2>5, <2>6, StoreTwo
  <2>8. \A a \in Accounts : a \in DOMAIN changed => Right(c, a, changed[a])
    BY <2>1, <2>3, <2>4
  <2> QED BY <2>7, <2>8
<1> QED BY <1>3, <1>4, <1>5, <1>6, <1>7, <1>8, <1>9 DEF Payments, ReservableCalls

\* UpdateBalance and a slash store an account as it should be as well, if not
\* with what is frozen.
LEMMA UpdateStores ==
  ASSUME Typed, NEW c \in CurrencyIds, NEW who \in Accounts, NEW amount \in Amounts,
         UpdateBalance(c, who, amount)
  PROVE  /\ StoresWell(c, [a \in {who} |-> Withdrawn(c, who, amount)], -amount)
         /\ Keeping(c, who, Withdrawn(c, who, amount))
<1>1. amount \in Nat /\ accounts[<<c, who>>] \in AccountData
  BY HoldsAssumption, TotalFacts
<1>2. Keeping(c, who, Withdrawn(c, who, amount))
  BY <1>1 DEF UpdateBalance, CanWithdraw, Withdrawn, AccountData, free_balance, Keeping
<1>3. -amount = Total(Withdrawn(c, who, amount)) - total_balance(c, who)
  BY <1>1 DEF Withdrawn, AccountData, total_balance, Total
<1>4. StoresWell(c, [a \in {who} |-> Withdrawn(c, who, amount)], -amount)
  BY <1>2, <1>3, StoreOne DEF UpdateBalance, Keeping
<1> QED BY <1>2, <1>4

LEMMA SparingType ==
  ASSUME Typed, NEW who \in Accounts, NEW amount \in Nat
  PROVE  Sparing(who, amount) \in Nat
<1>1. total_balance(Native, who) \in Nat /\ minimum_balance[Native] \in Nat
  BY HoldsAssumption, TotalFacts
<1> QED BY <1>1 DEF Sparing, MinOf, SaturatingSub

LEMMA SlashedFacts ==
  ASSUME NEW d \in AccountData, NEW n \in Nat
  PROVE  /\ Slashed(d, n) \in AccountData
         /\ n <= d.free => Total(Slashed(d, n)) = Total(d) - n
<1> DEFINE e == Slashed(d, n)
           x == d.free - MinOf(d.free, n)
           y == SaturatingSub(d.reserved, n - MinOf(d.free, n))
<1>1. x \in Nat /\ y \in Nat /\ (n <= d.free => x = d.free - n /\ y = d.reserved)
  BY DEF MinOf, SaturatingSub, AccountData
<1>2. e = [d EXCEPT !.free = x, !.reserved = y]
  BY DEF Slashed
<1>3. e = [free |-> x, reserved |-> y, frozen |-> d.frozen]
  <2> HIDE DEF e, x, y
  <2> QED BY <1>2 DEF AccountData
<1>4. e \in AccountData /\ Total(e) = x + y
  <2> HIDE DEF e, x, y
  <2> QED BY <1>1, <1>3 DEF AccountData, Total
<1>5. d.free \in Nat /\ d.reserved \in Nat /\ Total(d) = d.free + d.reserved
  BY DEF AccountData, Total
<1> HIDE DEF e, x, y
<1>6. e \in AccountData /\ (n <= d.free => Total(e) = Total(d) - n)
  BY <1>1, <1>4, <1>5
<1> QED BY <1>6 DEF e

LEMMA SlashStores ==
  ASSUME Typed, NEW c \in CurrencyIds, NEW who \in Accounts, NEW amount \in Amounts,
         Slash(c, who, amount)
  PROVE  \E n \in Nat :
           LET new == Slashed(accounts[<<c, who>>], n)
           IN StoresWell(c, [a \in {who} |-> new], Total(new) - total_balance(c, who))
<1>1. amount \in Nat /\ accounts[<<c, who>>] \in AccountData
  BY HoldsAssumption, TotalFacts
<1>2. Sparing(who, amount) \in Nat
  BY <1>1, SparingType
<1>3. PICK n \in Nat :
        LET new == Slashed(accounts[<<c, who>>], n)
        IN Store(c, who, new, Total(new) - total_balance(c, who))
  BY <1>1, <1>2 DEF Slash, BestEffort
<1> DEFINE new == Slashed(accounts[<<c, who>>], n)
           issued == Total(new) - total_balance(c, who)
<1>4. new \in AccountData
  BY <1>1, SlashedFacts
<1>5. Store(c, who, new, issued)
  BY <1>3
<1> HIDE DEF new
<1>6. StoresWell(c, [a \in {who} |-> new], issued)
  BY <1>4, <1>5, StoreOne
<1> QED BY <1>6 DEF new

\* Every call stores accounts well, or changes locks alone.
LEMMA NextStores ==
  ASSUME Typed, NEW c \in CurrencyIds, NEW who \in Accounts, NEW amount \in Amounts,
         \/ Payments(c, who, amount) \/ Slash(c, who, amount)
         \/ ReservableCalls(c, who, amount)
  PROVE  \E changed, issued : StoresWell(c, changed, issued)
<1>1. CASE UpdateBalance(c, who, amount)
  BY <1>1, UpdateStores
<1>2. CASE Slash(c, who, amount)
  BY <1>2, SlashStores
<1>3. CASE /\ Payments(c, who, amount) \/ ReservableCalls(c, who, amount)
           /\ ~UpdateBalance(c, who, amount)
  BY <1>3, CallStores
<1> QED BY <1>1, <1>2, <1>3

\* The locks of an account change what is frozen, not what it has.
LEMMA LocksStay ==
  ASSUME Typed, IssuanceAgrees, NEW c \in CurrencyIds, NEW who \in Accounts,
         NEW held \in [LockIds -> Nat], UpdateLocks(c, who, held)
  PROVE  Typed' /\ IssuanceAgrees'
<1>1. MaxOf(held) \in Nat
  BY MaxOfType
<1>2. locks' \in [Keys -> [LockIds -> Nat]]
  BY DEF UpdateLocks, Typed
<1>3. accounts' \in [Keys -> AccountData]
  BY <1>1 DEF UpdateLocks, Typed, AccountData
<1>4. UNCHANGED <<total_issuance, providers>>
  BY DEF UpdateLocks
<1>5. consumers' \in [Accounts -> Nat]
  <2> DEFINE before == consumers[who]
             opening == locks[<<c, who>>] = NoLock /\ held # NoLock /\ providers[who] > 0
             closing == locks[<<c, who>>] # NoLock /\ held = NoLock
             after == CASE opening -> before + 1
                        [] closing -> SaturatingSub(before, 1)
                        [] OTHER -> before
  <2>1. before \in Nat
    BY DEF Typed
  <2>2. consumers' = [consumers EXCEPT ![who] = after]
    BY DEF UpdateLocks
  <2>3. ~(opening /\ closing)
    OBVIOUS
  <2> HIDE DEF before, opening, closing
  <2>4. after \in Nat
    BY <2>1, <2>3 DEF SaturatingSub
  <2> HIDE DEF after
  <2> QED BY <2>2, <2>4 DEF Typed
<1>6. Typed'
  BY <1>2, <1>3, <1>4, <1>5 DEF Typed
<1>7. ASSUME NEW d \in CurrencyIds, NEW a \in Accounts
      PROVE  total_balance(d, a)' = total_balance(d, a)
  <2>1. <<d, a>> \in Keys /\ accounts[<<d, a>>] \in AccountData
    BY DEF Keys, Typed
  <2>2. /\ accounts'[<<d, a>>].free = accounts[<<d, a>>].free
        /\ accounts'[<<d, a>>].reserved = accounts[<<d, a>>].reserved
    BY <2>1 DEF UpdateLocks, Typed, AccountData
  <2> QED BY <2>2 DEF total_balance, Total
<1>8. IssuanceAgrees'
  <2>1. ASSUME NEW d \in CurrencyIds
        PROVE  total_issuance'[d] = SumFunction([a \in Accounts |-> total_balance(d, a)])'
    <3>1. [a \in Accounts |-> total_balance(d, a)'] = [a \in Accounts |-> total_balance(d, a)]
      BY <1>7
    <3> QED BY <1>4, <3>1 DEF IssuanceAgrees
  <2> QED BY <2>1 DEF IssuanceAgrees
<1> QED BY <1>6, <1>8

IndInv == Typed /\ IssuanceAgrees

LEMMA NextIndInv ==
  ASSUME IndInv, [Next]_vars
  PROVE  IndInv'
<1>1. CASE UNCHANGED vars
  <2>1. \A d \in CurrencyIds :
          [a \in Accounts |-> total_balance(d, a)'] = [a \in Accounts |-> total_balance(d, a)]
    BY <1>1 DEF vars, total_balance
  <2>2. IssuanceAgrees'
    BY <1>1, <2>1 DEF IndInv, IssuanceAgrees, vars
  <2> QED BY <1>1, <2>2 DEF IndInv, Typed, vars
<1>2. ASSUME NEW c \in CurrencyIds, NEW who \in Accounts, NEW amount \in Amounts,
             \/ Payments(c, who, amount) \/ Slash(c, who, amount)
             \/ ReservableCalls(c, who, amount)
      PROVE  IndInv'
  BY <1>2, NextStores, StoreTyped, StoreAgrees DEF IndInv
<1>3. ASSUME NEW c \in CurrencyIds, NEW who \in Accounts, NEW amount \in Amounts,
             LockableCalls(c, who, amount)
      PROVE  IndInv'
  <2>1. locks[<<c, who>>] \in [LockIds -> Nat] /\ amount \in Nat
    BY HoldsAssumption DEF IndInv, Typed, Keys
  <2>2. PICK id \in LockIds : SetLock(c, who, id, amount)
                              \/ ExtendLock(c, who, id, amount) \/ RemoveLock(c, who, id)
    BY <1>3 DEF LockableCalls
  <2>3. PICK held : held \in [LockIds -> Nat] /\ UpdateLocks(c, who, held)
    BY <2>1, <2>2 DEF SetLock, ExtendLock, RemoveLock
  <2> QED BY <2>3, LocksStay DEF IndInv
<1> QED BY <1>1, <1>2, <1>3 DEF Next

LEMMA InitIndInv == Init => IndInv
<1> SUFFICES ASSUME Init
             PROVE  IndInv
  OBVIOUS
<1>1. Typed
  BY DEF Init, Typed, AccountData, NoAccount, NoLock
<1>2. ASSUME NEW c \in CurrencyIds
      PROVE  total_issuance[c] = SumFunction([a \in Accounts |-> total_balance(c, a)])
  <2> DEFINE held == [a \in Accounts |-> total_balance(c, a)]
  <2>1. \A a \in Accounts : held[a] = 0
    BY DEF Init, Keys, NoAccount, total_balance, Total
  <2>2. DOMAIN held = Accounts
    OBVIOUS
  <2> HIDE DEF held
  <2>3. SumFunctionOnSet(held, Accounts) = 0
    BY <2>1, HoldsAssumption, SumZeros
  <2>4. SumFunction(held) = 0
    BY <2>2, <2>3 DEF SumFunction
  <2> QED BY <2>4 DEF Init, held
<1> QED BY <1>1, <1>2 DEF IndInv, IssuanceAgrees

LEMMA SpecIndInv == Spec => []IndInv
<1>1. IndInv /\ [Next]_vars => IndInv'
  BY NextIndInv
<1> QED BY InitIndInv, <1>1, PTL DEF Spec

\* What the pallets count as issued is what the accounts hold, through the dust of
\* accounts that close, slashes of more than there is and reserves that are handed
\* on (the adapter to pallet_balances and orml_tokens).
THEOREM IssuanceStaysAgreed == Spec => []IssuanceAgrees
<1> QED BY SpecIndInv, PTL DEF IndInv

\* Locked money stays (LocksHold): no payment through the currencies pallet, by
\* either of the two pallets behind it, and no call on reserves brings the free
\* money of an account under what is frozen, for any currencies, accounts, locks
\* and amounts; only a slash or the end of the account does.
THEOREM LockedMoneyStays == Spec => LocksHold
<1>3. ASSUME Typed,
             NEW c \in CurrencyIds, NEW who \in Accounts,
             free_balance(c, who)' < free_balance(c, who),
             free_balance(c, who)' < accounts[<<c, who>>].frozen,
             NEW a \in Accounts, NEW amount \in Amounts,
             Payments(c, a, amount) \/ ReservableCalls(c, a, amount)
      PROVE  Ends(c, who)
  <2>2. CASE UpdateBalance(c, a, amount)
    <3> DEFINE changed == [x \in {a} |-> Withdrawn(c, a, amount)]
    <3>1. StoreAll(c, changed, -amount)
      BY <2>2 DEF UpdateBalance, Store
    <3>2. Keeping(c, a, Withdrawn(c, a, amount))
      BY <1>3, <2>2, UpdateStores
    <3>3. who \in DOMAIN changed => Keeping(c, who, changed[who])
      BY <3>2
    <3>4. who \in DOMAIN changed /\ c = Native /\ total_balance(c, who)' = 0
      <4> HIDE DEF changed
      <4> QED BY <1>3, <3>1, <3>3, StoreKeeps
    <3>5. who = a
      BY <3>4
    <3> QED BY <2>2, <3>4, <3>5 DEF Ends
  <2>3. CASE ~UpdateBalance(c, a, amount)
    <3>1. PICK changed, issued :
            /\ StoresWell(c, changed, issued)
            /\ \A x \in Accounts : x \in DOMAIN changed => Right(c, x, changed[x])
      BY <1>3, <2>3, CallStores
    <3>2. /\ who \in DOMAIN changed /\ c = Native /\ total_balance(c, who)' = 0
          /\ Total(changed[who]) < minimum_balance[c]
      BY <1>3, <3>1, StoreKeeps DEF Right, StoresWell
    <3> QED BY <3>1, <3>2 DEF Right, KeptWhenEnding, Ends
  <2> QED BY <2>2, <2>3
<1>4. Typed /\ [Next]_vars =>
        [\A c \in CurrencyIds, who \in Accounts :
           /\ free_balance(c, who)' < free_balance(c, who)
           /\ free_balance(c, who)' < accounts[<<c, who>>].frozen
           => Ends(c, who) \/ ~\E a \in Accounts, amount \in Amounts :
                Payments(c, a, amount) \/ ReservableCalls(c, a, amount)]_vars
  BY <1>3
<1>5. IndInv => Typed
  BY DEF IndInv
<1> QED BY SpecIndInv, <1>4, <1>5, PTL DEF Spec, LocksHold
=============================================================================
