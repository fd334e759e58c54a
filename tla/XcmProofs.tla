------------------------------- MODULE XcmProofs -------------------------------
(***************************************************************************)
(* The money of messages, for any assets, locations, messages and weights: *)
(* it goes back where it came from, nothing is stored out of range, fees   *)
(* add up, and what is delivered or earned arrives.                        *)
(*                                                                         *)
(* LocationsResolve is inductive, and whoever made a call on the registry  *)
(* between or within messages, ReturnsHome follows from it. The fees add   *)
(* up by FeeBooks, beside the types: one component alone sold the weight   *)
(* of a plain message, and what it keeps covers the fee of the weight it   *)
(* has still sold, so that a refund never takes more than was paid.        *)
(* FeeSplits says why that stays so: the fees of the parts of a weight,    *)
(* rounded down, are at most the fee of the whole.                         *)
(***************************************************************************)
EXTENDS Xcm, RegistryProofs

LEMMA InitResolves == Init => LocationsResolve
BY DEF Init, RegistryInit, EmptyMap, LocationsResolve

\* A call by a Transact may change the registry; the steps of a message do not.
LEMMA NextResolves == LocationsResolve /\ [Next]_vars => LocationsResolve'
<1> SUFFICES ASSUME LocationsResolve, [Next]_vars
             PROVE  LocationsResolve'
  OBVIOUS
<1>1. CASE Transact
  BY <1>1, RegistryResolves DEF Transact
<1>2. CASE UNCHANGED registry
  BY <1>2 DEF registry, locations, LocationsResolve
<1>3. CASE \E origin \in Origins, arrived \in Arrivals : BeginMessage(origin, arrived)
  BY <1>2, <1>3 DEF BeginMessage
<1>4. CASE \E location \in Locations, weight \in Weights : BuyWeight(location, weight)
  BY <1>2, <1>4 DEF BuyWeight
<1>5. CASE \E weight \in Weights : RefundWeight(weight)
  BY <1>2, <1>5 DEF RefundWeight
<1>6. CASE \E location \in Locations, who \in Beneficiaries : DeliverAsset(location, who)
  BY <1>2, <1>6 DEF DeliverAsset
<1>7. CASE EndMessage
  BY <1>2, <1>7 DEF EndMessage
<1>8. CASE UNCHANGED vars
  BY <1>2, <1>8 DEF vars
<1> QED BY <1>1, <1>3, <1>4, <1>5, <1>6, <1>7, <1>8 DEF Next

\* A registered location but the parent stands for the asset that is sent to it.
LEMMA ResolvedReturns == LocationsResolve => ReturnsHome
<1> SUFFICES ASSUME LocationsResolve,
                    NEW l \in DOMAIN LocationToCurrencyIds \ {Parent}
             PROVE  LocationOf(CurrencyOf(l)) = l
  BY DEF ReturnsHome
<1>1. CurrencyOf(l) = LocationToCurrencyIds[l]
  BY DEF CurrencyOf
<1>2. /\ LocationToCurrencyIds[l] \in DOMAIN AssetLocations
      /\ AssetLocations[LocationToCurrencyIds[l]] = l
  BY DEF LocationsResolve
<1> QED BY <1>1, <1>2 DEF LocationOf

\* The asset a registered location stands for is sent to that location, however
\* assets were moved (set_location, force_set_location; CurrencyIdConvert).
THEOREM MoneyReturnsHome == Spec => []ReturnsHome
<1> QED BY InitResolves, NextResolves, ResolvedReturns, PTL DEF Spec

-----------------------------------------------------------------------------
(* Fees are numbers.                                                       *)

LEMMA DivNat == \A a \in Nat, d \in Nat \ {0} : a \div d \in Nat
OBVIOUS

LEMMA ModNat == \A a \in Nat, d \in Nat \ {0} : a % d \in Nat /\ (a < d => a % d = a)
OBVIOUS

LEMMA ProductNat == \A a, b \in Nat : a * b \in Nat
OBVIOUS

\* The row of traders: nine of a fixed rate, and the one of the assets.
LEMMA RatesAre ==
  /\ KsmPerSecond \in Nat /\ AssetComponent = 10 /\ Components = 1 .. 10
  /\ \A k \in 1 .. 9 : FixedRates[k].rate \in Nat
<1>1. KsmPerSecond \in Nat
  BY XcmAssumption, DivNat, ProductNat DEF KsmPerSecond
<1>2. Len(FixedRates) = 9 /\ \A k \in 1 .. 9 : FixedRates[k].rate \in Nat
  BY <1>1 DEF FixedRates, Dear
<1> QED BY <1>1, <1>2 DEF AssetComponent, Components

\* What the multiple of a registered location is.
LEMMA MultipleNat ==
  ASSUME RegistryTyped, NEW l, HasMultiple(l)
  PROVE  MultipleAt(l) \in Nat
<1>1. LocationToCurrencyIds[l] \in CurrencyIds
  BY DEF RegistryTyped, HasMultiple
<1>2. Multiples \cup {DefaultMultiple} \subseteq Nat
  BY RegistryAssumption DEF DefaultMultiple
<1> QED BY <1>1, <1>2 DEF RegistryTyped, MultipleAt

LEMMA FeeNat ==
  ASSUME RegistryTyped, NEW k \in Components, NEW l, NEW weight \in Nat,
         k = AssetComponent => HasMultiple(l)
  PROVE  FeeOf(k, l, weight) \in Nat
<1>1. WeightPerSecond \in Nat \ {0} /\ U128 \in Nat \ {0}
  BY XcmAssumption
<1>2. CASE k = AssetComponent
  <2> DEFINE rate == KsmPerSecond * MultipleAt(l)
             cost == (rate % U128) * weight
  <2>1. rate \in Nat
    BY <1>2, MultipleNat, RatesAre, ProductNat
  <2> HIDE DEF rate
  <2>2. cost \in Nat
    BY <1>1, <2>1, ModNat, ProductNat
  <2> HIDE DEF cost
  <2>3. (cost % U128) \div WeightPerSecond \in Nat
    BY <1>1, <2>2, ModNat, DivNat
  <2> QED BY <1>2, <2>3 DEF FeeOf, AssetFee, cost, rate
<1>3. CASE k # AssetComponent
  <2>1. k \in 1 .. 9
    BY <1>3, RatesAre
  <2>2. FixedRates[k].rate * weight \in Nat
    BY <2>1, RatesAre, ProductNat
  <2>3. FixedFee(k, weight) \in Nat
    BY <1>1, <2>2, DivNat DEF FixedFee
  <2> QED BY <1>3, <2>3 DEF FeeOf
<1> QED BY <1>2, <1>3

\* A component takes a payment that is enough.
LEMMA TakenFee ==
  ASSUME RegistryTyped, NEW k \in Components, NEW l, NEW weight \in Nat,
         NEW offered \in Nat, Takes(k, l, offered, weight)
  PROVE  /\ k = AssetComponent => HasMultiple(l)
         /\ FeeOf(k, l, weight) \in Nat /\ FeeOf(k, l, weight) <= offered
<1>1. k = AssetComponent => HasMultiple(l)
  BY DEF Takes
<1>2. FeeOf(k, l, weight) \in Nat
  BY <1>1, FeeNat
<1> QED BY <1>1, <1>2 DEF Takes, FeeOf

-----------------------------------------------------------------------------
(* The type invariant. The ledger is sound, and what a component keeps was  *)
(* paid at one of the locations: so its revenue is of a currency there is.  *)

\* A row of traders, each with its weight, what it keeps and where that was paid.
TraderTyped(t) ==
  /\ DOMAIN t = Components
  /\ \A k \in Components :
       /\ t[k] \in [weight : Nat, amount : Nat, location : Locations \cup {NewTrader[k].location}]
       /\ t[k].amount > 0 => t[k].location \in Locations

Messages ==
  [purchases : 0 .. MaxPurchases, transacted : BOOLEAN,
   arrived : Arrivals \cup {Nothing}, delivered : [Locations -> Nat]]

Typed ==
  /\ Sound(ledger) /\ RegistryTyped
  /\ trader # <<>> => TraderTyped(trader)
  /\ holding \in [Locations -> Nat]
  /\ messages \in 0 .. MaxMessages
  /\ message \in Messages

LEMMA TypedIsType == Typed => TypeOK
<1> SUFFICES ASSUME Typed
             PROVE  TypeOK
  OBVIOUS
<1>1. IsLedger(ledger)
  BY LedgersAre DEF Typed, Sound, Kept
<1> QED BY <1>1 DEF Typed, TypeOK, TraderTyped, Messages

LEMMA NewTraderTyped == TraderTyped(NewTrader)
<1>1. /\ DOMAIN NewTrader = Components
      /\ \A k \in Components : NewTrader[k].weight = 0 /\ NewTrader[k].amount = 0
  BY DEF NewTrader
<1>2. \A k \in Components : NewTrader[k] =
        [weight |-> 0, amount |-> 0, location |-> NewTrader[k].location]
  BY DEF NewTrader
<1> QED BY <1>1, <1>2 DEF TraderTyped

\* The asset at a location is one there is.
LEMMA CurrencyAt ==
  ASSUME RegistryTyped, NEW l \in Locations
  PROVE  CurrencyOf(l) \in CurrencyIds \cup {None}
<1>1. CASE l = Parent
  BY <1>1, XcmAssumption DEF CurrencyOf
<1>2. CASE l # Parent /\ l \in DOMAIN LocationToCurrencyIds
  BY <1>2 DEF CurrencyOf, RegistryTyped
<1>3. CASE l # Parent /\ l \notin DOMAIN LocationToCurrencyIds
  BY <1>3, XcmAssumption DEF CurrencyOf
<1> QED BY <1>1, <1>2, <1>3

LEMMA DepositKeepsSound ==
  ASSUME NEW l, Sound(l), NEW c \in CurrencyIds, NEW a \in Accounts, NEW amount \in Nat
  PROVE  Sound(Deposit(l, c, a, amount))
BY DepositSound

\* The revenue of a component goes to the treasury.
LEMMA ToTreasurySound ==
  ASSUME RegistryTyped, NEW l, Sound(l), NEW location \in Locations, NEW amount \in Nat
  PROVE  Sound(ToTreasury(l, location, amount))
<1>1. CurrencyOf(location) \in CurrencyIds \cup {None} /\ Treasury \in Accounts
  BY CurrencyAt, XcmAssumption
<1> QED BY <1>1, DepositKeepsSound DEF ToTreasury

\* The origins' funds, deposited one by one.
LEMMA FundedSound ==
  ASSUME NEW l, Sound(l)
  PROVE  Sound(Funded(l))
<1> DEFINE S == CurrencyIds \X {LocationToAccountId[o] : o \in Origins}
           L == {m \in Ledgers : Sound(m)}
           Given(m, k) == Deposit(m, k[1], k[2], Funds[k[1]])
           Result(g, T) == IF T = {} THEN l ELSE Given(g[T \ {Chosen(T)}], Chosen(T))
           Results(g) == g = [T \in SUBSET S |-> Result(g, T)]
           step == [p \in S \X L |-> Given(p[2], p[1])]
           g == CHOOSE g : Results(g)
<1>1. Funded(l) = g[S]
  BY DEF Funded, FoldSet, MapThenFoldSet, Chosen
<1>2. \A k \in S : k[1] \in CurrencyIds /\ k[2] \in Accounts /\ Funds[k[1]] \in Nat
  BY XcmAssumption
<1>3. \A k \in S, m \in L : Given(m, k) \in L
  BY <1>2, DepositKeepsSound DEF Sound, Kept
<1>4. l \in L
  BY DEF Sound, Kept
<1>5. IsFiniteSet(S)
  <2>1. {LocationToAccountId[o] : o \in Origins} \subseteq Accounts
    BY XcmAssumption
  <2>2. IsFiniteSet({LocationToAccountId[o] : o \in Origins})
    BY <2>1, LedgerAssumption, FS_Subset
  <2> QED BY <2>2, LedgerAssumption, FS_Product
<1> HIDE DEF L, S, Given
<1>6. step \in [S \X L -> L]
  <2>1. \A p \in S \X L : p[1] \in S /\ p[2] \in L
    OBVIOUS
  <2> QED BY <1>3, <2>1
<1>7. \A k \in S, m \in L : step[<<k, m>>] = Given(m, k)
  OBVIOUS
<1> HIDE DEF step
<1>8. PICK h \in [SUBSET S -> L] : PartialFolds(step, l, h, S)
  BY <1>4, <1>5, <1>6, FoldsExist
<1>9. ASSUME NEW T \in SUBSET S
      PROVE  h[T] = Result(h, T)
  <2>1. CASE T = {}
    BY <1>8, <2>1 DEF PartialFolds
  <2>2. CASE T # {}
    <3>1. Chosen(T) \in S /\ h[T \ {Chosen(T)}] \in L
      BY <2>2, ChosenIn
    <3> QED BY <1>7, <1>8, <2>2, <3>1 DEF PartialFolds
  <2> QED BY <2>1, <2>2
<1>10. Results(h)
  BY <1>9
<1>11. Results(g)
  BY <1>10
<1> HIDE DEF g
<1>12. \A T \in SUBSET S : g[T] = Result(g, T)
  BY <1>11
<1>13. g[{}] \in L
  BY <1>4, <1>12
<1>14. ASSUME NEW T \in SUBSET S, T # {}, g[T \ {Chosen(T)}] \in L
       PROVE  g[T] \in L
  BY <1>3, <1>12, <1>14, ChosenIn
<1>15. g[S] \in L
  BY <1>5, <1>13, <1>14, FoldStays
<1> QED BY <1>1, <1>15 DEF L

\* A withdrawal leaves what can be withdrawn of other assets: closing a token
\* account takes nothing else, and hooks only add native money.
LEMMA WithdrawLeavesOthers ==
  ASSUME NEW l, Sound(l), NEW c \in CurrencyIds, NEW a \in Accounts,
         NEW amount \in Nat \ {0}, CanWithdraw(l, c, a, amount),
         NEW d \in CurrencyIds \ {c}, NEW other \in Nat \ {0}, CanWithdraw(l, d, a, other)
  PROVE  CanWithdraw(Withdraw(l, c, a, amount), d, a, other)
<1> DEFINE m == Withdraw(l, c, a, amount)
<1>1. Sound(m) /\ (c # Native => Stores(l, m, c, a, TokenBalance(l, c, a) - amount))
  BY WithdrawSound
<1>2. /\ l.balances \in [Accounts -> Nat] /\ m.balances \in [Accounts -> Nat]
      /\ AirDropAmount \in Nat
  BY <1>1, LedgerAssumption DEF Sound, Kept, Ledgers
<1>3. CASE c = Native
  <2>1. LeavesAirDrop(l, a, amount)
    BY <1>3 DEF CanWithdraw
  <2>2. NativeBalance(l, a) >= amount
    BY <1>2, <2>1 DEF LeavesAirDrop, SaturatingSub, NativeBalance
  <2>3. m.tokens = l.tokens
    BY <1>3, <2>2, NativeWithdrawSound DEF Withdraw
  <2> HIDE DEF m
  <2>4. TokenBalance(m, d, a) = TokenBalance(l, d, a)
    BY <2>3 DEF TokenBalance
  <2> QED BY <1>3, <2>4 DEF CanWithdraw, CanTokenWithdraw, m
<1>4. CASE c # Native
  <2> HIDE DEF m
  <2>1. /\ TokenBalance(m, d, a) = TokenBalance(l, d, a)
        /\ m.balances[a] >= l.balances[a]
    BY <1>1, <1>4 DEF Stores
  <2>2. LeavesAirDrop(l, a, other) => LeavesAirDrop(m, a, other)
    BY <1>2, <2>1 DEF LeavesAirDrop, SaturatingSub, NativeBalance
  <2> QED BY <2>1, <2>2 DEF CanWithdraw, CanTokenWithdraw, m
<1> QED BY <1>3, <1>4

\* Each of the withdrawals can be made, although all are checked against the
\* ledger before the first: they are of different assets.
LEMMA WithdrawnSound ==
  ASSUME RegistryTyped, Sound(ledger), NEW from \in Accounts, NEW arrived \in Arrivals,
         \A l \in Brought(arrived) :
           /\ CurrencyOf(l) # None
           /\ CanWithdraw(ledger, CurrencyOf(l), from, arrived[l])
           /\ \A k \in Brought(arrived) \ {l} : CurrencyOf(k) # CurrencyOf(l)
  PROVE  Sound(Withdrawn(from, arrived))
<1> DEFINE S == Brought(arrived)
           L == Ledgers
           Taken(after, asset) == Withdraw(after, CurrencyOf(asset), from, arrived[asset])
           Can(after, asset) == CanWithdraw(after, CurrencyOf(asset), from, arrived[asset])
           Good(m, T) == Sound(m) /\ \A l \in S \ T : Can(m, l)
           Result(g, T) == IF T = {} THEN ledger ELSE Taken(g[T \ {Chosen(T)}], Chosen(T))
           Results(g) == g = [T \in SUBSET S |-> Result(g, T)]
           step == [p \in S \X L |-> IF Sound(p[2]) /\ Can(p[2], p[1])
                                     THEN Taken(p[2], p[1]) ELSE p[2]]
           g == CHOOSE g : Results(g)
<1>1. Withdrawn(from, arrived) = g[S]
  BY DEF Withdrawn, FoldSet, MapThenFoldSet, Chosen
<1>2. \A l \in S : /\ l \in Locations /\ CurrencyOf(l) \in CurrencyIds
                   /\ arrived[l] \in Nat \ {0}
  BY CurrencyAt, XcmAssumption DEF Brought
<1>3. \A l \in S : \A m : Sound(m) /\ Can(m, l) => Sound(Taken(m, l)) /\ Taken(m, l) \in L
  BY <1>2, WithdrawSound DEF Sound, Kept
<1>4. \A l \in S : \A k \in S \ {l} : \A m :
        Sound(m) /\ Can(m, l) /\ Can(m, k) => Can(Taken(m, l), k)
  <2>1. SUFFICES ASSUME NEW l \in S, NEW k \in S \ {l}, NEW m, Sound(m), Can(m, l), Can(m, k)
                 PROVE  Can(Taken(m, l), k)
    OBVIOUS
  <2>2. /\ CurrencyOf(l) \in CurrencyIds /\ CurrencyOf(k) \in CurrencyIds \ {CurrencyOf(l)}
        /\ arrived[l] \in Nat \ {0} /\ arrived[k] \in Nat \ {0}
    BY <1>2
  <2> QED BY <2>1, <2>2, WithdrawLeavesOthers
<1>5. ledger \in L /\ Good(ledger, {})
  BY DEF Sound, Kept
<1>6. IsFiniteSet(S)
  BY XcmAssumption DEF Brought
<1>7. step \in [S \X L -> L]
  <2>1. \A p \in S \X L : p[1] \in S /\ p[2] \in L
    OBVIOUS
  <2> HIDE DEF L, S, Taken, Can
  <2> QED BY <1>3, <2>1
<1>8. \A l \in S : \A m \in L : Sound(m) /\ Can(m, l) => step[<<l, m>>] = Taken(m, l)
  OBVIOUS
<1> HIDE DEF step, L, S, Taken, Can
<1>9. ASSUME NEW f, f[{}] = ledger,
             \A T \in SUBSET S : T # {} /\ Sound(f[T \ {Chosen(T)}])
                                   /\ Can(f[T \ {Chosen(T)}], Chosen(T))
                                   => f[T] = Taken(f[T \ {Chosen(T)}], Chosen(T))
      PROVE  \A T \in SUBSET S : Good(f[T], T)
  <2> DEFINE B == {T \in SUBSET S : Good(f[T], T)}
  <2>1. ASSUME NEW T \in SUBSET S, \A x \in T : T \ {x} \in B
        PROVE  T \in B
    <3>1. CASE T = {}
      BY <1>5, <1>9, <3>1
    <3>2. CASE T # {}
      <4> DEFINE c == Chosen(T)
                 m == f[T \ {c}]
      <4>1. c \in T /\ c \in S
        BY <3>2, ChosenIn
      <4>2. Sound(m) /\ (\A l \in S \ (T \ {c}) : Can(m, l))
        BY <2>1, <4>1
      <4>3. Can(m, c)
        BY <4>1, <4>2
      <4>4. f[T] = Taken(m, c)
        BY <1>9, <3>2, <4>2, <4>3
      <4> HIDE DEF m, c
      <4>5. Sound(f[T])
        BY <1>3, <4>1, <4>2, <4>3, <4>4
      <4>6. \A l \in S \ T : Can(f[T], l)
        BY <1>4, <4>1, <4>2, <4>3, <4>4
      <4> QED BY <4>5, <4>6
    <3> QED BY <3>1, <3>2
  <2>2. SUBSET S \subseteq B
    <3> HIDE DEF B
    <3> QED BY <1>6, <2>1, SetInduction
  <2> QED BY <2>2
<1>10. PICK h \in [SUBSET S -> L] : PartialFolds(step, ledger, h, S)
  BY <1>5, <1>6, <1>7, FoldsExist
<1>11. h[{}] = ledger
  BY <1>10 DEF PartialFolds
<1>12. ASSUME NEW T \in SUBSET S, T # {}, Sound(h[T \ {Chosen(T)}]),
              Can(h[T \ {Chosen(T)}], Chosen(T))
       PROVE  h[T] = Taken(h[T \ {Chosen(T)}], Chosen(T))
  <2>1. Chosen(T) \in S /\ h[T \ {Chosen(T)}] \in L
    BY <1>12, ChosenIn
  <2> QED BY <1>8, <1>10, <1>12, <2>1 DEF PartialFolds
<1>13. \A T \in SUBSET S : Good(h[T], T)
  BY <1>9, <1>11, <1>12
<1>14. ASSUME NEW T \in SUBSET S
       PROVE  h[T] = Result(h, T)
  <2>1. CASE T = {}
    BY <1>11, <2>1
  <2>2. CASE T # {}
    <3> DEFINE c == Chosen(T)
    <3>1. c \in T /\ c \in S \ (T \ {c}) /\ T \ {c} \in SUBSET S
      BY <2>2, ChosenIn
    <3>2. Good(h[T \ {c}], T \ {c})
      BY <1>13, <3>1
    <3>3. Sound(h[T \ {c}]) /\ Can(h[T \ {c}], c)
      BY <3>1, <3>2
    <3> QED BY <1>12, <2>2, <3>3
  <2> QED BY <2>1, <2>2
<1>15. Results(h)
  BY <1>14
<1>16. Results(g)
  BY <1>15
<1> HIDE DEF g
<1>17. \A T \in SUBSET S : g[T] = Result(g, T)
  BY <1>16
<1>18. \A T \in SUBSET S : Good(g[T], T)
  <2>1. g[{}] = ledger
    BY <1>17
  <2>2. ASSUME NEW T \in SUBSET S, T # {}
        PROVE  g[T] = Taken(g[T \ {Chosen(T)}], Chosen(T))
    BY <1>17, <2>2
  <2> QED BY <1>9, <2>1, <2>2
<1> QED BY <1>1, <1>18

LEMMA ComponentsFinite == IsFiniteSet(Components)
<1>1. 1 \in Int /\ 10 \in Int
  OBVIOUS
<1>2. IsFiniteSet(1 .. 10)
  BY <1>1, FS_Interval, Zenon
<1> QED BY <1>2, RatesAre

\* The treasury is paid component by component.
LEMMA DroppedFolds ==
  ASSUME RegistryTyped, Sound(ledger), TraderTyped(trader)
  PROVE  \E g : /\ Dropped = g[Earning] /\ Sound(g[Earning])
                /\ \A T \in SUBSET Earning :
                     g[T] = IF T = {} THEN ledger
                            ELSE ToTreasury(g[T \ {Chosen(T)}], trader[Chosen(T)].location,
                                            trader[Chosen(T)].amount)
<1> DEFINE S == Earning
           L == {m \in Ledgers : Sound(m)}
           Given(m, k) == ToTreasury(m, trader[k].location, trader[k].amount)
           Result(g, T) == IF T = {} THEN ledger ELSE Given(g[T \ {Chosen(T)}], Chosen(T))
           Results(g) == g = [T \in SUBSET S |-> Result(g, T)]
           step == [p \in S \X L |-> Given(p[2], p[1])]
           g == CHOOSE g : Results(g)
<1>1. Dropped = g[S]
  BY DEF Dropped, FoldSet, MapThenFoldSet, Chosen
<1>2. \A k \in S : trader[k].location \in Locations /\ trader[k].amount \in Nat
  BY DEF TraderTyped, Earning
<1>3. \A k \in S, m \in L : Given(m, k) \in L
  BY <1>2, ToTreasurySound DEF Sound, Kept
<1>4. ledger \in L
  BY DEF Sound, Kept
<1>5. IsFiniteSet(S)
  BY ComponentsFinite, FS_Subset DEF Earning
<1> HIDE DEF L, Given
<1>6. step \in [S \X L -> L]
  <2>1. \A p \in S \X L : p[1] \in S /\ p[2] \in L
    OBVIOUS
  <2> QED BY <1>3, <2>1
<1>7. \A k \in S, m \in L : step[<<k, m>>] = Given(m, k)
  OBVIOUS
<1> HIDE DEF step
<1>8. PICK h \in [SUBSET S -> L] : PartialFolds(step, ledger, h, S)
  BY <1>4, <1>5, <1>6, FoldsExist
<1>9. ASSUME NEW T \in SUBSET S
      PROVE  h[T] = Result(h, T)
  <2>1. CASE T = {}
    BY <1>8, <2>1 DEF PartialFolds
  <2>2. CASE T # {}
    <3>1. Chosen(T) \in S /\ h[T \ {Chosen(T)}] \in L
      BY <2>2, ChosenIn
    <3> QED BY <1>7, <1>8, <2>2, <3>1 DEF PartialFolds
  <2> QED BY <2>1, <2>2
<1>10. Results(h)
  BY <1>9
<1>11. Results(g)
  BY <1>10
<1> HIDE DEF g
<1>12. \A T \in SUBSET S : g[T] = Result(g, T)
  BY <1>11
<1>13. g[{}] \in L
  BY <1>4, <1>12
<1>14. ASSUME NEW T \in SUBSET S, T # {}, g[T \ {Chosen(T)}] \in L
       PROVE  g[T] \in L
  <2>1. Chosen(T) \in S
    BY <1>14, ChosenIn
  <2>2. g[T] = Given(g[T \ {Chosen(T)}], Chosen(T))
    BY <1>12, <1>14
  <2> QED BY <1>3, <1>14, <2>1, <2>2
<1>15. g[S] \in L
  BY <1>5, <1>13, <1>14, FoldStays
<1>16. Sound(g[S])
  BY <1>15 DEF L
<1> QED BY <1>1, <1>12, <1>16 DEF Given

-----------------------------------------------------------------------------
(* Each step keeps the types.                                              *)

LEMMA InitTyped == Init => Typed
<1> SUFFICES ASSUME Init
             PROVE  Typed
  OBVIOUS
<1> DEFINE empty == NoLedger("listen")
           start == [empty EXCEPT !.existential = Minimums]
<1>1. Sound(empty) /\ empty \in Ledgers
  BY NoLedgerSound DEF Runtimes, Sound, Kept
<1>2. Minimums \in [CurrencyIds -> Nat]
  BY XcmAssumption
<1>3. Sound(start)
  <2> HIDE DEF empty
  <2>1. /\ start \in Ledgers /\ start.runtime = empty.runtime
        /\ start.balances = empty.balances /\ start.tokens = empty.tokens
        /\ start.providers = empty.providers /\ start.users = empty.users
    BY <1>1, <1>2 DEF Ledgers
  <2> HIDE DEF start
  <2> QED BY <1>1, <2>1, SettingsKeep
<1>4. Sound(ledger)
  <2>1. ledger = Funded(start)
    BY DEF Init
  <2> HIDE DEF start
  <2> QED BY <1>3, <2>1, FundedSound
<1>5. RegistryTyped
  <2>1. /\ ListenAssetsInfo = Assets
        /\ AssetLocations = EmptyMap /\ LocationToCurrencyIds = EmptyMap
        /\ WeightRateMultiple = [c \in CurrencyIds |-> DefaultMultiple]
    BY DEF Init, RegistryInit
  <2>2. DOMAIN EmptyMap = {}
    BY DEF EmptyMap
  <2>3. DOMAIN Assets \subseteq CurrencyIds /\ \A c \in DOMAIN Assets : Assets[c] \in AssetInfo
    BY XcmAssumption
  <2> QED BY <2>1, <2>2, <2>3 DEF RegistryTyped
<1>6. Nothing \in [Locations -> Nat]
  BY DEF Nothing
<1>7. NewMessage(Nothing) \in Messages
  BY <1>6, XcmAssumption DEF NewMessage, Messages
<1>8. messages \in 0 .. MaxMessages
  BY XcmAssumption DEF Init
<1> QED BY <1>4, <1>5, <1>6, <1>7, <1>8 DEF Init, Typed

\* A message begins with what arrives, out of an account of its origin or not.
LEMMA BeginKeepsType ==
  ASSUME Typed, NEW origin \in Origins, NEW arrived \in Arrivals,
         BeginMessage(origin, arrived)
  PROVE  Typed'
<1>1. Sound(ledger')
  <2>1. CASE ReserveAssetDeposited(origin, arrived)
    BY <2>1 DEF ReserveAssetDeposited, Typed
  <2>2. CASE WithdrawAsset(origin, arrived)
    <3> DEFINE from == LocationToAccountId[origin]
    <3>1. from \in Accounts
      BY XcmAssumption
    <3>2. /\ \A l \in Brought(arrived) :
               /\ CurrencyOf(l) # None
               /\ CanWithdraw(ledger, CurrencyOf(l), from, arrived[l])
               /\ \A k \in Brought(arrived) \ {l} : CurrencyOf(k) # CurrencyOf(l)
          /\ ledger' = Withdrawn(from, arrived)
      BY <2>2 DEF WithdrawAsset
    <3> HIDE DEF from
    <3> QED BY <3>1, <3>2, WithdrawnSound DEF Typed
  <2> QED BY <2>1, <2>2 DEF BeginMessage
<1>2. RegistryTyped'
  BY DEF BeginMessage, Typed, registry, locations, RegistryTyped
<1>3. TraderTyped(trader')
  BY NewTraderTyped DEF BeginMessage
<1>4. holding' \in [Locations -> Nat]
  BY XcmAssumption DEF BeginMessage
<1>5. messages' \in 0 .. MaxMessages
  BY XcmAssumption DEF BeginMessage, Typed
<1>6. message' \in Messages
  BY XcmAssumption DEF BeginMessage, NewMessage, Nothing, Messages
<1> QED BY <1>1, <1>2, <1>3, <1>4, <1>5, <1>6 DEF Typed

\* A component after a purchase.
LEMMA BoughtIs ==
  ASSUME TraderTyped(trader), NEW k \in Components, NEW location \in Locations,
         NEW weight \in Nat, NEW fee \in Nat
  PROVE  Bought(trader[k], location, weight, fee) =
         [weight |-> trader[k].weight + weight, amount |-> trader[k].amount + fee,
          location |-> location]
<1> DEFINE P == Locations \cup {NewTrader[k].location}
           r == trader[k]
           heavier == [r EXCEPT !.weight = @ + weight]
           dearer == [heavier EXCEPT !.amount = @ + fee]
           moved == [dearer EXCEPT !.location = location]
<1>1. r \in [weight : Nat, amount : Nat, location : P]
  BY DEF TraderTyped
<1> HIDE DEF P, r
<1>2. heavier = [weight |-> r.weight + weight, amount |-> r.amount, location |-> r.location]
  BY <1>1
<1>3. Bought(r, location, weight, fee) = moved
  BY <1>2 DEF Bought
<1> HIDE DEF heavier
<1>4. dearer = [weight |-> r.weight + weight, amount |-> r.amount + fee,
                location |-> r.location]
  BY <1>2
<1> HIDE DEF dearer
<1>5. moved = [weight |-> r.weight + weight, amount |-> r.amount + fee,
               location |-> location]
  BY <1>4
<1> QED BY <1>3, <1>5 DEF r

\* A purchase: what a component asks for is at most what is held.
LEMMA BuyKeepsType ==
  ASSUME Typed, NEW location \in Locations, NEW weight \in Weights,
         BuyWeight(location, weight)
  PROVE  Typed'
<1>1. weight \in Nat /\ holding \in [Locations -> Nat] /\ RegistryTyped /\ TraderTyped(trader)
  BY XcmAssumption DEF Typed, BuyWeight
<1>2. PICK k \in Components :
        /\ Takes(k, location, holding[location], weight)
        /\ LET fee == FeeOf(k, location, weight)
           IN /\ trader' = IF fee = 0 THEN trader
                           ELSE [trader EXCEPT ![k] = Bought(@, location, weight, fee)]
              /\ holding' = [holding EXCEPT ![location] = @ - fee]
  BY DEF BuyWeight
<1> DEFINE fee == FeeOf(k, location, weight)
           bought == Bought(trader[k], location, weight, fee)
<1>3. fee \in Nat /\ fee <= holding[location]
  BY <1>1, <1>2, TakenFee
<1>4. /\ trader' = IF fee = 0 THEN trader ELSE [trader EXCEPT ![k] = bought]
      /\ holding' = [holding EXCEPT ![location] = @ - fee]
  BY <1>2
<1>5. /\ trader[k] \in [weight : Nat, amount : Nat, location : Locations \cup {NewTrader[k].location}]
      /\ DOMAIN trader = Components
  BY <1>1 DEF TraderTyped
<1>6. holding' \in [Locations -> Nat]
  <2> HIDE DEF fee
  <2> QED BY <1>1, <1>3, <1>4
<1>7. TraderTyped(trader')
  <2> HIDE DEF fee
  <2>1. /\ bought \in [weight : Nat, amount : Nat, location : Locations \cup {NewTrader[k].location}]
        /\ bought.location \in Locations
    <3>1. bought = [weight |-> trader[k].weight + weight, amount |-> trader[k].amount + fee,
                    location |-> location]
      BY <1>1, <1>3, BoughtIs
    <3> HIDE DEF bought
    <3>2. trader[k].weight + weight \in Nat /\ trader[k].amount + fee \in Nat
      BY <1>1, <1>3, <1>5
    <3> QED BY <3>1, <3>2
  <2> HIDE DEF bought
  <2>2. CASE fee = 0
    BY <1>1, <1>4, <2>2
  <2>3. CASE fee # 0
    <3>1. /\ DOMAIN trader' = Components /\ trader'[k] = bought
          /\ \A j \in Components \ {k} : trader'[j] = trader[j]
      BY <1>4, <1>5, <2>3
    <3> QED BY <1>1, <2>1, <3>1 DEF TraderTyped
  <2> QED BY <2>2, <2>3
<1>8. RegistryTyped'
  BY <1>1 DEF BuyWeight, registry, locations, RegistryTyped
<1>9. message' \in Messages
  <2>1. /\ message \in Messages /\ message.purchases < MaxPurchases /\ MaxPurchases \in Nat
        /\ message' = [message EXCEPT !.purchases = @ + 1]
    BY XcmAssumption DEF BuyWeight, Typed
  <2> QED BY <2>1 DEF Messages
<1> QED BY <1>6, <1>7, <1>8, <1>9 DEF BuyWeight, Typed

\* What a component gives back, and what is left of it: never more weight than
\* it sold, and at no time less than nothing.
LEMMA RefundTyped ==
  ASSUME RegistryTyped, TraderTyped(trader), NEW k \in Components, NEW weight \in Nat
  PROVE  /\ RefundedWeight(k, weight) \in Nat
         /\ RefundedWeight(k, weight) <= trader[k].weight
         /\ RefundOf(k, weight) \in Nat
         /\ LET left == Refunded(k, weight)
            IN /\ left \in [weight : Nat, amount : Nat,
                            location : Locations \cup {NewTrader[k].location}]
               /\ left.location = trader[k].location
               /\ left.amount <= trader[k].amount
               /\ left = IF CanRefund(k)
                         THEN [weight |-> trader[k].weight - RefundedWeight(k, weight),
                               amount |-> SaturatingSub(trader[k].amount,
                                                        RefundOf(k, weight)),
                               location |-> trader[k].location]
                         ELSE trader[k]
<1>1. trader[k] \in [weight : Nat, amount : Nat, location : Locations \cup {NewTrader[k].location}]
  BY DEF TraderTyped
<1>2. RefundedWeight(k, weight) \in Nat /\ RefundedWeight(k, weight) <= trader[k].weight
  BY <1>1 DEF RefundedWeight, MinOf
<1>3. RefundOf(k, weight) \in Nat
  <2>1. CASE ~CanRefund(k)
    BY <2>1 DEF RefundOf
  <2>2. CASE CanRefund(k)
    <3>1. k = AssetComponent => HasMultiple(trader[k].location)
      BY <2>2 DEF CanRefund
    <3>2. FeeOf(k, trader[k].location, RefundedWeight(k, weight)) \in Nat
      BY <1>2, <3>1, FeeNat
    <3> QED BY <2>2, <3>2 DEF RefundOf
  <2> QED BY <2>1, <2>2
<1> DEFINE sold == RefundedWeight(k, weight)
           given == RefundOf(k, weight)
           left == Refunded(k, weight)
           lighter == [trader[k] EXCEPT !.weight = @ - sold]
           cheaper == [lighter EXCEPT !.amount = SaturatingSub(trader[k].amount, given)]
<1>4. /\ lighter = [weight |-> trader[k].weight - sold, amount |-> trader[k].amount,
                    location |-> trader[k].location]
      /\ left = IF CanRefund(k) THEN cheaper ELSE trader[k]
  <2> HIDE DEF sold, given
  <2>1. lighter = [weight |-> trader[k].weight - sold, amount |-> trader[k].amount,
                   location |-> trader[k].location]
    BY <1>1
  <2>2. left = IF CanRefund(k) THEN cheaper ELSE trader[k]
    BY <2>1 DEF Refunded, sold, given
  <2> QED BY <2>1, <2>2
<1> HIDE DEF sold, given, left, lighter
<1>5. /\ left \in [weight : Nat, amount : Nat, location : Locations \cup {NewTrader[k].location}]
      /\ left.location = trader[k].location /\ left.amount <= trader[k].amount
      /\ left = IF CanRefund(k)
                THEN [weight |-> trader[k].weight - sold,
                      amount |-> SaturatingSub(trader[k].amount, given),
                      location |-> trader[k].location]
                ELSE trader[k]
  <2>1. sold \in Nat /\ sold <= trader[k].weight /\ given \in Nat
    BY <1>2, <1>3 DEF sold, given
  <2>2. /\ trader[k].weight - sold \in Nat
        /\ SaturatingSub(trader[k].amount, given) \in Nat
        /\ SaturatingSub(trader[k].amount, given) <= trader[k].amount
    BY <1>1, <2>1 DEF SaturatingSub
  <2>3. cheaper = [weight |-> trader[k].weight - sold,
                   amount |-> SaturatingSub(trader[k].amount, given),
                   location |-> trader[k].location]
    BY <1>4
  <2> HIDE DEF cheaper
  <2>4. left = IF CanRefund(k)
               THEN [weight |-> trader[k].weight - sold,
                     amount |-> SaturatingSub(trader[k].amount, given),
                     location |-> trader[k].location]
               ELSE trader[k]
    BY <1>4, <2>3
  <2> QED BY <1>1, <2>2, <2>4
<1> QED BY <1>2, <1>3, <1>5 DEF left, sold, given

\* The first of the components that give something back.
LEMMA FirstIn ==
  ASSUME NEW S, S \subseteq Components, S # {}
  PROVE  Min(S) \in S /\ \A n \in S : Min(S) <= n
<1>1. S \subseteq Nat
  BY RatesAre
<1>2. \E n \in S : \A m \in S : n <= m
  BY <1>1, LeastNumber
<1> QED BY <1>2 DEF Min

LEMMA RefundKeepsType ==
  ASSUME Typed, NEW weight \in Weights, RefundWeight(weight)
  PROVE  Typed'
<1>1. weight \in Nat /\ holding \in [Locations -> Nat] /\ RegistryTyped /\ TraderTyped(trader)
  BY XcmAssumption DEF Typed, RefundWeight
<1> DEFINE giving == {k \in Components : RefundOf(k, weight) > 0}
           last == IF giving = {} THEN AssetComponent ELSE Min(giving)
<1>2. /\ trader' = [k \in Components |-> IF k <= last THEN Refunded(k, weight) ELSE trader[k]]
      /\ holding' = IF giving = {} THEN holding
                    ELSE [holding EXCEPT ![trader[last].location] = @ + RefundOf(last, weight)]
  BY DEF RefundWeight
<1>3. TraderTyped(trader')
  <2> HIDE DEF last
  <2>1. \A k \in Components : \/ trader'[k] = Refunded(k, weight)
                               \/ trader'[k] = trader[k]
    BY <1>2
  <2>2. DOMAIN trader' = Components
    BY <1>2
  <2>3. ASSUME NEW k \in Components
        PROVE  /\ trader'[k] \in [weight : Nat, amount : Nat,
                                  location : Locations \cup {NewTrader[k].location}]
               /\ trader'[k].amount > 0 => trader'[k].location \in Locations
    <3>1. /\ trader[k] \in [weight : Nat, amount : Nat,
                             location : Locations \cup {NewTrader[k].location}]
          /\ trader[k].amount > 0 => trader[k].location \in Locations
      BY <1>1 DEF TraderTyped
    <3> DEFINE left == Refunded(k, weight)
    <3>2. /\ left \in [weight : Nat, amount : Nat,
                        location : Locations \cup {NewTrader[k].location}]
          /\ left.location = trader[k].location /\ left.amount <= trader[k].amount
      BY <1>1, RefundTyped
    <3>3. trader'[k] = left \/ trader'[k] = trader[k]
      BY <2>1
    <3> HIDE DEF left
    <3> QED BY <3>1, <3>2, <3>3
  <2> QED BY <2>2, <2>3 DEF TraderTyped
<1>4. holding' \in [Locations -> Nat]
  <2>1. CASE giving = {}
    BY <1>1, <1>2, <2>1
  <2>2. CASE giving # {}
    <3>1. last \in giving
      BY <2>2, FirstIn
    <3>2. RefundOf(last, weight) \in Nat
      BY <1>1, <3>1, RefundTyped
    <3>3. holding' = [holding EXCEPT ![trader[last].location] = @ + RefundOf(last, weight)]
      BY <1>2, <2>2
    <3> DEFINE place == trader[last].location
               given == RefundOf(last, weight)
    <3>4. given \in Nat /\ holding' = [holding EXCEPT ![place] = @ + given]
      BY <3>2, <3>3
    <3> HIDE DEF place, given
    <3>5. holding' = [l \in Locations |->
                        IF l = place THEN holding[l] + given ELSE holding[l]]
      BY <1>1, <3>4
    <3>6. \A l \in Locations : holding[l] + given \in Nat /\ holding[l] \in Nat
      BY <1>1, <3>4
    <3> QED BY <3>5, <3>6
  <2> QED BY <2>1, <2>2
<1>5. RegistryTyped'
  BY <1>1 DEF RefundWeight, registry, locations, RegistryTyped
<1> QED BY <1>3, <1>4, <1>5 DEF RefundWeight, Typed

LEMMA DeliverKeepsType ==
  ASSUME Typed, NEW location \in Locations, NEW who \in Beneficiaries,
         DeliverAsset(location, who)
  PROVE  Typed'
<1>1. /\ holding \in [Locations -> Nat] /\ RegistryTyped /\ message \in Messages
      /\ Sound(ledger) /\ holding[location] \in Nat
  BY DEF Typed
<1> DEFINE amount == holding[location]
           c == CurrencyOf(location)
<1>2. Sound(ledger')
  <2>1. who \in Accounts /\ Treasury \in Accounts
    BY XcmAssumption
  <2>2. c \in CurrencyIds \cup {None}
    BY <1>1, CurrencyAt
  <2>3. ledger' \in {ledger, Deposit(ledger, c, who, amount), Deposit(ledger, c, Treasury, amount)}
        /\ (c = None => ledger' = ledger)
    BY DEF DeliverAsset, DepositAsset, DepositOrTreasury
  <2> HIDE DEF amount, c
  <2>4. amount \in Nat
    BY <1>1 DEF amount
  <2>5. c \in CurrencyIds => /\ Sound(Deposit(ledger, c, who, amount))
                             /\ Sound(Deposit(ledger, c, Treasury, amount))
    BY <1>1, <2>1, <2>4, DepositKeepsSound
  <2> QED BY <1>1, <2>2, <2>3, <2>5
<1>3. holding' \in [Locations -> Nat]
  BY <1>1 DEF DeliverAsset
<1>4. message' \in Messages
  <2>1. message' = [message EXCEPT !.delivered[location] = @ + amount]
    BY DEF DeliverAsset
  <2>2. message.delivered \in [Locations -> Nat]
    BY <1>1 DEF Messages
  <2> DEFINE delivered == [message.delivered EXCEPT ![location] = @ + amount]
  <2>3. delivered \in [Locations -> Nat]
    BY <1>1, <2>2
  <2>4. message' = [message EXCEPT !.delivered = delivered]
    BY <1>1, <2>1 DEF Messages
  <2> HIDE DEF delivered
  <2> QED BY <1>1, <2>3, <2>4 DEF Messages
<1>5. RegistryTyped'
  BY <1>1 DEF DeliverAsset, registry, locations, RegistryTyped
<1> QED BY <1>2, <1>3, <1>4, <1>5 DEF DeliverAsset, Typed

LEMMA EndKeepsType ==
  ASSUME Typed, EndMessage
  PROVE  Typed'
<1>1. Sound(ledger')
  BY DroppedFolds DEF EndMessage, Typed
<1>2. RegistryTyped'
  BY DEF EndMessage, Typed, registry, locations, RegistryTyped
<1>3. Nothing \in [Locations -> Nat]
  BY DEF Nothing
<1>4. NewMessage(Nothing) \in Messages
  BY <1>3, XcmAssumption DEF NewMessage, Messages
<1> QED BY <1>1, <1>2, <1>3, <1>4 DEF EndMessage, Typed

LEMMA NextTyped == Typed /\ [Next]_vars => Typed'
<1> SUFFICES ASSUME Typed, [Next]_vars
             PROVE  Typed'
  OBVIOUS
<1>1. CASE Transact
  <2>1. RegistryTyped'
    BY <1>1, RegistryKeepsType DEF Transact, Typed
  <2>2. message' \in Messages
    <3>1. message \in Messages /\ message' = [message EXCEPT !.transacted = trader # <<>>]
      BY <1>1 DEF Transact, Typed
    <3>2. (trader # <<>>) \in BOOLEAN
      OBVIOUS
    <3> QED BY <3>1, <3>2 DEF Messages
  <2> QED BY <1>1, <2>1, <2>2 DEF Transact, Typed
<1>2. CASE \E origin \in Origins, arrived \in Arrivals : BeginMessage(origin, arrived)
  BY <1>2, BeginKeepsType
<1>3. CASE \E location \in Locations, weight \in Weights : BuyWeight(location, weight)
  BY <1>3, BuyKeepsType
<1>4. CASE \E weight \in Weights : RefundWeight(weight)
  BY <1>4, RefundKeepsType
<1>5. CASE \E location \in Locations, who \in Beneficiaries : DeliverAsset(location, who)
  BY <1>5, DeliverKeepsType
<1>6. CASE EndMessage
  BY <1>6, EndKeepsType
<1>7. CASE UNCHANGED vars
  BY <1>7 DEF vars, registry, locations, RegistryTyped, Typed
<1> QED BY <1>1, <1>2, <1>3, <1>4, <1>5, <1>6, <1>7 DEF Next

LEMMA TypedAlways == Spec => []Typed
<1> QED BY InitTyped, NextTyped, PTL DEF Spec

\* The ledger stays one, what a message holds and its trader keeps stay amounts,
\* and components keep only what was paid at a location (message.rs, trader.rs).
THEOREM TypesStay == Spec => []TypeOK
<1> QED BY TypedAlways, TypedIsType, PTL DEF Spec

-----------------------------------------------------------------------------
(* The books of a message whose fees add up. A purchase charges one         *)
(* component, which keeps enough to give back what it sold: the fees of two *)
(* parts of a weight, each rounded down, are no more than the whole's.      *)

LEMMA DivPlus ==
  ASSUME NEW a \in Nat, NEW b \in Nat, NEW d \in Nat \ {0}
  PROVE  (a \div d) + (b \div d) <= (a + b) \div d
OBVIOUS

LEMMA ProductGrows == \A r, a, b \in Nat : a <= b => r * a <= r * b
OBVIOUS

LEMMA ProductPlus == \A r, a, b \in Nat : r * (a + b) = r * a + r * b
OBVIOUS

\* Weight that is nothing costs nothing.
LEMMA FeeNothing ==
  ASSUME RegistryTyped, NEW k \in Components, NEW l, k = AssetComponent => HasMultiple(l)
  PROVE  FeeOf(k, l, 0) = 0
<1>1. WeightPerSecond \in Nat \ {0} /\ U128 \in Nat \ {0}
  BY XcmAssumption
<1>2. 0 % U128 = 0 /\ 0 \div WeightPerSecond = 0 /\ \A n \in Nat : n * 0 = 0
  BY <1>1
<1>3. CASE k = AssetComponent
  <2> DEFINE rate == (KsmPerSecond * MultipleAt(l)) % U128
  <2>1. rate \in Nat
    BY <1>1, <1>3, MultipleNat, RatesAre, ProductNat, ModNat
  <2>2. FeeOf(k, l, 0) = ((rate * 0) % U128) \div WeightPerSecond
    BY <1>3 DEF FeeOf, AssetFee
  <2> HIDE DEF rate
  <2> QED BY <1>2, <2>1, <2>2
<1>4. CASE k # AssetComponent
  <2>1. k \in 1 .. 9
    BY <1>4, RatesAre
  <2>2. FixedRates[k].rate * 0 = 0
    BY <1>2, <2>1, RatesAre
  <2> QED BY <1>2, <1>4, <2>2 DEF FeeOf, FixedFee
<1> QED BY <1>3, <1>4

\* A purchase at l of which no product wraps.
Unwrapped(k, l, weight) ==
  k = AssetComponent => HasMultiple(l) /\ KsmPerSecond * MultipleAt(l) * weight < U128

\* Then the fee of the asset is that of a fixed rate.
LEMMA AssetFeePlain ==
  ASSUME RegistryTyped, NEW l, NEW weight \in Nat \ {0}, Unwrapped(AssetComponent, l, weight),
         NEW part \in Nat, part <= weight
  PROVE  AssetFee(l, part) = (KsmPerSecond * MultipleAt(l) * part) \div WeightPerSecond
<1> DEFINE rate == KsmPerSecond * MultipleAt(l)
<1>1. rate \in Nat /\ U128 \in Nat \ {0}
  BY MultipleNat, RatesAre, ProductNat, XcmAssumption DEF Unwrapped
<1>2. rate * weight < U128
  BY DEF Unwrapped
<1> HIDE DEF rate
<1>3. rate * 1 <= rate * weight /\ rate * part <= rate * weight
  BY <1>1, ProductGrows
<1>4. rate < U128 /\ rate * part < U128 /\ rate * part \in Nat /\ rate * weight \in Nat
  BY <1>1, <1>2, <1>3, ProductNat
<1>5. rate % U128 = rate /\ (rate * part) % U128 = rate * part
  BY <1>1, <1>4, ModNat
<1>6. AssetFee(l, part) = (((rate % U128) * part) % U128) \div WeightPerSecond
  BY DEF AssetFee, rate
<1>7. AssetFee(l, part) = (rate * part) \div WeightPerSecond
  BY <1>5, <1>6
<1> QED BY <1>7 DEF rate

\* The parts of a weight cost no more than the whole.
LEMMA FeeSplits ==
  ASSUME RegistryTyped, NEW k \in Components, NEW l, NEW sold \in Nat, NEW left \in Nat,
         Unwrapped(k, l, sold + left)
  PROVE  FeeOf(k, l, sold) + FeeOf(k, l, left) <= FeeOf(k, l, sold + left)
<1>1. WeightPerSecond \in Nat \ {0}
  BY XcmAssumption
<1>2. ASSUME NEW rate \in Nat
      PROVE  ((rate * sold) \div WeightPerSecond) + ((rate * left) \div WeightPerSecond)
               <= (rate * (sold + left)) \div WeightPerSecond
  <2>1. rate * sold \in Nat /\ rate * left \in Nat /\ rate * (sold + left) = rate * sold + rate * left
    BY <1>2, ProductNat, ProductPlus
  <2> DEFINE a == rate * sold
             b == rate * left
  <2>2. a \in Nat /\ b \in Nat /\ rate * (sold + left) = a + b
    BY <2>1
  <2> HIDE DEF a, b
  <2>3. (a \div WeightPerSecond) + (b \div WeightPerSecond) <= (a + b) \div WeightPerSecond
    BY <1>1, <2>2, DivPlus
  <2>4. ((rate * sold) \div WeightPerSecond) + ((rate * left) \div WeightPerSecond)
          <= (a + b) \div WeightPerSecond
    BY <2>3 DEF a, b
  <2> QED BY <2>2, <2>4
<1>3. CASE sold + left = 0
  <2>1. sold = 0 /\ left = 0
    BY <1>3
  <2> QED BY <2>1, FeeNothing DEF Unwrapped
<1>4. CASE k = AssetComponent /\ sold + left # 0
  <2> DEFINE rate == KsmPerSecond * MultipleAt(l)
  <2>1. sold + left \in Nat \ {0} /\ sold <= sold + left /\ left <= sold + left
    BY <1>4
  <2>2. /\ AssetFee(l, sold) = (rate * sold) \div WeightPerSecond
        /\ AssetFee(l, left) = (rate * left) \div WeightPerSecond
        /\ AssetFee(l, sold + left) = (rate * (sold + left)) \div WeightPerSecond
    BY <1>4, <2>1, AssetFeePlain
  <2>3. rate \in Nat
    BY <1>4, MultipleNat, RatesAre, ProductNat DEF Unwrapped
  <2> HIDE DEF rate
  <2>4. AssetFee(l, sold) + AssetFee(l, left) <= AssetFee(l, sold + left)
    BY <1>2, <2>2, <2>3
  <2> QED BY <1>4, <2>4 DEF FeeOf
<1>5. CASE k # AssetComponent
  <2> DEFINE rate == FixedRates[k].rate
  <2>1. rate \in Nat
    BY <1>5, RatesAre
  <2>2. /\ FeeOf(k, l, sold) = (rate * sold) \div WeightPerSecond
        /\ FeeOf(k, l, left) = (rate * left) \div WeightPerSecond
        /\ FeeOf(k, l, sold + left) = (rate * (sold + left)) \div WeightPerSecond
    BY <1>5 DEF FeeOf, FixedFee
  <2> HIDE DEF rate
  <2> QED BY <1>2, <2>1, <2>2
<1> QED BY <1>3, <1>4, <1>5

\* What component k keeps that was paid at l.
KeptAt(k, l) == IF trader[k].location = l THEN trader[k].amount ELSE 0

\* What component k keeps covers the weight it sold and has not taken back.
Covered(k) ==
  trader[k].weight > 0 =>
    /\ trader[k].location \in Locations
    /\ Unwrapped(k, trader[k].location, trader[k].weight)
    /\ FeeOf(k, trader[k].location, trader[k].weight) <= trader[k].amount

\* The fees are in component k's books: it alone sold weight.
Books(k) ==
  /\ \A j \in Components \ {k} : trader[j].weight = 0 /\ trader[j].amount = 0
  /\ Covered(k)
  /\ message.purchases = 0 => trader[k].weight = 0 /\ trader[k].amount = 0
  /\ \A l \in Locations : message.arrived[l] = holding[l] + message.delivered[l] + KeptAt(k, l)

FeeBooks == trader # <<>> /\ Plain => \E k \in Components : Books(k)

\* The amounts that the books are about.
LEMMA MessageTyped ==
  ASSUME Typed
  PROVE  /\ message.purchases \in Nat
         /\ message.arrived \in [Locations -> Nat]
         /\ message.delivered \in [Locations -> Nat]
         /\ holding \in [Locations -> Nat]
<1>1. Nothing \in [Locations -> Nat] /\ Arrivals \subseteq [Locations -> Nat]
  BY XcmAssumption DEF Nothing
<1>2. message.arrived \in Arrivals \cup {Nothing} /\ message.purchases \in 0 .. MaxPurchases
  BY DEF Typed, Messages
<1>3. message.purchases \in Nat
  BY <1>2, XcmAssumption
<1> QED BY <1>1, <1>2, <1>3 DEF Typed, Messages

LEMMA BeginBooks ==
  ASSUME Typed, NEW origin \in Origins, NEW arrived \in Arrivals,
         BeginMessage(origin, arrived)
  PROVE  FeeBooks'
<1>1. /\ trader' = NewTrader /\ holding' = arrived /\ message' = NewMessage(arrived)
      /\ arrived \in [Locations -> Nat]
  BY XcmAssumption DEF BeginMessage
<1>2. /\ message'.arrived = arrived
      /\ \A l \in Locations : message'.delivered[l] = 0
  BY <1>1 DEF NewMessage, Nothing
<1>3. 1 \in Components /\ \A k \in Components : NewTrader[k].weight = 0 /\ NewTrader[k].amount = 0
  BY RatesAre DEF NewTrader
<1>4. \A l \in Locations : KeptAt(1, l)' = 0
  BY <1>1, <1>3 DEF KeptAt
<1>5. Books(1)'
  <2>1. \A l \in Locations :
          message'.arrived[l] = holding'[l] + message'.delivered[l] + KeptAt(1, l)'
    BY <1>1, <1>2, <1>4
  <2>2. \A k \in Components : trader'[k].weight = 0 /\ trader'[k].amount = 0
    BY <1>1, <1>3
  <2>3. Covered(1)'
    BY <1>3, <2>2 DEF Covered
  <2> QED BY <1>3, <2>1, <2>2, <2>3 DEF Books
<1> QED BY <1>3, <1>5 DEF FeeBooks

\* The first purchase: nothing was kept before, and the fee is kept after.
LEMMA BuyBooks ==
  ASSUME Typed, FeeBooks, NEW location \in Locations, NEW weight \in Weights,
         BuyWeight(location, weight)
  PROVE  FeeBooks'
<1> SUFFICES ASSUME Plain'
             PROVE  \E k \in Components : Books(k)'
  BY DEF FeeBooks
<1>1. /\ weight \in Nat \ {0} /\ holding \in [Locations -> Nat] /\ RegistryTyped
      /\ TraderTyped(trader) /\ message \in Messages /\ trader # <<>>
  BY XcmAssumption DEF Typed, BuyWeight
<1>2. /\ message' = [message EXCEPT !.purchases = @ + 1]
      /\ UNCHANGED registry
  BY DEF BuyWeight
<1>3. /\ message'.purchases = message.purchases + 1 /\ message'.transacted = message.transacted
      /\ message'.arrived = message.arrived /\ message'.delivered = message.delivered
  BY <1>1, <1>2 DEF Messages
<1>4. message.purchases = 0 /\ Plain
  <2>1. message.purchases \in Nat
    BY MessageTyped
  <2>2. NothingWraps
    BY <1>2 DEF Plain, NothingWraps, MultipleAt, registry, locations
  <2> QED BY <1>3, <2>1, <2>2 DEF Plain
<1>5. PICK j \in Components : Books(j)
  BY <1>1, <1>4 DEF FeeBooks
<1>6. \A i \in Components : trader[i].weight = 0 /\ trader[i].amount = 0
  BY <1>4, <1>5 DEF Books
<1>7. \A l \in Locations : message.arrived[l] = holding[l] + message.delivered[l]
  <2>1. \A l : KeptAt(j, l) = 0
    BY <1>6 DEF KeptAt
  <2>2. \A l \in Locations :
          message.arrived[l] = holding[l] + message.delivered[l] + KeptAt(j, l)
    BY <1>5 DEF Books
  <2>3. \A l \in Locations : holding[l] \in Nat /\ message.delivered[l] \in Nat
    BY MessageTyped
  <2> QED BY <2>1, <2>2, <2>3
<1>8. PICK k \in Components :
        /\ Takes(k, location, holding[location], weight)
        /\ LET fee == FeeOf(k, location, weight)
           IN /\ trader' = IF fee = 0 THEN trader
                           ELSE [trader EXCEPT ![k] = Bought(@, location, weight, fee)]
              /\ holding' = [holding EXCEPT ![location] = @ - fee]
  BY DEF BuyWeight
<1> DEFINE fee == FeeOf(k, location, weight)
           bought == Bought(trader[k], location, weight, fee)
<1>9. fee \in Nat /\ fee <= holding[location]
  BY <1>1, <1>8, TakenFee
<1>10. Unwrapped(k, location, weight)
  <2>1. k = AssetComponent => location \in DOMAIN LocationToCurrencyIds
    BY <1>8 DEF Takes, HasMultiple
  <2> QED BY <1>4, <2>1 DEF Plain, NothingWraps, Unwrapped, HasMultiple
<1>11. /\ trader' = IF fee = 0 THEN trader ELSE [trader EXCEPT ![k] = bought]
       /\ holding' = [holding EXCEPT ![location] = @ - fee]
  BY <1>8
<1>12. bought = [weight |-> weight, amount |-> fee, location |-> location]
  <2> HIDE DEF fee
  <2>1. bought = [weight |-> trader[k].weight + weight, amount |-> trader[k].amount + fee,
                  location |-> location]
    BY <1>1, <1>9, BoughtIs
  <2>2. trader[k].weight + weight = weight /\ trader[k].amount + fee = fee
    BY <1>1, <1>6, <1>9
  <2> HIDE DEF bought
  <2> QED BY <2>1, <2>2
<1>13. /\ \A i \in Components \ {k} : trader'[i].weight = 0 /\ trader'[i].amount = 0
       /\ fee = 0 => trader'[k].weight = 0 /\ trader'[k].amount = 0
       /\ fee # 0 => trader'[k] = bought
  <2>1. DOMAIN trader = Components
    BY <1>1 DEF TraderTyped
  <2> HIDE DEF fee, bought
  <2> QED BY <1>6, <1>11, <2>1
<1>14. trader'[k].weight > 0 =>
         /\ trader'[k].location = location /\ trader'[k].weight = weight
         /\ trader'[k].amount = fee
  <2> HIDE DEF fee, bought
  <2> QED BY <1>12, <1>13
<1>15. \A l \in Locations : KeptAt(k, l)' = IF l = location THEN fee ELSE 0
  <2> HIDE DEF fee, bought
  <2> QED BY <1>12, <1>13 DEF KeptAt
<1>16. \A l \in Locations :
         message'.arrived[l] = holding'[l] + message'.delivered[l] + KeptAt(k, l)'
  <2>1. \A l \in Locations : message'.arrived[l] = holding[l] + message'.delivered[l]
    BY <1>3, <1>7
  <2>2. \A l \in Locations : holding[l] \in Nat /\ message'.delivered[l] \in Nat
    BY <1>3, MessageTyped
  <2> HIDE DEF fee
  <2>3. \A l \in Locations :
          holding'[l] = IF l = location THEN holding[l] - fee ELSE holding[l]
    BY <1>1, <1>11
  <2> QED BY <1>9, <1>15, <2>1, <2>2, <2>3
<1>17. Covered(k)'
  <2>1. CASE ~(trader'[k].weight > 0)
    BY <2>1 DEF Covered
  <2>2. CASE trader'[k].weight > 0
    <3>1. /\ trader'[k].location = location /\ trader'[k].weight = weight
          /\ trader'[k].amount = fee
      BY <1>14, <2>2
    <3>2. UNCHANGED <<LocationToCurrencyIds, WeightRateMultiple>>
      BY <1>2 DEF registry, locations
    <3>3. Unwrapped(k, trader[k].location, trader[k].weight)'
      BY <1>10, <3>1, <3>2 DEF Unwrapped, HasMultiple, MultipleAt
    <3>4. FeeOf(k, trader[k].location, trader[k].weight)' = fee
      BY <3>1, <3>2 DEF FeeOf, AssetFee, FixedFee, MultipleAt
    <3> HIDE DEF fee
    <3> QED BY <1>9, <3>1, <3>3, <3>4 DEF Covered
  <2> QED BY <2>1, <2>2
<1>18. message'.purchases # 0
  BY <1>3, <1>4
<1>19. Books(k)'
  <2>1. /\ (\A i \in Components \ {k} : trader[i].weight = 0 /\ trader[i].amount = 0)'
        /\ (message.purchases = 0 => trader[k].weight = 0 /\ trader[k].amount = 0)'
    BY <1>13, <1>18
  <2> QED BY <1>16, <1>17, <2>1 DEF Books
<1> QED BY <1>19

\* A component that sold nothing gives nothing back.
LEMMA NothingRefunded ==
  ASSUME RegistryTyped, TraderTyped(trader), NEW k \in Components, NEW weight \in Nat,
         trader[k].weight = 0
  PROVE  /\ RefundOf(k, weight) = 0
         /\ Refunded(k, weight).weight = 0
         /\ Refunded(k, weight).amount = trader[k].amount
         /\ Refunded(k, weight).location = trader[k].location
<1> DEFINE left == Refunded(k, weight)
<1>1. /\ RefundedWeight(k, weight) = 0
      /\ left.location = trader[k].location /\ trader[k].amount \in Nat
      /\ left = IF CanRefund(k)
                THEN [weight |-> trader[k].weight - RefundedWeight(k, weight),
                      amount |-> SaturatingSub(trader[k].amount, RefundOf(k, weight)),
                      location |-> trader[k].location]
                ELSE trader[k]
  <2>1. RefundedWeight(k, weight) \in Nat /\ RefundedWeight(k, weight) <= trader[k].weight
    BY RefundTyped
  <2> QED BY <2>1, RefundTyped DEF TraderTyped
<1>2. RefundOf(k, weight) = 0
  <2>1. CASE CanRefund(k)
    <3>1. k = AssetComponent => HasMultiple(trader[k].location)
      BY <2>1 DEF CanRefund
    <3>2. FeeOf(k, trader[k].location, 0) = 0
      BY <3>1, FeeNothing
    <3> QED BY <1>1, <3>2 DEF RefundOf
  <2>2. CASE ~CanRefund(k)
    BY <2>2 DEF RefundOf
  <2> QED BY <2>1, <2>2
<1> HIDE DEF left
<1>3. left.weight = 0 /\ left.amount = trader[k].amount
  BY <1>1, <1>2 DEF SaturatingSub
<1> QED BY <1>1, <1>2, <1>3 DEF left

\* What is given back is out of what was kept, and the rest covers the weight
\* that is still sold.
LEMMA RefundCovered ==
  ASSUME RegistryTyped, TraderTyped(trader), NEW k \in Components, NEW weight \in Nat,
         Covered(k)
  PROVE  LET left == Refunded(k, weight)
             given == RefundOf(k, weight)
         IN /\ left.location = trader[k].location
            /\ given <= trader[k].amount /\ left.amount = trader[k].amount - given
            /\ given > 0 => trader[k].location \in Locations
            /\ left.weight > 0 =>
                 /\ left.location \in Locations
                 /\ Unwrapped(k, left.location, left.weight)
                 /\ FeeOf(k, left.location, left.weight) <= left.amount
<1> DEFINE left == Refunded(k, weight)
           given == RefundOf(k, weight)
           place == trader[k].location
           sold == RefundedWeight(k, weight)
           rest == trader[k].weight - sold
<1>1. trader[k].weight \in Nat /\ trader[k].amount \in Nat
  BY DEF TraderTyped
<1>2. CASE trader[k].weight = 0
  BY <1>1, <1>2, NothingRefunded
<1>3. CASE trader[k].weight # 0
  <2>1. /\ place \in Locations /\ Unwrapped(k, place, trader[k].weight)
        /\ FeeOf(k, place, trader[k].weight) <= trader[k].amount
    BY <1>1, <1>3 DEF Covered
  <2>2. CanRefund(k)
    BY <2>1, XcmAssumption DEF CanRefund, Unwrapped
  <2>3. sold \in Nat /\ sold <= trader[k].weight /\ given \in Nat
    BY RefundTyped
  <2>4. rest \in Nat /\ sold + rest = trader[k].weight
    BY <1>1, <2>3
  <2>5. given = FeeOf(k, place, sold)
    BY <2>2 DEF RefundOf
  <2>6. FeeOf(k, place, sold) + FeeOf(k, place, rest) <= FeeOf(k, place, sold + rest)
    <3> HIDE DEF place, sold, rest
    <3> QED BY <2>1, <2>3, <2>4, FeeSplits
  <2>7. FeeOf(k, place, rest) \in Nat /\ FeeOf(k, place, trader[k].weight) \in Nat
    <3>1. k = AssetComponent => HasMultiple(place)
      BY <2>1 DEF Unwrapped
    <3> HIDE DEF place, rest
    <3> QED BY <1>1, <2>4, <3>1, FeeNat
  <2>8. left = [weight |-> rest, amount |-> SaturatingSub(trader[k].amount, given),
                location |-> place]
    BY <2>2, RefundTyped
  <2>9. Unwrapped(k, place, rest)
    <3>1. CASE k = AssetComponent
      <4> DEFINE rate == KsmPerSecond * MultipleAt(place)
      <4>1. HasMultiple(place) /\ rate * trader[k].weight < U128
        BY <2>1, <3>1 DEF Unwrapped
      <4>2. rate \in Nat /\ U128 \in Nat
        BY <4>1, MultipleNat, RatesAre, ProductNat, XcmAssumption
      <4> HIDE DEF rate, place, sold
      <4>3. rest <= trader[k].weight
        BY <1>1, <2>3
      <4> HIDE DEF rest
      <4>4. rate * rest <= rate * trader[k].weight
        BY <1>1, <2>4, <4>2, <4>3, ProductGrows
      <4>5. rate * rest \in Nat /\ rate * trader[k].weight \in Nat
        BY <1>1, <2>4, <4>2, ProductNat
      <4>6. rate * rest < U128
        BY <4>1, <4>2, <4>4, <4>5
      <4> QED BY <4>1, <4>6 DEF Unwrapped, rate
    <3>2. CASE k # AssetComponent
      BY <3>2 DEF Unwrapped
    <3> QED BY <3>1, <3>2
  <2>10. given + FeeOf(k, place, rest) <= trader[k].amount
    <3>1. given + FeeOf(k, place, rest) <= FeeOf(k, place, trader[k].weight)
      BY <2>4, <2>5, <2>6
    <3> HIDE DEF given, place, rest
    <3> QED BY <1>1, <2>1, <2>3, <2>7, <3>1
  <2> HIDE DEF left, given, place, sold, rest
  <2>11. /\ left.location = place /\ left.weight = rest
         /\ left.amount = trader[k].amount - given
         /\ given <= trader[k].amount
         /\ FeeOf(k, place, rest) <= trader[k].amount - given
    BY <1>1, <2>3, <2>7, <2>8, <2>10 DEF SaturatingSub
  <2>12. /\ left.location \in Locations
         /\ Unwrapped(k, left.location, left.weight)
         /\ FeeOf(k, left.location, left.weight) <= left.amount
    BY <2>1, <2>9, <2>11
  <2> QED BY <2>1, <2>11, <2>12 DEF left, given, place
<1> QED BY <1>2, <1>3

LEMMA RefundBooks ==
  ASSUME Typed, FeeBooks, NEW weight \in Weights, RefundWeight(weight)
  PROVE  FeeBooks'
<1> SUFFICES ASSUME Plain'
             PROVE  \E k \in Components : Books(k)'
  BY DEF FeeBooks
<1>1. /\ weight \in Nat /\ holding \in [Locations -> Nat] /\ RegistryTyped
      /\ TraderTyped(trader) /\ trader # <<>>
  BY XcmAssumption DEF Typed, RefundWeight
<1>2. UNCHANGED <<message, LocationToCurrencyIds, WeightRateMultiple>>
  BY DEF RefundWeight, registry, locations
<1>3. Plain
  BY <1>2 DEF Plain, NothingWraps, MultipleAt
<1>4. PICK k \in Components : Books(k)
  BY <1>1, <1>3 DEF FeeBooks
<1> DEFINE giving == {i \in Components : RefundOf(i, weight) > 0}
           last == IF giving = {} THEN AssetComponent ELSE Min(giving)
           given == RefundOf(k, weight)
           place == trader[k].location
           left == Refunded(k, weight)
<1>5. /\ \A i \in Components \ {k} : trader[i].weight = 0 /\ trader[i].amount = 0
      /\ Covered(k)
      /\ message.purchases = 0 => trader[k].weight = 0 /\ trader[k].amount = 0
      /\ \A l \in Locations :
           message.arrived[l] = holding[l] + message.delivered[l] + KeptAt(k, l)
  BY <1>4 DEF Books
<1>6. \A i \in Components \ {k} : /\ RefundOf(i, weight) = 0
                                  /\ Refunded(i, weight).weight = 0
                                  /\ Refunded(i, weight).amount = 0
  BY <1>1, <1>5, NothingRefunded
<1>7. given \in Nat
  BY <1>1, RefundTyped
<1>8. /\ left.location = place
      /\ given <= trader[k].amount /\ left.amount = trader[k].amount - given
      /\ given > 0 => place \in Locations
      /\ left.weight > 0 =>
           /\ left.location \in Locations
           /\ Unwrapped(k, left.location, left.weight)
           /\ FeeOf(k, left.location, left.weight) <= left.amount
  BY <1>1, <1>5, RefundCovered
<1>9. giving = IF given > 0 THEN {k} ELSE {}
  BY <1>6, <1>7
<1>10. k <= last /\ (given > 0 => last = k)
  <2>1. CASE given > 0
    <3>1. Min(giving) \in giving
      BY <1>9, <2>1, FirstIn
    <3> HIDE DEF giving, given
    <3>2. last = k
      BY <1>9, <2>1, <3>1
    <3>3. k \in 1 .. 10
      BY RatesAre
    <3> QED BY <3>2, <3>3
  <2>2. CASE ~(given > 0)
    <3>1. last = AssetComponent
      BY <1>9, <2>2
    <3> QED BY <2>2, <3>1, RatesAre
  <2> QED BY <2>1, <2>2
<1>11. /\ trader' = [i \in Components |-> IF i <= last THEN Refunded(i, weight) ELSE trader[i]]
       /\ holding' = IF giving = {} THEN holding
                     ELSE [holding EXCEPT ![trader[last].location] = @ + RefundOf(last, weight)]
  BY DEF RefundWeight
<1>12. trader'[k] = left
  <2> HIDE DEF last
  <2> QED BY <1>10, <1>11
<1>13. \A i \in Components \ {k} : trader'[i].weight = 0 /\ trader'[i].amount = 0
  <2> HIDE DEF last
  <2>1. \A i \in Components : trader'[i] = Refunded(i, weight) \/ trader'[i] = trader[i]
    BY <1>11
  <2> QED BY <1>5, <1>6, <2>1
<1>14. \A l \in Locations :
         holding'[l] = holding[l] + (IF l = place THEN given ELSE 0)
  <2>1. CASE given > 0
    <3>1. holding' = [holding EXCEPT ![place] = @ + given]
      BY <1>9, <1>10, <1>11, <2>1
    <3> HIDE DEF place, given
    <3> QED BY <1>1, <1>7, <3>1
  <2>2. CASE ~(given > 0)
    <3>1. holding' = holding
      BY <1>9, <1>11, <2>2
    <3> HIDE DEF place, given
    <3> QED BY <1>1, <1>7, <2>2, <3>1
  <2> QED BY <2>1, <2>2
<1>15. Covered(k)'
  <2> HIDE DEF left
  <2>1. CASE ~(left.weight > 0)
    BY <1>12, <2>1 DEF Covered
  <2>2. CASE left.weight > 0
    <3>1. Unwrapped(k, trader[k].location, trader[k].weight)'
      BY <1>2, <1>8, <1>12, <2>2 DEF Unwrapped, HasMultiple, MultipleAt
    <3>2. FeeOf(k, trader[k].location, trader[k].weight)'
            = FeeOf(k, left.location, left.weight)
      BY <1>2, <1>12 DEF FeeOf, AssetFee, FixedFee, MultipleAt
    <3> QED BY <1>8, <1>12, <2>2, <3>1, <3>2 DEF Covered
  <2> QED BY <2>1, <2>2
<1>16. \A l \in Locations : KeptAt(k, l)' = IF l = place THEN trader[k].amount - given ELSE 0
  <2> HIDE DEF left, given, place
  <2> QED BY <1>8, <1>12 DEF KeptAt
<1>17. \A l \in Locations :
         message'.arrived[l] = holding'[l] + message'.delivered[l] + KeptAt(k, l)'
  <2>1. \A l \in Locations :
          message.arrived[l] =
            holding[l] + message.delivered[l] + (IF l = place THEN trader[k].amount ELSE 0)
    BY <1>5 DEF KeptAt
  <2>2. \A l \in Locations : holding[l] \in Nat /\ message.delivered[l] \in Nat
    BY MessageTyped
  <2>3. trader[k].amount \in Nat
    BY <1>1 DEF TraderTyped
  <2> HIDE DEF given, place, left
  <2> QED BY <1>2, <1>7, <1>14, <1>16, <2>1, <2>2, <2>3
<1>18. message'.purchases = 0 => trader'[k].weight = 0 /\ trader'[k].amount = 0
  <2>1. trader[k].weight = 0 /\ trader[k].amount = 0 => left.weight = 0 /\ left.amount = 0
    BY <1>1, NothingRefunded
  <2> HIDE DEF left
  <2> QED BY <1>2, <1>5, <1>12, <2>1
<1>19. Books(k)'
  BY <1>13, <1>15, <1>17, <1>18 DEF Books
<1> QED BY <1>19

LEMMA DeliverBooks ==
  ASSUME Typed, FeeBooks, NEW location \in Locations, NEW who \in Beneficiaries,
         DeliverAsset(location, who)
  PROVE  FeeBooks'
<1> SUFFICES ASSUME Plain'
             PROVE  \E k \in Components : Books(k)'
  BY DEF FeeBooks
<1> DEFINE amount == holding[location]
           delivered == [message.delivered EXCEPT ![location] = @ + amount]
<1>1. /\ holding \in [Locations -> Nat] /\ message.delivered \in [Locations -> Nat]
      /\ message \in Messages /\ trader # <<>>
  BY MessageTyped DEF DeliverAsset, Typed
<1>2. UNCHANGED <<trader, LocationToCurrencyIds, WeightRateMultiple>>
  BY DEF DeliverAsset, registry, locations
<1>3. /\ holding' = [holding EXCEPT ![location] = 0]
      /\ message' = [message EXCEPT !.delivered = delivered]
  BY <1>1 DEF DeliverAsset, Messages
<1>4. /\ message'.purchases = message.purchases /\ message'.transacted = message.transacted
      /\ message'.arrived = message.arrived /\ message'.delivered = delivered
  <2> HIDE DEF delivered
  <2> QED BY <1>1, <1>3 DEF Messages
<1>5. Plain
  BY <1>2, <1>4 DEF Plain, NothingWraps, MultipleAt
<1>6. PICK k \in Components : Books(k)
  BY <1>1, <1>5 DEF FeeBooks
<1>7. Covered(k)'
  BY <1>2, <1>6 DEF Books, Covered, Unwrapped, HasMultiple, FeeOf, AssetFee, FixedFee, MultipleAt
<1>8. \A l : KeptAt(k, l)' = KeptAt(k, l)
  BY <1>2 DEF KeptAt
<1>9. \A l \in Locations :
        /\ holding'[l] = IF l = location THEN 0 ELSE holding[l]
        /\ delivered[l] = message.delivered[l] + (IF l = location THEN amount ELSE 0)
  BY <1>1, <1>3
<1>10. \A l \in Locations :
         message'.arrived[l] = holding'[l] + message'.delivered[l] + KeptAt(k, l)'
  <2>1. \A l \in Locations :
          message.arrived[l] = holding[l] + message.delivered[l] + KeptAt(k, l)
    BY <1>6 DEF Books
  <2>2. \A l \in Locations : holding[l] \in Nat /\ message.delivered[l] \in Nat
    BY <1>1
  <2> HIDE DEF delivered
  <2>3. \A l \in Locations : holding'[l] + delivered[l] = holding[l] + message.delivered[l]
    BY <1>9, <2>2
  <2> QED BY <1>4, <1>8, <2>1, <2>3
<1>11. Books(k)'
  <2>1. (\A j \in Components \ {k} : trader[j].weight = 0 /\ trader[j].amount = 0)'
    BY <1>2, <1>6 DEF Books
  <2>2. (message.purchases = 0 => trader[k].weight = 0 /\ trader[k].amount = 0)'
    BY <1>2, <1>4, <1>6 DEF Books
  <2> QED BY <1>7, <1>10, <2>1, <2>2 DEF Books
<1> QED BY <1>11

LEMMA NextBooks == Typed /\ FeeBooks /\ [Next]_vars => FeeBooks'
<1> SUFFICES ASSUME Typed, FeeBooks, [Next]_vars
             PROVE  FeeBooks'
  OBVIOUS
<1>1. CASE Transact
  <2>1. message \in Messages
    BY DEF Typed
  <2>2. trader' = trader /\ message'.transacted = (trader # <<>>)
    BY <1>1, <2>1 DEF Transact, Messages
  <2> QED BY <2>2 DEF FeeBooks, Plain
<1>2. CASE \E origin \in Origins, arrived \in Arrivals : BeginMessage(origin, arrived)
  BY <1>2, BeginBooks
<1>3. CASE \E location \in Locations, weight \in Weights : BuyWeight(location, weight)
  BY <1>3, BuyBooks
<1>4. CASE \E weight \in Weights : RefundWeight(weight)
  BY <1>4, RefundBooks
<1>5. CASE \E location \in Locations, who \in Beneficiaries : DeliverAsset(location, who)
  BY <1>5, DeliverBooks
<1>6. CASE EndMessage
  BY <1>6 DEF EndMessage, FeeBooks
<1>7. CASE UNCHANGED vars
  BY <1>7 DEF vars, registry, locations, FeeBooks, Plain, NothingWraps, Books, Covered,
              KeptAt, Unwrapped, HasMultiple, FeeOf, AssetFee, FixedFee, MultipleAt
<1> QED BY <1>1, <1>2, <1>3, <1>4, <1>5, <1>6, <1>7 DEF Next

\* What is held by the components is held by the one of the books.
LEMMA BooksHold ==
  ASSUME TraderTyped(trader), NEW k \in Components, Books(k), NEW l
  PROVE  Held(l) = KeptAt(k, l)
<1> DEFINE f == [j \in DOMAIN trader |-> IF trader[j].location = l THEN trader[j].amount ELSE 0]
<1>1. DOMAIN trader = Components /\ IsFiniteSet(Components)
  BY ComponentsFinite DEF TraderTyped
<1>2. Held(l) = SumFunctionOnSet(f, Components)
  BY <1>1 DEF Held, SumFunction
<1>3. \A j \in Components : f[j] \in Int
  BY <1>1 DEF TraderTyped
<1>4. f[k] = KeptAt(k, l) /\ \A j \in Components \ {k} : f[j] = 0
  BY <1>1 DEF KeptAt, Books
<1> HIDE DEF f
<1>5. SumFunctionOnSet(f, Components) = f[k] + SumFunctionOnSet(f, Components \ {k})
  BY <1>1, <1>3, SumElement DEF IntegerOn
<1>6. SumFunctionOnSet(f, Components \ {k}) = 0
  <2>1. IsFiniteSet(Components \ {k})
    BY <1>1, FS_Subset
  <2> QED BY <1>4, <2>1, SumZeros
<1>7. f[k] \in Int
  BY <1>3
<1> QED BY <1>2, <1>4, <1>5, <1>6, <1>7

LEMMA BooksConserve == Typed /\ FeeBooks => FeesConserved
<1> SUFFICES ASSUME Typed, FeeBooks, trader # <<>>, Plain, NEW l \in Locations
             PROVE  message.arrived[l] = holding[l] + message.delivered[l] + Held(l)
  BY DEF FeesConserved
<1>1. PICK k \in Components : Books(k)
  BY DEF FeeBooks
<1>2. Held(l) = KeptAt(k, l)
  BY <1>1, BooksHold DEF Typed
<1> QED BY <1>1, <1>2 DEF Books

LEMMA BooksAlways == Spec => [](Typed /\ FeeBooks)
<1>1. Init => Typed /\ FeeBooks
  BY InitTyped DEF Init, FeeBooks
<1>2. Typed /\ FeeBooks /\ [Next]_vars => Typed' /\ FeeBooks'
  BY NextTyped, NextBooks
<1> QED BY <1>1, <1>2, PTL DEF Spec

\* What arrives with a message is delivered, held or kept as a fee, whatever it
\* buys and however often it is refunded (trader.rs: buy_weight, refund_weight).
THEOREM FeesAlwaysConserved == Spec => []FeesConserved
<1> QED BY BooksAlways, BooksConserve, PTL

-----------------------------------------------------------------------------
(* Money that is delivered, and revenue, arrive on the ledger.             *)

\* What account a has of asset c.
BalanceOf(l, c, a) == IF c = Native THEN NativeBalance(l, a) ELSE TokenBalance(l, c, a)

\* A deposit arrives at its account alone, or is native money too little to open
\* the account and gets lost.
LEMMA DepositAdds ==
  ASSUME NEW l, Sound(l), NEW c \in CurrencyIds, NEW a \in Accounts, NEW amount \in Nat \ {0}
  PROVE  LET m == Deposit(l, c, a, amount)
         IN /\ \A b \in Accounts : BalanceOf(l, c, b) \in Nat /\ BalanceOf(m, c, b) \in Nat
            /\ \/ /\ BalanceOf(m, c, a) = BalanceOf(l, c, a) + amount
                  /\ \A b \in Accounts \ {a} : BalanceOf(m, c, b) = BalanceOf(l, c, b)
               \/ c = Native /\ m = l /\ BalanceOf(l, c, a) = 0 /\ amount < NativeED
<1> DEFINE m == Deposit(l, c, a, amount)
<1>1. Sound(m)
  BY DepositSound
<1>2. /\ l.balances \in [Accounts -> Nat] /\ m.balances \in [Accounts -> Nat]
      /\ \A b \in Accounts : TokenBalance(l, c, b) \in Nat /\ TokenBalance(m, c, b) \in Nat
  <2> HIDE DEF m
  <2> QED BY <1>1, TokenBalanceType DEF Sound, Kept, Ledgers
<1>3. \A b \in Accounts : BalanceOf(l, c, b) \in Nat /\ BalanceOf(m, c, b) \in Nat
  <2> HIDE DEF m
  <2> QED BY <1>2 DEF BalanceOf, NativeBalance
<1>4. CASE c # Native
  <2>1. Stores(l, m, c, a, TokenBalance(l, c, a) + amount)
    BY <1>4, DepositSound
  <2> HIDE DEF m
  <2>2. /\ TokenBalance(m, c, a) = TokenBalance(l, c, a) + amount
        /\ \A b \in Accounts \ {a} : TokenBalance(m, c, b) = TokenBalance(l, c, b)
    BY <2>1 DEF Stores
  <2>3. /\ BalanceOf(m, c, a) = BalanceOf(l, c, a) + amount
        /\ \A b \in Accounts \ {a} : BalanceOf(m, c, b) = BalanceOf(l, c, b)
    BY <1>4, <2>2 DEF BalanceOf
  <2> QED BY <1>3, <2>3 DEF m
<1>5. CASE c = Native /\ l.balances[a] = 0 /\ amount < NativeED
  <2>1. m = l
    BY <1>5 DEF Deposit, NativeDeposit
  <2>2. BalanceOf(l, c, a) = 0
    BY <1>5 DEF BalanceOf, NativeBalance
  <2> HIDE DEF m
  <2> QED BY <1>3, <1>5, <2>1, <2>2 DEF m
<1>6. CASE c = Native /\ ~(l.balances[a] = 0 /\ amount < NativeED)
  <2> DEFINE total == l.balances[a] + amount
  <2>1. m = SetNative(l, a, total)
    BY <1>6 DEF Deposit, NativeDeposit
  <2>2. NativeED \in Nat /\ (l.balances[a] = 0 \/ l.balances[a] >= NativeED)
    BY LedgerAssumption DEF Sound, Kept, Backed
  <2>3. total \in Nat /\ total >= NativeED
    BY <1>2, <1>6, <2>2
  <2> HIDE DEF m, total
  <2>4. m.balances = [l.balances EXCEPT ![a] = total]
    <3>1. TokenAccounts(l) \in [CurrencyIds -> Nat] /\ Kept(l, TokenAccounts(l))
      BY SameTokens
    <3>2. m.balances = [l.balances EXCEPT ![a] = IF total >= NativeED THEN total ELSE 0]
      BY <2>1, <2>3, <3>1, SetNativeKeeps
    <3> QED BY <2>3, <3>2
  <2>5. /\ m.balances[a] = l.balances[a] + amount
        /\ \A b \in Accounts \ {a} : m.balances[b] = l.balances[b]
    BY <1>2, <2>4 DEF total
  <2>6. /\ BalanceOf(m, c, a) = BalanceOf(l, c, a) + amount
        /\ \A b \in Accounts \ {a} : BalanceOf(m, c, b) = BalanceOf(l, c, b)
    BY <1>6, <2>5 DEF BalanceOf, NativeBalance
  <2> QED BY <1>3, <2>6 DEF m
<1> QED BY <1>4, <1>5, <1>6

\* So the supply of the asset grows by what was deposited.
LEMMA SupplyGrows ==
  ASSUME Sound(ledger), NEW c \in CurrencyIds, NEW a \in Accounts, NEW amount \in Nat \ {0},
         ledger' = Deposit(ledger, c, a, amount)
  PROVE  \/ Supply(c)' = Supply(c) + amount
         \/ c = Native /\ Supply(c)' = Supply(c) /\ amount < NativeED
<1> DEFINE f == [b \in Accounts |-> BalanceOf(ledger, c, b)]
           g == [b \in Accounts |-> BalanceOf(ledger', c, b)]
<1>1. Supply(c) = SumFunctionOnSet(f, Accounts)
  BY DEF Supply, SumFunction, BalanceOf
<1>2. Supply(c)' = SumFunctionOnSet(g, Accounts)
  BY DEF Supply, SumFunction, BalanceOf
<1>3. IsFiniteSet(Accounts)
  BY LedgerAssumption
<1>4. \A b \in Accounts : f[b] \in Nat /\ g[b] \in Nat
  BY DepositAdds
<1>5. \/ f[a] + amount = g[a] /\ \A b \in Accounts \ {a} : g[b] = f[b]
      \/ c = Native /\ ledger' = ledger /\ amount < NativeED
  BY DepositAdds
<1>6. CASE c = Native /\ ledger' = ledger /\ amount < NativeED
  <2>1. Supply(c)' = Supply(c)
    BY <1>1, <1>2, <1>6
  <2> QED BY <1>6, <2>1
<1>7. CASE f[a] + amount = g[a] /\ \A b \in Accounts \ {a} : g[b] = f[b]
  <2> HIDE DEF f, g
  <2>1. SumFunctionOnSet(g, Accounts) = SumFunctionOnSet(f, Accounts) - f[a] + g[a]
    BY <1>3, <1>4, <1>7, SumUpdate DEF IntegerOn
  <2>2. SumFunctionOnSet(f, Accounts) \in Int
    BY <1>3, <1>4, SumInt DEF IntegerOn
  <2> QED BY <1>1, <1>2, <1>4, <1>7, <2>1, <2>2
<1> QED BY <1>5, <1>6, <1>7

Arrives ==
  \A l \in Locations, c \in CurrencyIds :
    LET delivered == (message.delivered[l])' - message.delivered[l]
    IN trader' # <<>> /\ delivered > 0 /\ CurrencyOf(l) = c =>
         \/ Supply(c)' = Supply(c) + delivered
         \/ c = Native /\ Supply(c)' = Supply(c) /\ delivered < NativeED

LEMMA NextArrives == Typed /\ [Next]_vars => Arrives
<1> SUFFICES ASSUME Typed, [Next]_vars, NEW l \in Locations, NEW c \in CurrencyIds,
                    (message.delivered[l])' - message.delivered[l] > 0, CurrencyOf(l) = c
             PROVE  \/ Supply(c)' = Supply(c) + ((message.delivered[l])' - message.delivered[l])
                    \/ /\ c = Native /\ Supply(c)' = Supply(c)
                       /\ (message.delivered[l])' - message.delivered[l] < NativeED
  BY DEF Arrives
<1>1. message.delivered[l] \in Nat /\ message \in Messages /\ Sound(ledger)
      /\ holding \in [Locations -> Nat]
  BY MessageTyped DEF Typed
<1>2. message'.delivered # message.delivered /\ message'.delivered # Nothing
  BY <1>1 DEF Nothing
<1>3. PICK location \in Locations, who \in Beneficiaries : DeliverAsset(location, who)
  <2>1. CASE \E origin \in Origins, arrived \in Arrivals : BeginMessage(origin, arrived)
    BY <1>2, <2>1 DEF BeginMessage, NewMessage
  <2>2. CASE EndMessage
    BY <1>2, <2>2 DEF EndMessage, NewMessage
  <2>3. CASE Transact
    BY <1>1, <1>2, <2>3 DEF Transact, Messages
  <2>4. CASE \E p \in Locations, weight \in Weights : BuyWeight(p, weight)
    BY <1>1, <1>2, <2>4 DEF BuyWeight, Messages
  <2>5. CASE \E weight \in Weights : RefundWeight(weight)
    BY <1>2, <2>5 DEF RefundWeight
  <2>6. CASE UNCHANGED vars
    BY <1>2, <2>6 DEF vars
  <2> QED BY <2>1, <2>2, <2>3, <2>4, <2>5, <2>6 DEF Next
<1> DEFINE amount == holding[location]
           delivered == [message.delivered EXCEPT ![location] = @ + amount]
<1>4. amount \in Nat \ {0}
  BY <1>1, <1>3 DEF DeliverAsset
<1>5. message'.delivered = delivered
  <2>1. message' = [message EXCEPT !.delivered = delivered]
    BY <1>1, <1>3 DEF DeliverAsset, Messages
  <2> HIDE DEF delivered
  <2> QED BY <1>1, <2>1 DEF Messages
<1>6. location = l /\ (message.delivered[l])' - message.delivered[l] = amount
  <2>1. message.delivered \in [Locations -> Nat]
    BY MessageTyped
  <2> HIDE DEF amount
  <2>2. \A p \in Locations : delivered[p] = IF p = location THEN message.delivered[p] + amount
                                                            ELSE message.delivered[p]
    BY <2>1
  <2> HIDE DEF delivered
  <2>3. location = l
    BY <1>1, <1>5, <2>2
  <2>4. (message.delivered[l])' = message.delivered[l] + amount
    BY <1>5, <2>2, <2>3
  <2> QED BY <1>1, <1>4, <2>3, <2>4
<1>7. \E a \in Accounts : ledger' = Deposit(ledger, c, a, amount)
  <2>1. who \in Accounts /\ Treasury \in Accounts /\ None \notin CurrencyIds
    BY XcmAssumption
  <2> QED BY <1>3, <1>6, <2>1 DEF DeliverAsset, DepositAsset, DepositOrTreasury
<1> HIDE DEF amount
<1> QED BY <1>1, <1>4, <1>6, <1>7, SupplyGrows

\* Money that is delivered is on the ledger afterwards, at the beneficiary or the
\* treasury; only native money that opens no account gets lost (deposit_asset).
THEOREM DeliveryAlwaysArrives == Spec => DeliveryArrives
<1>1. Typed /\ [Next]_vars => [Arrives]_vars
  BY NextArrives
<1> QED BY <1>1, TypedAlways, PTL DEF Spec, DeliveryArrives, Arrives

\* Only the end of a message drops the trader.
LEMMA TraderEnds ==
  ASSUME Typed, [Next]_vars, trader # <<>>, trader' = <<>>
  PROVE  EndMessage
<1>1. DOMAIN trader = Components /\ DOMAIN trader' # Components
  <2>1. DOMAIN trader' = {} /\ 1 \in Components
    BY RatesAre
  <2> QED BY <2>1 DEF Typed, TraderTyped
<1>2. CASE \E origin \in Origins, arrived \in Arrivals : BeginMessage(origin, arrived)
  BY <1>2 DEF BeginMessage
<1>3. CASE \E location \in Locations, weight \in Weights : BuyWeight(location, weight)
  <2>1. \E k, bought : trader' = trader \/ trader' = [trader EXCEPT ![k] = bought]
    BY <1>3 DEF BuyWeight
  <2> QED BY <1>1, <2>1
<1>4. CASE \E weight \in Weights : RefundWeight(weight)
  <2>1. PICK weight \in Weights : RefundWeight(weight)
    BY <1>4
  <2>2. DOMAIN trader' = Components
    BY <2>1 DEF RefundWeight
  <2> QED BY <1>1, <2>2
<1>5. CASE \E location \in Locations, who \in Beneficiaries : DeliverAsset(location, who)
  BY <1>5 DEF DeliverAsset
<1>6. CASE Transact
  BY <1>6 DEF Transact
<1>7. CASE UNCHANGED vars
  BY <1>7 DEF vars
<1> QED BY <1>2, <1>3, <1>4, <1>5, <1>6, <1>7 DEF Next

\* If one component earned something, the treasury is paid once.
LEMMA DroppedOne ==
  ASSUME RegistryTyped, Sound(ledger), TraderTyped(trader), NEW k, Earning = {k}
  PROVE  Dropped = ToTreasury(ledger, trader[k].location, trader[k].amount)
<1>1. PICK g : /\ Dropped = g[Earning]
               /\ \A T \in SUBSET Earning :
                    g[T] = IF T = {} THEN ledger
                           ELSE ToTreasury(g[T \ {Chosen(T)}], trader[Chosen(T)].location,
                                           trader[Chosen(T)].amount)
  BY DroppedFolds
<1>2. Chosen(Earning) = k
  BY ChosenIn
<1>3. Earning \ {k} = {}
  OBVIOUS
<1>4. g[{}] = ledger
  BY <1>1
<1>5. g[Earning] = ToTreasury(g[Earning \ {k}], trader[k].location, trader[k].amount)
  <2>1. Earning # {}
    OBVIOUS
  <2> QED BY <1>1, <1>2, <2>1
<1> QED BY <1>1, <1>3, <1>4, <1>5

Earns ==
  trader # <<>> /\ trader' = <<>> /\ Plain =>
    \A l \in Locations, c \in CurrencyIds :
      /\ CurrencyOf(l) = c
      /\ message.arrived[l] > holding[l] + message.delivered[l]
      => LET kept == message.arrived[l] - holding[l] - message.delivered[l]
         IN \/ TreasuryBalance(c)' = TreasuryBalance(c) + kept
            \/ c = Native /\ TreasuryBalance(c) = 0 /\ kept < NativeED

LEMMA NextEarns == Typed /\ FeeBooks /\ [Next]_vars => Earns
<1> SUFFICES ASSUME Typed, FeeBooks, [Next]_vars, trader # <<>>, trader' = <<>>, Plain,
                    NEW l \in Locations, NEW c \in CurrencyIds, CurrencyOf(l) = c,
                    message.arrived[l] > holding[l] + message.delivered[l]
             PROVE  LET kept == message.arrived[l] - holding[l] - message.delivered[l]
                    IN \/ TreasuryBalance(c)' = TreasuryBalance(c) + kept
                       \/ c = Native /\ TreasuryBalance(c) = 0 /\ kept < NativeED
  BY DEF Earns
<1>1. ledger' = Dropped
  BY TraderEnds DEF EndMessage
<1>2. PICK k \in Components : Books(k)
  BY DEF FeeBooks
<1> DEFINE kept == message.arrived[l] - holding[l] - message.delivered[l]
<1>3. trader[k].location = l /\ trader[k].amount = kept /\ kept \in Nat \ {0}
  <2>1. message.arrived[l] = holding[l] + message.delivered[l] + KeptAt(k, l)
    BY <1>2 DEF Books
  <2>2. /\ message.arrived[l] \in Nat /\ holding[l] \in Nat /\ message.delivered[l] \in Nat
        /\ trader[k].amount \in Nat
    BY MessageTyped DEF Typed, TraderTyped
  <2>3. trader[k].location = l
    BY <2>1, <2>2 DEF KeptAt
  <2>4. message.arrived[l] = holding[l] + message.delivered[l] + trader[k].amount
    BY <2>1, <2>3 DEF KeptAt
  <2>5. \A a, h, d, x \in Nat :
          a = h + d + x /\ a > h + d => x = a - h - d /\ a - h - d \in Nat \ {0}
    OBVIOUS
  <2> QED BY <2>2, <2>3, <2>4, <2>5
<1>4. Earning = {k}
  <2> HIDE DEF kept
  <2>1. k \in Earning
    BY <1>3 DEF Earning
  <2>2. \A j \in Components \ {k} : ~(trader[j].amount > 0)
    BY <1>2 DEF Books
  <2> QED BY <2>1, <2>2 DEF Earning
<1> HIDE DEF kept
<1>5. ledger' = ToTreasury(ledger, l, kept)
  BY <1>1, <1>3, <1>4, DroppedOne DEF Typed
<1>6. ledger' = Deposit(ledger, c, Treasury, kept)
  <2>1. c # None /\ CanDeposit(ledger, c, Treasury, kept)
    BY XcmAssumption DEF CanDeposit, CanTokenDeposit, DustRemovalWhitelist
  <2> QED BY <1>5, <2>1 DEF ToTreasury
<1>7. \/ BalanceOf(ledger', c, Treasury) = BalanceOf(ledger, c, Treasury) + kept
      \/ c = Native /\ BalanceOf(ledger, c, Treasury) = 0 /\ kept < NativeED
  <2>1. Treasury \in Accounts /\ Sound(ledger)
    BY XcmAssumption DEF Typed
  <2> QED BY <1>3, <1>6, <2>1, DepositAdds
<1>8. /\ TreasuryBalance(c) = BalanceOf(ledger, c, Treasury)
      /\ TreasuryBalance(c)' = BalanceOf(ledger', c, Treasury)
  BY DEF TreasuryBalance, BalanceOf
<1> QED BY <1>7, <1>8 DEF kept

\* The fee that is not given back arrives at the treasury in the asset that was
\* paid, all of it but for native money that opens no account (ToTreasury).
THEOREM RevenueAlwaysArrives == Spec => RevenueArrives
<1>1. Typed /\ FeeBooks /\ [Next]_vars => [Earns]_vars
  BY NextEarns
<1> QED BY <1>1, BooksAlways, PTL DEF Spec, RevenueArrives, Earns
=============================================================================
