---------------------------------- MODULE Xcm ----------------------------------
(***************************************************************************)
(* Money that comes and goes with cross-chain messages: what a location    *)
(* stands for, and what the fee traders take, give back and hand to the    *)
(* treasury while a message is executed (runtime/listen/src/xcm_config.rs, *)
(* xcm_impls.rs; those of tisten are the same).                            *)
(*                                                                         *)
(* The executor gives a message a trader, calls it for BuyExecution and    *)
(* RefundSurplus, and drops it at the end. A Transact in between makes any *)
(* call, on the registry too. A trader is a row of components: one of a    *)
(* fixed location each, and last the one of the registered assets.         *)
(***************************************************************************)
EXTENDS Registry, Sequences, FiniteSetsExt, Functions

CONSTANTS
  ParaId,               \* ParachainInfo::parachain_id
  BaseWeight,           \* ExtrinsicBaseWeight
  BaseTxFee,            \* UNIT / 1000
  WeightPerSecond,
  U128,                 \* 2^128
  Assets,               \* the assets there are
  Minimums,             \* their existential deposits
  Origins,              \* the chains messages come from
  LocationToAccountId,  \* origin -> its account here
  Funds,                \* currency -> what an origin has here at first
  Arrivals,             \* what messages bring, [Locations -> Nat]
  Beneficiaries,        \* accounts that money arrives for
  Weights,              \* weights that are bought and refunded
  MaxPurchases,         \* bound: BuyExecutions of a message
  MaxMessages           \* bound: messages

VARIABLES
  ledger,
  trader,     \* component -> [weight, amount, location]; empty without message
  holding,    \* location -> amount, the holding register of the message
  messages,   \* messages so far
  message     \* what the message did: [purchases, transacted, arrived, delivered]

vars == <<registry, ledger, trader, holding, messages, message>>

-----------------------------------------------------------------------------
(* The locations and assets that are written in the code (parachains.rs).  *)

\* A multi location: the parents to go up, then a parachain, then a key.
Parent == <<1>>
Local(key) == <<0, key>>
Sibling(para, key) == <<1, para, key>>

Ksm == 2

NativeKeys == [c \in {0, 1} |-> IF c = 0 THEN "LT" ELSE "LIKE"]

\* KICO of kico; KAR, AUSD and LKSM of karura.
Foreign ==
  [c \in {10, 128, 129, 131} |->
     CASE c = 10 -> Sibling(2107, "KICO") [] c = 128 -> Sibling(2000, "KAR")
       [] c = 129 -> Sibling(2000, "AUSD") [] c = 131 -> Sibling(2000, "LKSM")]

\* native_currency_location: from the outside.
NativeCurrencyLocation(c) == Sibling(ParaId, NativeKeys[c])

HardcodedLocation(c) ==
  CASE c = Ksm -> Parent
    [] c \in DOMAIN NativeKeys -> NativeCurrencyLocation(c)
    [] c \in DOMAIN Foreign -> Foreign[c]
    [] OTHER -> None

\* A native currency is found from the inside as well.
IsHardcodedAt(c, l) ==
  \/ c \in DOMAIN Foreign /\ l = Foreign[c]
  \/ c \in DOMAIN NativeKeys /\ l \in {NativeCurrencyLocation(c), Local(NativeKeys[c])}

HardcodedCurrency(l) ==
  LET found == {c \in DOMAIN Foreign \cup DOMAIN NativeKeys : IsHardcodedAt(c, l)}
  IN IF found = {} THEN None ELSE CHOOSE c \in found : TRUE

KsmPerSecond == ((WeightPerSecond \div BaseWeight) * BaseTxFee) \div 100

\* KsmPerSecond, LTPerSecond, LT1PerSecond, ...
Dear(l) == [location |-> l, rate |-> KsmPerSecond * 100]
FixedRates ==
  << [location |-> Parent, rate |-> KsmPerSecond],
     Dear(Local("LT")), Dear(Sibling(ParaId, "LT")),
     Dear(Local("LIKE")), Dear(Sibling(ParaId, "LIKE")),
     Dear(Foreign[10]), Dear(Foreign[129]), Dear(Foreign[128]), Dear(Foreign[131]) >>

AssetComponent == Len(FixedRates) + 1
Components == 1 .. AssetComponent

-----------------------------------------------------------------------------

\* CurrencyIds has the assets of the locations there are, and a message brings
\* finitely many.
ASSUME XcmAssumption ==
  /\ Native \in DOMAIN NativeKeys
  /\ None \notin CurrencyIds /\ None \notin Locations
  /\ WeightPerSecond \in Nat \ {0} /\ BaseWeight \in Nat \ {0}
  /\ BaseTxFee \in Nat /\ U128 \in Nat \ {0}
  /\ Assets \in [DOMAIN Assets -> AssetInfo] /\ DOMAIN Assets \subseteq CurrencyIds
  /\ Minimums \in [CurrencyIds -> Nat]
  /\ Arrivals \subseteq [Locations -> Nat] /\ Weights \subseteq Nat \ {0}
  /\ MaxPurchases \in Nat /\ MaxMessages \in Nat
  /\ Treasury \in Accounts /\ Beneficiaries \subseteq Accounts
  /\ LocationToAccountId \in [Origins -> Accounts] /\ Funds \in [CurrencyIds -> Nat]
  /\ Parent \in Locations => Ksm \in CurrencyIds
  /\ \A l \in Locations : HardcodedCurrency(l) \in CurrencyIds \cup {None}
  /\ \A arrived \in Arrivals : IsFiniteSet({l \in Locations : arrived[l] > 0})

\* A trader that has bought nothing.
NewTrader ==
  [k \in Components |->
     [weight |-> 0, amount |-> 0,
      location |-> IF k = AssetComponent THEN None ELSE FixedRates[k].location]]

Nothing == [l \in Locations |-> 0]

NewMessage(arrived) ==
  [purchases |-> 0, transacted |-> FALSE, arrived |-> arrived, delivered |-> Nothing]

TypeOK ==
  /\ IsLedger(ledger)
  /\ RegistryTyped
  /\ trader # <<>> =>
       /\ DOMAIN trader = Components
       /\ \A k \in Components :
            /\ trader[k].weight \in Nat /\ trader[k].amount \in Nat
            /\ trader[k].location \in Locations \cup {NewTrader[k].location}
  /\ holding \in [Locations -> Nat]
  /\ messages \in 0 .. MaxMessages
  /\ message \in
       [purchases : 0 .. MaxPurchases, transacted : BOOLEAN,
        arrived : Arrivals \cup {Nothing}, delivered : [Locations -> Nat]]

\* The origins have their funds.
Funded(l) ==
  FoldSet(LAMBDA k, after : Deposit(after, k[1], k[2], Funds[k[1]]), l,
          CurrencyIds \X {LocationToAccountId[o] : o \in Origins})

\* Without air drops the runtimes differ in how many users they count only.
Init ==
  /\ RegistryInit(Assets)
  /\ ledger = Funded([NoLedger("listen") EXCEPT !.existential = Minimums])
  /\ trader = <<>> /\ holding = Nothing
  /\ messages = 0 /\ message = NewMessage(Nothing)

-----------------------------------------------------------------------------
(* CurrencyIdConvert and what deposits by location.                        *)

\* Where asset c is; what is registered comes first.
LocationOf(c) ==
  IF c \in DOMAIN AssetLocations THEN AssetLocations[c] ELSE HardcodedLocation(c)

\* Which asset is at location l. The parent is KSM whatever is registered.
CurrencyOf(l) ==
  CASE l = Parent -> Ksm
    [] l # Parent /\ l \in DOMAIN LocationToCurrencyIds -> LocationToCurrencyIds[l]
    [] OTHER -> HardcodedCurrency(l)

\* Mutant: revenue is deposited as tokens.
ToTreasuryTokens(l, location, amount) ==
  LET c == CurrencyOf(location)
  IN IF c # None THEN TokenDeposit(l, c, Treasury, amount) ELSE l

\* ToTreasury; the result of the deposit is dropped.
ToTreasury(l, location, amount) ==
  LET c == CurrencyOf(location)
  IN IF c # None /\ CanDeposit(l, c, Treasury, amount)
     THEN Deposit(l, c, Treasury, amount) ELSE l

\* Mutant: the money goes to the beneficiary only.
DepositOrLose(l, c, who, amount) ==
  IF CanDeposit(l, c, who, amount) THEN Deposit(l, c, who, amount) ELSE l

\* DepositToAlternative: what an account cannot take goes to the treasury.
DepositOrTreasury(l, c, who, amount) ==
  IF CanDeposit(l, c, who, amount)
  THEN Deposit(l, c, who, amount) ELSE Deposit(l, c, Treasury, amount)

\* deposit_asset of the LocalAssetTransactor. What no asset stands for is left
\* to the unknown tokens, which are not modelled.
DepositAsset(l, location, who, amount) ==
  LET c == CurrencyOf(location)
  IN IF c = None THEN l ELSE DepositOrTreasury(l, c, who, amount)

-----------------------------------------------------------------------------
(* The traders.                                                            *)

\* get_weight_rate_multiple
HasMultiple(location) == location \in DOMAIN LocationToCurrencyIds
MultipleAt(location) == WeightRateMultiple[LocationToCurrencyIds[location]]

\* What weight costs in the asset at a location: products are u128.
AssetFee(location, weight) ==
  ((((KsmPerSecond * MultipleAt(location)) % U128) * weight) % U128)
     \div WeightPerSecond

FixedFee(k, weight) == (FixedRates[k].rate * weight) \div WeightPerSecond

\* What component k asks for weight, paid at location.
FeeOf(k, location, weight) ==
  IF k = AssetComponent THEN AssetFee(location, weight) ELSE FixedFee(k, weight)

\* Component k takes the payment; what costs nothing is free whatever is offered.
Takes(k, location, offered, weight) ==
  IF k = AssetComponent
  THEN HasMultiple(location) /\ AssetFee(location, weight) <= offered
  ELSE \/ FixedFee(k, weight) = 0
       \/ location = FixedRates[k].location /\ FixedFee(k, weight) <= offered

\* A component after it sold weight; the location is of its last purchase.
Bought(bought, location, weight, fee) ==
  [bought EXCEPT !.weight = @ + weight, !.amount = @ + fee, !.location = location]

\* BuyExecution with what is held of a location: the first component that takes
\* the payment sells the weight, and what it does not ask for is held again.
BuyWeight(location, weight) ==
  /\ trader # <<>>
  /\ message.purchases < MaxPurchases
  /\ holding[location] > 0
  /\ \E k \in Components :
       /\ Takes(k, location, holding[location], weight)
       /\ \A j \in 1 .. k - 1 : ~Takes(j, location, holding[location], weight)
       /\ LET fee == FeeOf(k, location, weight)
          IN /\ trader' = IF fee = 0 THEN trader
                          ELSE [trader EXCEPT ![k] = Bought(@, location, weight, fee)]
             /\ holding' = [holding EXCEPT ![location] = @ - fee]
  /\ message' = [message EXCEPT !.purchases = @ + 1]
  /\ UNCHANGED <<registry, ledger, messages>>

MinOf(a, b) == IF a < b THEN a ELSE b

\* Component k can work out a refund.
CanRefund(k) == k # AssetComponent \/
  (trader[k].location # None /\ HasMultiple(trader[k].location))

\* Mutant: any weight is given back.
RefundedAnyWeight(k, weight) == weight

\* A component gives back no more weight than it sold.
RefundedWeight(k, weight) == MinOf(weight, trader[k].weight)

\* What component k gives back for weight, at the price of now.
RefundOf(k, weight) ==
  IF CanRefund(k)
  THEN FeeOf(k, trader[k].location, RefundedWeight(k, weight)) ELSE 0

\* Mutant: what is given back is also kept.
RefundedKept(k, weight) ==
  [trader[k] EXCEPT !.weight = @ - RefundedWeight(k, weight)]

Refunded(k, weight) ==
  IF CanRefund(k)
  THEN [trader[k] EXCEPT !.weight = @ - RefundedWeight(k, weight),
                         !.amount = SaturatingSub(@, RefundOf(k, weight))]
  ELSE trader[k]

\* RefundSurplus: the components are asked in turn until one gives something
\* back; those asked before have given up weight for nothing.
RefundWeight(weight) ==
  /\ trader # <<>>
  /\ LET giving == {k \in Components : RefundOf(k, weight) > 0}
         last == IF giving = {} THEN AssetComponent ELSE Min(giving)
     IN /\ trader' = [k \in Components |->
                        IF k <= last THEN Refunded(k, weight) ELSE trader[k]]
        /\ holding' = IF giving = {} THEN holding
                      ELSE [holding EXCEPT ![trader[last].location] =
                              @ + RefundOf(last, weight)]
  /\ UNCHANGED <<registry, ledger, messages, message>>

-----------------------------------------------------------------------------
(* A message.                                                              *)

\* AbsoluteReserveProvider: the chain an asset is from, seen from outside.
Reserve(l) ==
  CASE l = Parent -> Parent
    [] Len(l) > 1 /\ l[1] = 1 -> <<1, l[2]>>
    [] OTHER -> None

Brought(arrived) == {l \in Locations : arrived[l] > 0}

\* ReserveAssetDeposited: the origin holds the reserve of all of it.
ReserveAssetDeposited(origin, arrived) ==
  /\ \A l \in Brought(arrived) : Reserve(l) = origin
  /\ UNCHANGED ledger

\* What arrives is withdrawn location by location.
Withdrawn(from, arrived) ==
  FoldSet(LAMBDA l, after : Withdraw(after, CurrencyOf(l), from, arrived[l]),
          ledger, Brought(arrived))

\* WithdrawAsset, from the origin's account. Bound: the locations are of different
\* assets.
WithdrawAsset(origin, arrived) ==
  LET from == LocationToAccountId[origin]
  IN /\ \A l \in Brought(arrived) :
          /\ CurrencyOf(l) # None
          /\ CanWithdraw(ledger, CurrencyOf(l), from, arrived[l])
          /\ \A k \in Brought(arrived) \ {l} : CurrencyOf(k) # CurrencyOf(l)
     /\ ledger' = Withdrawn(from, arrived)

\* A message gets a trader and brings its money.
BeginMessage(origin, arrived) ==
  /\ trader = <<>>
  /\ messages < MaxMessages
  /\ trader' = NewTrader
  /\ holding' = arrived
  /\ messages' = messages + 1
  /\ message' = NewMessage(arrived)
  /\ ReserveAssetDeposited(origin, arrived) \/ WithdrawAsset(origin, arrived)
  /\ UNCHANGED registry

\* DepositAsset, of all that is held of a location
DeliverAsset(location, who) ==
  /\ trader # <<>>
  /\ holding[location] > 0
  /\ ledger' = DepositAsset(ledger, location, who, holding[location])
  /\ holding' = [holding EXCEPT ![location] = 0]
  /\ message' = [message EXCEPT !.delivered[location] = @ + holding[location]]
  /\ UNCHANGED <<registry, trader, messages>>

\* The components are dropped in turn, each with its revenue.
Earning == {k \in Components : trader[k].amount > 0}
Dropped ==
  FoldSet(LAMBDA k, l : ToTreasury(l, trader[k].location, trader[k].amount),
          ledger, Earning)

\* What is still held goes to the asset trap, which is not modelled.
EndMessage ==
  /\ trader # <<>>
  /\ ledger' = Dropped
  /\ trader' = <<>> /\ holding' = Nothing
  /\ message' = NewMessage(Nothing)
  /\ UNCHANGED <<registry, messages>>

\* A call on the registry, between messages or by a Transact in one. Bound: one
\* in a message.
Transact ==
  /\ ~message.transacted
  /\ RegistryNext
  /\ message' = [message EXCEPT !.transacted = trader # <<>>]
  /\ UNCHANGED <<ledger, trader, holding, messages>>

Next ==
  \/ \E origin \in Origins, arrived \in Arrivals : BeginMessage(origin, arrived)
  \/ \E location \in Locations, weight \in Weights : BuyWeight(location, weight)
  \/ \E weight \in Weights : RefundWeight(weight)
  \/ \E location \in Locations, who \in Beneficiaries : DeliverAsset(location, who)
  \/ Transact
  \/ EndMessage

Spec == Init /\ [][Next]_vars

-----------------------------------------------------------------------------
(* Properties.                                                             *)

\* What the components hold that was paid at location l.
Held(l) ==
  SumFunction([k \in DOMAIN trader |->
                 IF trader[k].location = l THEN trader[k].amount ELSE 0])

\* No product of a fee wraps. A multiple that is so large that one does makes
\* much weight cheap, and a refund of a part of it more than was paid.
NothingWraps ==
  \A l \in DOMAIN LocationToCurrencyIds, weight \in Weights :
    KsmPerSecond * MultipleAt(l) * weight < U128

\* The message is one whose fees add up: it bought once, left the registry
\* alone and no product wraps. A second purchase rounds, and may be remembered
\* as of another asset; a refund is at the multiple of its own time.
Plain == message.purchases <= 1 /\ ~message.transacted /\ NothingWraps

\* What arrived and was not delivered is held by the message or its trader,
\* whichever components were asked for refunds and in how many parts: rounding
\* is never to the chain's cost, and no refund makes money.
FeesConserved ==
  trader # <<>> /\ Plain =>
    \A l \in Locations :
      message.arrived[l] = holding[l] + message.delivered[l] + Held(l)

\* What there is of asset c, and what the treasury has of it.
Supply(c) ==
  SumFunction([a \in Accounts |-> IF c = Native THEN NativeBalance(ledger, a)
                                                ELSE TokenBalance(ledger, c, a)])
TreasuryBalance(c) ==
  IF c = Native THEN NativeBalance(ledger, Treasury)
                ELSE TokenBalance(ledger, c, Treasury)

\* The fee of a message that is not given back arrives at the treasury in the
\* asset that was paid, all of it, but for native money too little to open the
\* treasury's account.
RevenueArrives ==
  [][trader # <<>> /\ trader' = <<>> /\ Plain =>
       \A l \in Locations, c \in CurrencyIds :
         /\ CurrencyOf(l) = c
         /\ message.arrived[l] > holding[l] + message.delivered[l]
         => LET kept == message.arrived[l] - holding[l] - message.delivered[l]
            IN \/ TreasuryBalance(c)' = TreasuryBalance(c) + kept
               \/ c = Native /\ TreasuryBalance(c) = 0 /\ kept < NativeED]_vars

\* Money that is delivered for an asset is there afterwards, even if the
\* beneficiary's account would be too small to exist; native money alone gets
\* lost that way.
DeliveryArrives ==
  [][\A l \in Locations, c \in CurrencyIds :
       LET delivered == (message.delivered[l])' - message.delivered[l]
       IN trader' # <<>> /\ delivered > 0 /\ CurrencyOf(l) = c =>
            \/ Supply(c)' = Supply(c) + delivered
            \/ c = Native /\ Supply(c)' = Supply(c) /\ delivered < NativeED]_vars

\* Money goes back where it came from: the asset a registered location stands
\* for is sent to that location, however assets were forced from one location to
\* another. (The parent is KSM whatever is registered for it.)
ReturnsHome ==
  \A l \in DOMAIN LocationToCurrencyIds \ {Parent} : LocationOf(CurrencyOf(l)) = l
=============================================================================
