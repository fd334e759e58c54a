# Verification of the listen parachain

TLA+ models of the pallets of this repository, TLC configurations that check
them on small instances, and TLAPS proofs of their main properties.

The system is a substrate runtime. Users submit *dispatchables*; a block applies
them one after the other. Every dispatchable is transactional: if it returns an
error, nothing it wrote is stored. So an action of a model is a whole
dispatchable, each of its error paths is a guard, and the concurrency that
matters is the order in which the calls of different users, the manager, the
council, the other pallets and root are applied, the hooks that run in the middle
of a call, and the block number that moves between calls.

## Inventory

| Component | State | Operations | Interacts with |
|---|---|---|---|
| Rooms (`src/pallets/room`) | `AllRoom`, `ListenersOfRoom`, `PurchaseSummary`, `NextGroupId`, root's prices and intervals | create, join or be invited, exit, remove, black list, council, privacy, size, join cost | currencies (withdraw and deposit), the room collective and room treasury (origins, `ListenHandler`) |
| Room money | `total_balances`, `group_manager_balances`, `consume`, `InfoOfDisbandedRoom` | split of the join cost, purchases, a quitter's share, `manager_get_reward`, `sub_room_free_amount`, `pay_out` | the native currency (minting, the treasury account) |
| Voting and disbanding | `disband_vote`, `disband_vote_end_block`, `PendingDisbandRooms` | ask, vote, counting by a purchase, `disband_room` | red packets, rewards, the collective and treasury it removes |
| Red packets | `RedPacketOfRoom`, `NextRedPacketId` | send, get, give back, refund when a room goes | currencies |
| Air drop (`src/pallets/room`) | `Multisig`, the providers of accounts | `air_drop`, `set_multisig` | native balances, the account hooks |
| Currencies (`src/pallets/currencies`) | `ListenAssetsInfo`, two location maps, weight multiples, existential deposits, air drop numbers | create, describe, locate, burn, transfer, update a balance; the traits other pallets use: payments, slashes, locks, reserves | `pallet_balances`, `orml_tokens`, the runtime's hooks, the XCM converter |
| Account hooks (`src/runtime`) | `UsersNumber` | new and killed accounts and token accounts, the air drop to a new token account | called by the balances, tokens and system pallets |
| NFT (`src/pallets/nft`) | classes, tokens, who owns them, the sale list, issuers of levels | create and destroy classes, mint, claim, burn, transfer, activate, offer and buy | currencies; in neither runtime |
| XCM (`xcm_impls.rs`, `xcm_config.rs`) | a trader's weight, amount and asset during one message | convert assets and locations, buy and refund weight, deposit what arrives, revenue | currencies and their registry |
| Runtime (`src/runtime`) | constants, call filter, origins | which dispatchables pass at all | every pallet |
| Collective, room treasury (`pallet_dao`, `pallet_treasury`) | external | call back into the room pallet | rooms |
| Node, chain specification | genesis | – | – |
| Migrations, weights, scripts | – | – | – |

What is hard, and so what the properties are about:

* **Order of calls.** A room is shared by its members, its manager, its council,
  the treasury pallet and root. A vote is counted by voting, by a request and by
  any purchase of someone who has voted; a disbanding can be announced between
  any two calls of others. Assets are created, described, moved to other locations
  and given other weights by anyone, their owner and root.
* **Nested calls.** Opening a token account runs a hook that opens a native
  account, which runs another, before the first deposit has ended.
* **Two pallets behind one.** The currencies pallet routes every call to
  `pallet_balances` or `orml_tokens`; they treat dust, locks and errors differently,
  and some calls go around the routing.
* **Time.** Votes expire, an announced disbanding has a delay, packets expire,
  rewards are looked for a number of sessions back, manager rewards are counted
  in periods of which five at most are paid.
* **Rolled back and dropped results.** Some paths write and then return an error;
  the writes do not happen. Others drop the error of a deposit and go on.
* **Stale state.** Entries, votes and packets of members who have left; prices,
  minima and weight multiples that have changed since; entries of locations an
  asset no longer has.
* **Arithmetic.** Unchecked subtractions and divisions in `do_disband` and `exit`,
  unchecked products of `u128` in the fee traders.

What makes each component correct:

* *Rooms*: the member count is the number of listeners, a room is never
  overfull, the black list is respected, nothing outlives a room.
* *Room money*: no call makes or loses money except the reward it mints and what
  the treasury spends; the manager's part is never spent; the shares claimed
  after a disbanding are covered.
* *Voting and disbanding*: a vote is on one side and weighs what its voter spent;
  a room that passed its vote gets its notice and keeps it; from then on nobody
  joins, leaves or spends, and once the notice is over what is shared is settled.
* *Red packets*: never more given than was put in, nor to more than the places,
  and every packet is given, given back or refunded once, and in the end.
* *Accounts and air drops*: the users counted are the accounts there are, what an
  account holds keeps it alive, and nobody can empty an account to be given the
  air drop again.
* *Currencies*: owner and decimals of a described asset never change; users do
  not issue it; a location leads to the asset that is there; what is issued is what
  is held, and locked money does not leave by payments.
* *NFT*: owners, lists and sales agree; the class of a token stays; the locked LIKE comes back; who loses a token in sale is paid.
* *XCM*: fees and refunds add up to what was brought, revenue and deliveries
  arrive in the asset they were paid in.

The hazards, each at its line, are under `hazards` in `PROJECT.json` with the
properties that cover them.

## Modules

| Module | Contents |
|---|---|
| `RoomTypes` | constants and their assumptions, the records the room pallet stores, its pure functions (`members_convert_type`, `pay_for`, `is_vote_end`, the bookkeeping of votes, ...), the call filter |
| `Room` | the state machine: one action per dispatchable, and `NewBlock`; `FairSpec` |
| `RoomProperties` | invariants, action properties, liveness, and the refinement mapping to `RoomLifecycle` |
| `RoomLifecycle` | the abstract life of a room: opened, given up, given notice, closed |
| `RoomProofs` | theorems about `Room`: types, members, packets, the places of rooms, the refinement |
| `RoomMoneyProofs` | theorems about what adds up in `Room`: money, votes, rewards |
| `Ledger` | money and accounts as operators on a record: native balances, token accounts, providers, `UsersNumber`, the hooks of both runtimes |
| `Registry` | the assets: owner, metadata, location and back, weight multiple |
| `RegistryProofs` | lemmas: what every call on the registry and every change of a ledger keeps |
| `Currencies` | `Registry` composed with a ledger: the pallet's dispatchables, the genesis, the air drop, the calls of `orml_tokens`, the deposits of other pallets |
| `CurrenciesProofs` | theorems about `Currencies` |
| `Xcm` | `Registry` composed with a ledger and the message being executed: conversions, traders, deposits, revenue |
| `XcmProofs` | theorems about `Xcm` |
| `Holds` | reserves, locks and slashes through the currencies pallet |
| `HoldsProofs` | theorems about `Holds` |
| `Nft`, `NftProperties`, `NftProofs` | the nft pallet, its properties and theorems |
| `SumTheorems` | lemmas about finite sums and folds, for the proofs about money |
| `MCRoom`, `MCCurrencies`, `MCXcm`, `MCHolds`, `MCNft` | values of the constants for TLC |

`map` in `PROJECT.json` gives the lines of every definition. Variables have the names
of the storage items they are, and storage maps are functions whose domain is the
set of stored keys. Definitions marked "Mutant" are not part of the model: each is a
definition with a plausible mistake in it, and with it in place of the right one a
property of a run fails.

### Room

`free` and `treasury` are native balances; `settings` is the storage only root
writes. Points that need a word:

* **`JudgeAndInsert`** is `judge_vote_and_update_room` *with* the
  `AllRoom::insert` its callers end with. When the votes pass in a room nobody
  spent in, the first part disbands the room and the second stores it again.
* **`GetRedpacketInRoom`** is the body of a loop over a list that the multisig
  account supplies. Entries are handled independently, so a list is a sequence of
  steps in one block. The branch that refunds an expired packet ends in an error,
  so it is rolled back and is a guard here.
* **Expired votes.** `vote` clears an expired vote and then returns an error; the
  clearing is rolled back, so the action is disabled.
* **`PayOut`** claims all rooms of a member at once, and marks the *first* entry of
  each room, as the code's `position` does.
* **`RoomOrigin`** stands for the manager and council origins of the collective,
  which are found through `get_root` and `get_room_council` and fail once the room
  can be disbanded. A call that both may make has no other parameter for who made
  it, except `RemoveSomeone`, where only the manager has to wait.
* **Withdrawals** leave more than `AirDropAmount` behind (`CanPay`).
* Every `checked_add` or `checked_mul` is a guard `... \in Balance`;
  `saturating_sub` is `SaturatingSub`; a plain subtraction or division of the code is
  a plain one in the model, so that the type invariant shows it never wraps.
* `Percent` rounds to nearest, a half down, as `sp_arithmetic`'s does.

Left out: names, topics and times shown to users; which of the three props or
clips is bought (each kind has one price); red packets in other currencies than the
native one; the removal of the collective's and the treasury's own state by
`do_disband`; the `consume` vector's order (it is a function from accounts to amounts).

### Ledger, Registry and Currencies

A ledger is a record, and each operator gives the ledger after a call, so that calls
nest as the pallets call each other: `TokenDeposit` that opens an account counts a
provider, the first provider creates the account of the system, and the hooks of the
runtime run in between, the air drop with its own deposit among them. `runtime` is a
field that is chosen at first, since the hooks of the two runtimes differ (tisten's
hook of a new token account does not pass over the native currency).
`DustRemovalWhitelist` spares the treasury's account. Orml's and substrate's pallets
are external: they are modelled by what the code relies on.

`Registry` has the two location maps as the pallet stores them. `force_set_location`
removes the entry of the asset's old location, and overwrites the entry of the new
one, but an asset that was there keeps it in `AssetLocations`: two assets may then have
one location and only one of them is found by it. `LocationsResolve` and `ReturnsHome`
say what is left: a registered location leads to an asset that is there.

`Currencies` starts with the assets of the chain specification. It contains what else
moves the same money: `tokens_transfer` stands for the calls of `orml_tokens`, which
the runtimes do not filter, and `PalletDeposit` and `PalletWithdraw` for the room and
nft pallets and the XCM executor. `AirDrop` is one member of the list of `air_drop`.
`create_asset`, `burn` and the genesis use `orml_tokens` even for the native currency,
so the model has tokens of the native currency next to native balances.

### Holds

The traits for reserves, locks and slashes are implemented by the pallet, but no
code of the repository calls them; they are there for other pallets. So the holds have
a module of their own, with accounts that have free, reserved and frozen money and
references in the system, and without the runtime's hooks, which do not look at them.

### Xcm

One message is executed at a time. It begins with money that its origin has the reserve
of, or that is withdrawn from the origin's account here; it calls the trader any number
of times, delivers what it holds, makes calls on the registry by `Transact`, and ends, when
the trader is dropped and its revenue goes to the treasury. A trader is a row of
components that are asked in turn: nine of a fixed rate, and the one of the registered
assets, which prices weight with the multiple of the asset. What costs nothing is sold
for free whatever is offered. Locations are sequences of parents, parachain and key.

### Nft

`TokensOf`, `NoOwnerTokensOf` and the list of tokens in sale are vectors in the code, of
which only membership is used: sets here. A class has its level, costs and maximum;
attributes and names are left out. `destroy_class` is a
public function that no dispatchable calls; it is an action all the same. The native payments leave more than the air drop, as everywhere.

## Runs

`Permitted` is the set of dispatchables a run allows: it is the runtime's call filter,
and it keeps each question small. Counters and balances have bounds; what a bound cuts
off is a guard that fails, so runs do not check deadlock: the chain never stops.

| Run | Question | Bounds |
|---|---|---|
| `RoomLife` | From creation to pay-out: are members counted, is money conserved, do shares cover claims, does a room live as `RoomLifecycle` promises, is every value in range? | 2 users who may each join twice, 1 room, 6 blocks in 3 sessions: a vote, its delay, the disbanding and claims in a later session, before and after `Depth`; root makes clips free meanwhile; balances up to 120, so that the checked additions fail in some states |
| `RoomVotes` | Does each vote weigh what its voter spent, and on one side? | 3 users, so votes can be split and decided by the third; 5 blocks, votes open for 1; root changes the interval |
| `RoomReward` | Is the manager's part covered, and only the room's proportion minted? While a disbanding is pending, does who shares stay, and what is shared once it is due? | 2 users with money to join and for a purchase each; periods of 1 block and 7 blocks: up to 6 periods pass, one more than are paid; a notice of 2 blocks, so that rewards and the treasury act before the announced block, requests postpone it, and calls are tried after it |
| `RoomPackets` | Are packets bounded, paid out or refunded once? Does every packet go? | a packet of 3 or 9 with 1 or 2 places, minimum 4 then 3: an exhausted packet, a last place with a rest, expiry, and both ways a room can go |
| `RoomCouncil` | Under `SystemBaseCallFilter`, does no purchase start or end a vote, and is a room never overfull nor entered by someone on the black list? | 2 users, room sizes 1 and 11, prices that are free at first; two blocks, the creation block among them, in which every room counts as voting |
| `Ledger` | Are users counted, holders alive, owners and decimals fixed; who issues, and can anyone be emptied? | 2 accounts, the native currency and one that is not at genesis, 4 native units and 1 token in all, both runtimes; existential deposits of 0 and 1, an air drop of an asset to its first user, up to 2 providers by air drops |
| `Xcm` | Do fees, refunds, revenue and deliveries add up, does money go back where it came from? | 1 message with 2 purchases of weight that is free in KSM or not and one `Transact`; KSM, the native currency and a registered asset, brought in amounts that pay for all or for nothing; a multiple for which a product wraps |
| `Holds` | Is what is issued what is held, and does locked money stay? | 2 accounts, 5 native units, of which 2 are the minimum, 1 of a token; one lock, on one of the accounts |
| `Nft` | Do owners, lists, sales and locked LIKE agree, does the class of a token stay, are sellers paid? | 2 accounts, 2 classes of one level, one costly with room for two tokens, one free |

One room is enough for the properties of the room runs: a dispatchable touches one
room, except `pay_out`, which adds up what a member is owed by several. The percentages
of rewards are scaled up (25 and 50 for 1 and 2) so that a small amount gives a reward
that is not zero. In `Xcm` `U128` is small, and `NothingWraps` is the condition under
which the code's unchecked product stays in range.

Some properties are stated around what the code does:

* `MembersCounted` is an equality for rooms never disbanded and a lower bound for
  those stored again; `PoolSolvent` is about rewards of rooms nobody left (see the next
  table).
* `FundsConserved` says by how much a disbanding changes the sum: a room that is stored
  again still has what was paid out, and one that is disbanded a second time in a session
  overwrites what is left of its first reward. Any other change is a violation.
* `VotesWeighed` is a lower bound: votes of those who left stay counted, which the
  code's comments list as open work.
* `PendingFrozen` lets the manager's reward and the room treasury change what is shared
  until the announced block, since `manager_get_reward` and `sub_room_free_amount` ask
  only whether that has come.
* `AssetInfoStable` starts with the first metadata: until then anyone may create the asset
  again and become its owner.
* `IssuerOfExists` goes one way, from a level to its class. A class loses its level when
  another class of that level is destroyed.
* `FeesConserved` and `RevenueArrives` are about `Plain` messages: one purchase, no call on the
  registry meanwhile, no product that wraps. A second purchase in another asset adds to
  the amount of the first and is remembered as of the second; a refund is at the
  multiple of its own time. All of this is in the model, and no property covers it (the
  hazards say so).
* `UsersCounted` is an equality of accounts for tokens and in tisten, and an upper bound
  for the native currency of listen, whose hooks do not mirror each other.
* `SupplyFixed`, `NobodyEmptied` and `LocksHold` name the calls they are about, because root's
  change of a balance, or a slash, leads to the same state as a payment. A step that
  could be either counts as the payment.

### Where the code and its comments or tests differ

| Run | Comment or test | What the run shows |
|---|---|---|
| `FindReinserted` | "The room information was deleted when the room was disbanded." (`room/src/lib.rs:1219`) | A request in a room nobody has spent in passes at once. `do_disband` removes the room, and `ask_for_disband_room` then stores its record again (line 1050). The room exists, without listeners, with its balances and a reward record; its members' shares cannot be claimed. |
| `FindProtected` | "Groups cannot be dissolved for a period of time after they are created" (1021) | `disband_vote_end_block` starts as the creation block, and `is_voting` holds in it. A member who buys and votes in that block passes a vote nobody asked for; the room is disbanded within its protected time. |
| `FindQuitter` | "If you quit halfway, you only get a quarter of the reward." (1401) | `exit` leaves the quitter's entry in `PurchaseSummary`; after the disbanding he claims a full share too, and the reward pays out more than was set aside. |

One more has no run. The tests of the nft pallet expect burning to lower `total_issuance`
(`nft/src/tests.rs:134`) and a class whose token was burned to be destroyed (148 and 176),
but `do_burn` keeps the token's record and the count, and `destroy_class` asks for a count of
zero: a class that ever had a token stays. The tests are not compiled into the crate, and
`TokensHaveClass` is about what the code does.

## Refinement

`RoomLifecycle` is what the room pallet promises of a room without saying who is in it
or how it is voted on: a room is open or has notice of a block; a notice is given for
`DelayDisbandDuration` blocks, may be given again for later, and is never taken back or cut short;
only a room whose notice is over is closed, an open one may be given up; a room that
is gone never comes back. `LifecycleKept` says that `Room` implements it, with the notices
as `PendingDisbandRooms` and the open rooms as the other rooms there are. The run
`RoomLife` checks it, and `LifecycleImplemented` proves it.

## Fairness

`FairSpec` of `Room` adds weak fairness of `NewBlock` (the chain goes on) and of
`GiveBackExpiredRedpacket(g)`. The pallet has no hook that gives packets back, but any
account may call it and the packet's money goes to its boss: the fairness is the
assumption that someone does, not a fact of the code. Under it `PacketsReturned` says
that a packet never stays for good. Weak fairness is enough, since a packet that is due
stays so until it is dealt with. Of `disband_room` no fairness is assumed: nobody has to
call it and both runtimes filter it out, so nothing is said about when a notice ends.
All other properties are safety properties and hold without fairness.

## Proofs

Every safety property the runs check is also a theorem of its specification, for every
number of users, rooms, assets, locations and tokens and every value of the other
constants that the assumptions of the modules allow.

| Theorem | States |
|---|---|
| `RoomProofs!InductiveInvariant` | `Spec => []IndInv`, from which the next four follow |
| `RoomProofs!TypeCorrect`, `MembersAlwaysCounted`, `ManagerAlwaysCovered`, `NothingEverOutlivesRoom` | `[]TypeOK`, `[]MembersCounted`, `[]ManagerFundsCovered`, `[]NothingOutlivesRoom` |
| `RoomProofs!PacketsStayBounded` | if no packet of zero is sent, `Spec => []PacketsBounded` |
| `RoomProofs!NeverOverfull` | `Spec => []RoomNotOverfull` |
| `RoomProofs!FilterStopsDisbanding` | if `Permitted` is within `SystemBaseCallFilter`, `Spec => []NoDisbandingUnderFilter` |
| `RoomProofs!NoticesAlwaysBacked` | every pending disbanding is of a room someone has spent in |
| `RoomProofs!LifecycleImplemented` | `Spec => LifecycleKept`, the refinement |
| `RoomProofs!PendingStaysFrozen` | `Spec => PendingFrozen` |
| `RoomMoneyProofs!FundsAlwaysConserved` | `Spec => FundsConserved` |
| `RoomMoneyProofs!VotesAlwaysWeighed` | `Spec => []VotesWeighed` |
| `RoomMoneyProofs!RewardsAlwaysSolvent` | `Spec => []PoolSolvent` |
| `CurrenciesProofs!AssetsStay` | `Spec => AssetInfoStable` |
| `CurrenciesProofs!TypesStay`, `UsersStayCounted`, `HoldersStayAlive` | `[]TypeOK`, `[]UsersCounted`, `[]HoldersAlive` |
| `CurrenciesProofs!NobodyIsEmptied`, `SupplyStaysFixed` | `NobodyEmptied`, `SupplyFixed` |
| `XcmProofs!MoneyReturnsHome` | `Spec => []ReturnsHome` |
| `XcmProofs!TypesStay`, `FeesAlwaysConserved` | `[]TypeOK`, `[]FeesConserved` |
| `XcmProofs!DeliveryAlwaysArrives`, `RevenueAlwaysArrives` | `DeliveryArrives`, `RevenueArrives` |
| `HoldsProofs!IssuanceStaysAgreed` | `Spec => []IssuanceAgrees` |
| `HoldsProofs!LockedMoneyStays` | `Spec => LocksHold` |
| `NftProofs!Types`, `OwnersAgree`, `SalesStayAgreed`, `OneActiveImage` | `[]TypeOK`, `[]OwnershipAgrees`, `[]SalesAgree`, `[]OneActive` |
| `NftProofs!IssuersExist`, `ClassesStay`, `LikeStaysBacked`, `SellersPaid` | `[]IssuerOfExists`, `[]TokensHaveClass`, `[]LikeBacked`, `SellerPaid` |

The arguments:

* **`IndInv` of `Room`.** None of its parts is inductive alone. A share taken by `exit` or set
  aside by `do_disband` is a balance only if the divisor is not zero (`MembersCounted`) and
  the dividend did not wrap (`ManagerFundsCovered`), so `TypeOK` needs both. `create_room`
  counts one member: right only if its id has no listeners left (`NothingOutlivesRoom`) and
  was never used (`RoomIdsFresh`). `MembersCounted` has a second case, for a room stored again
  after its disbanding, where the count is only a bound that keeps the divisor positive.
  `ManagerFundsCovered` rests on a fact about the configuration, `ProportionAssumption`: the
  room's proportion of a reward is at least the manager's. It is true of both runtimes (2
  and 1 percent in listen, 1 and 1 in tisten).
* **The refinement** needs `NoticesBacked`: in a room with a notice someone has spent, so a further
  request never disbands it at once and every notice given is for the full delay. A room that
  is disbanded and stored again is an open room before and after: the step is a stutter.
* **`PendingFrozen`** needs of a step that a room with a notice is not disbanded at once
  (`NoticesBacked`), and that every dispatchable but the reward, the treasury's spending and
  `disband_room` keeps a room's balance or refuses a room with a notice; the reward and the
  spending refuse it from the announced block on.
* **`PacketsBounded`** is inductive beside `IndInv`: a packet keeps the minimum it was sent with, so
  what it gave stays at least that minimum for each place taken, and a claim that reaches a
  limit takes the packet away. A packet of zero could be sent once root sets the minimum to
  zero, and has nothing to give: the theorem assumes there is none.
* **`FilterStopsDisbanding`** needs that a room has no votes at all, not only that none passed,
  because purchases count votes.
* **`FundsConserved`.** All the money there is, is a sum of the treasury and four sums over maps
  (`BooksAdded`). The maps are of numbers and finite, and ids of packets are fresh, so that a
  new packet overwrites none (`BooksKept`, inductive beside `IndInv`). A lemma per kind of step
  says which sums change by how much, a lemma per dispatchable that they balance; the two calls that
  disband have the change of the books that `FundsConserved` names.
* **`VotesWeighed`.** While a vote is open, each side's amount is at least what its voters have
  spent (`VotesSound`). A purchase adds to the amount on the voter's side as it adds to
  what he spent; a request starts a vote with empty sides, and a vote that is over is no
  claim. That a counted vote may end in a disbanding, or in the record stored again, is the
  lemma about `JudgeAndInsert`.
* **`PoolSolvent`** is not inductive. `PoolsSound` is: a reward gave what it counts times a share, the
  shares fit into it, and while nobody has two entries for its room, it counts no more claims than
  there are members whose entry is marked as paid. Those are members with an entry; if all of
  them stayed, there are no more of them than shares.
* **The registry.** `LocationsResolve` is inductive: what `force_set_location` overwrites or takes away is
  an entry of `LocationToCurrencyIds`, and the entries that are left still lead to an asset that
  is there. `RegistryProofs` proves this once, and that metadata that is set stays; `Currencies` and
  `Xcm` use it for their own next-state relations.
* **The ledger.** Between two calls a ledger is `Sound`: typed, each token account and each native balance
  has a provider of its own, and users are counted. Within a call it is not: the provider of a
  new token account is counted, and the air drop given with all its hooks, before the account
  is counted as a user. So the lemmas are about `Kept(l, n)`, with n the token accounts counted so far, and
  each nested call is proved for every n. The genesis and the funds of other chains are folds over
  sets of deposits; that such a fold keeps `Sound` is `FoldStays`, and what the deposits must find is
  proved of every ledger they pass. What a call does to supplies and to the last native money of an
  account is stated in the same lemmas, from which `SupplyFixed` and `NobodyEmptied` follow.
* **`Xcm`.** The types rest on the price being checked before it is taken and on a refund being of weight
  that was sold. `FeesConserved` is not inductive: `FeeBooks` says that in a plain message one component
  alone sold weight (`Books`), and that what it keeps covers the fee of the weight it has not taken back
  (`Covered`). A refund in parts keeps this since the fees of two weights, each rounded down, are at most
  the fee of both (`FeeSplits`), which is also why no product may wrap. That revenue arrives follows: one component
  alone drops it.
* **`Holds`.** A call stores at most two accounts. `StoresWell` says that what they gain is what is issued, less
  the dust, and then the sum over all accounts changes by as much as `total_issuance`. `LocksHold`: what is
  stored keeps what was free or what is frozen, and a native account that is removed had less than the
  minimum, since payments leave the air drop.
* **`Nft`.** The invariant has a part about tokens, their owners and sales and a part about classes and
  levels; no call disturbs both in a way that the other part must make up for. `LikeBacked` adds
  that a token without an owner locks no LIKE, and that what is locked is a sum over tokens that
  changes as the token that is claimed or burnt does.
  `TokensHaveClass` rests on `TokensCounted`: `total_issuance` is the number of a class's tokens,
  burned ones included, so a class that may be destroyed has none.

Sums are `SumFunctionOnSet` of the community modules, a fold. `SumTheorems` proves by induction what is needed of
sums and folds: that they exist, how they change with one element, one key or a union, that equal parts
give equal sums. The library's induction theorems take a predicate as a parameter, which the provers cannot
instantiate. The induction here is over sets: the family B of the subsets for which the claim holds
contains a set when it contains every set with one element less, so it has all of them (`SetInduction`). It is a
first-order statement, and B is given where the lemma is cited.

Assumptions. Users, accounts and locks are finitely many; durations and inputs are numbers; the period
of rewards and the length of a session are not zero; what a payment leaves, the air drop, is at least the
native existential deposit (`NativeED <= AirDropAmount`, and the same of the minimum in `Holds`).
In `Xcm` the assets of the hardcoded locations are currencies, KSM among them if the parent is a location, and a
message brings finitely many assets. TLC evaluates all of them on the runs.

Only model-checked is `PacketsReturned`: liveness, with the `ENABLED` that is in
fairness, is out of the provers' reach. The bounds of the runs do not limit the theorems, but what the models leave
out limits both.

## Not modelled

* Migrations: they call functions of the room pallet that are not in the repository.
  Weights and benchmarks are generated constants.
* The node: the collator template of cumulus, but for the assets of the chain specification.
* The collective and the room treasury pallets: their code is not in this
  repository; what they call is in `Room`.
* Barriers, routers and the asset trap of the XCM executor, the unknown tokens, and
  withdrawals that fail in the middle of a message.
* Hooks and holds together: `Ledger` has the hooks, `Holds` the holds, and neither looks at
  what the other keeps but for the provider counts they share.
* Votes of members who left, expired votes whose clearing is rolled back, a notice nobody
  carries out, a second purchase of weight, changes of a multiple in a message, and
  products that wrap are in the model, but no property promises anything about them.
* What `can_slash` answers: the pallet only hands the question on. Slashes are checked
  for what they do to the issuance.

## Further work

1. An abstract ledger of who holds how much, which `Room` and `Nft` implement under a
   mapping that adds up a room's funds, rewards and packets: conservation of money as a
   refinement.
2. `pay_out` over two rooms; the sorted insertion of `consume` against sorting.
3. Room and `Ledger` composed, so that joining and leaving rooms closes and opens
   accounts, and red packets in other currencies.
4. A condition on multiples under which fees add up over several purchases in one asset,
   and its proof.

## Running

    tlc -workers 2 -config RoomLife.cfg MCRoom     # any run of the tables above
    tlc -workers 2 -config Ledger.cfg MCCurrencies
    tlapm RoomProofs.tla

The passing runs take from a few seconds to three minutes each; those of `Xcm`,
`Holds`, `Nft` use the `MC` module of the same name. The runs named `Find...` end with a
counterexample.
