------------------------------ MODULE RoomTypes ------------------------------
(***************************************************************************)
(* The data of the room pallet (pallets/room): its configuration, the      *)
(* records it stores, and the pure functions its dispatchables share.      *)
(* Room.tla is the state machine built from them.                          *)
(*                                                                         *)
(* Balances are u128 in the code; Balance is 0 .. MaxBalance, and every    *)
(* checked_add / checked_mul of the code is a guard "... \in Balance".     *)
(***************************************************************************)
EXTENDS Integers, Sequences, FiniteSets, Functions

CONSTANTS
  Users,                \* accounts that use rooms, all of them air-dropped
  None,                 \* the Rust None where an account is optional
  Permitted,            \* the dispatchables the runtime's call filter lets in
  AirDropAmount,        \* a payer must keep more than this
  VoteExpire,           \* blocks a disband vote stays open
  ProtectedDuration,    \* blocks a new room is protected from a request
  DelayDisbandDuration, \* blocks between a passed vote and the disbanding
  RedPackExpire,        \* blocks a red packet can be claimed
  RewardDuration,       \* blocks per manager reward period
  ManagerProportion,    \* percent of the consumption minted for the manager
  RoomProportion,       \* percent of the consumption minted for the room
  EpochDuration,        \* EPOCH_DURATION_IN_BLOCKS: blocks per session
  Depth,                \* sessions a payout looks back
  MaxBalance            \* the largest balance (u128::MAX in the code)

CONSTANTS               \* inputs and bounds of a model
  InitialFree,          \* free balance of every user at genesis
  InitialSettings,      \* the root-settable storage at genesis
  MemberLimits,         \* values of max_members
  JoinCosts,            \* values of join_cost
  Quantities,           \* how many props or audio clips a purchase buys
  PacketAmounts,        \* values of a red packet, and of a claim
  LuckyNumbers,         \* values of lucky_man_number
  CostChoices,          \* balances root sets prices to
  IntervalChoices,      \* block counts root sets intervals to
  MaxBlock,             \* bound: last block of a behaviour
  MaxRooms,             \* bound: rooms ever created
  MaxRedPackets,        \* bound: red packets ever sent
  MaxMemberships        \* bound: times one user ever joins

Balance == 0 .. MaxBalance
RoomIds == 0 .. MaxRooms - 1

ASSUME DurationAssumption ==
  /\ VoteExpire \in Nat /\ ProtectedDuration \in Nat
  /\ DelayDisbandDuration \in Nat /\ RedPackExpire \in Nat
  /\ RewardDuration \in Nat \ {0}
  /\ EpochDuration \in Nat \ {0}
  /\ Depth \in Nat

\* A room's share of a reward is at least its manager's: 2% and 1% in the
\* listen runtime, 1% and 1% in tisten.
ASSUME ProportionAssumption ==
  /\ ManagerProportion \in 0 .. 100
  /\ RoomProportion \in ManagerProportion .. 100

\* The calls of the pallet that the filter of both runtimes lets in: none of those
\* that disband a room.
SystemBaseCallFilter(call) ==
  call \notin {"ask_for_disband_room", "vote", "pay_out", "disband_room"}

\* GroupMaxMembers: the size class a room is charged for.
RoomSizes == {"Ten", "Hundred", "FiveHundred", "TenThousand", "NoLimit"}

\* The storage only root writes: CreatePayment, RemoveInterval,
\* DisbandInterval, PropsPayment, AudioPayment and MinRedPackAmount. One sort
\* of prop and one sort of clip stand for the three of each.
Settings ==
  [create_cost : [RoomSizes -> Balance],
   remove_interval : [RoomSizes -> Nat],
   disband_interval : [RoomSizes -> Nat],
   price : [{"props", "audio"} -> Balance],
   min_redpack : Balance]

\* The settings of a new chain: a room of the smallest size costs one unit, its
\* members can be removed once a week and be asked daily to disband it. price is
\* that of the items and min that of a red packet, as long as root sets none.
GenesisSettings(unit, hour, price, min) ==
  LET day == 24 * hour
      PerSize(ten, hundred, five_hundred, ten_thousand, no_limit) ==
        [s \in RoomSizes |->
           CASE s = "Ten" -> ten [] s = "Hundred" -> hundred
             [] s = "FiveHundred" -> five_hundred
             [] s = "TenThousand" -> ten_thousand [] s = "NoLimit" -> no_limit]
  IN [create_cost |-> PerSize(unit, 10 * unit, 30 * unit, 200 * unit, 1000 * unit),
      remove_interval |-> PerSize(7 * day, day, 12 * hour, 8 * hour, 4 * hour),
      disband_interval |-> PerSize(day, 7 * day, 15 * day, 30 * day, 60 * day),
      price |-> [i \in {"props", "audio"} |-> price],
      min_redpack |-> min]

ASSUME InputAssumption ==
  /\ IsFiniteSet(Users) /\ None \notin Users
  /\ MaxBalance \in Nat /\ AirDropAmount \in Balance
  /\ InitialFree \in Balance /\ InitialSettings \in Settings
  /\ MemberLimits \subseteq Nat \ {0}
  /\ JoinCosts \subseteq Balance /\ Quantities \subseteq Nat \ {0}
  /\ PacketAmounts \subseteq Balance /\ LuckyNumbers \subseteq Nat
  /\ CostChoices \subseteq Balance /\ IntervalChoices \subseteq Nat
  /\ MaxBlock \in Nat /\ MaxRooms \in Nat
  /\ MaxRedPackets \in Nat /\ MaxMemberships \in Nat

-----------------------------------------------------------------------------
(* Records.                                                                *)

DisbandVote ==
  [approve_man : SUBSET Users, reject_man : SUBSET Users,
   approve_total_amount : Balance, reject_total_amount : Balance]

NoVotes ==
  [approve_man |-> {}, reject_man |-> {},
   approve_total_amount |-> 0, reject_total_amount |-> 0]

\* What the properties need of GroupInfo. group_manager is always Some(_), and
\* consume, a vector of (account, amount) with an entry per account, is a
\* function that is 0 where there is no entry.
RoomInfo ==
  [group_manager : Users,
   create_payment : Balance, join_cost : Balance,
   max_members : Nat, now_members_number : Nat,
   total_balances : Balance, group_manager_balances : Balance,
   create_block : Nat, last_block_of_get_the_reward : Nat,
   last_remove_someone_block : Nat,
   disband_vote_end_block : Nat, disband_vote : DisbandVote,
   consume : [Users -> Balance],
   council : SUBSET Users, black_list : SUBSET Users,
   is_private : BOOLEAN]

RoomRewardInfo ==
  [total_person : Nat, already_get_count : Nat,
   total_reward : Balance, already_get_reward : Balance,
   per_man_reward : Balance]

RedPacket ==
  [boss : Users, total : Balance, lucky_man_number : Nat,
   already_get_man : SUBSET Users, min_amount_of_per_man : Balance,
   already_get_amount : Balance, end_time : Nat]

\* An entry of PersonInfo.rooms.
Membership == [room : RoomIds, status : {"NotGet", "Get", "Expire"}]

-----------------------------------------------------------------------------
(* Pure functions.                                                         *)

\* Storage maps are functions whose domain is the set of stored keys.
Put(map, key, value) ==
  [k \in DOMAIN map \cup {key} |-> IF k = key THEN value ELSE map[k]]

EmptyMap == [k \in {} |-> 0]

Remove(map, keys) == Restrict(map, DOMAIN map \ keys)

\* Percent::from_percent(p) * x: to the nearest integer, a half goes down.
Percent(p, x) == (p * x + 49) \div 100

AtMost(x, y) == IF x <= y THEN x ELSE y

SaturatingSub(x, y) == IF x >= y THEN x - y ELSE 0

MembersConvertType(n) ==
  CASE n \in 1 .. 10 -> "Ten"
    [] n \in 11 .. 100 -> "Hundred"
    [] n \in 101 .. 500 -> "FiveHundred"
    [] n \in 501 .. 10000 -> "TenThousand"
    [] OTHER -> "NoLimit"

GetRoomConsumeAmount(room) == SumFunction(room.consume)

\* pay_for: how the cost of joining is split. The rest goes to the treasury.
PayForManagerNow(cost) == Percent(5, cost)
PayForManagerLater(cost) == Percent(5, cost)
PayForRoomLater(cost) == Percent(50, cost)

\* Mutant: what the room gets later goes to the treasury now as well.
PayForTreasuryAll(cost) ==
  SaturatingSub(cost, PayForManagerNow(cost) + PayForManagerLater(cost))

PayForTreasury(cost) ==
  SaturatingSub(cost,
    PayForManagerNow(cost) + PayForManagerLater(cost) + PayForRoomLater(cost))

\* is_vote_end: the result of the vote of a room at block now.
VoteEndResult(room, now) ==
  LET consumed == GetRoomConsumeAmount(room)
      approve == room.disband_vote.approve_total_amount
      reject == room.disband_vote.reject_total_amount
      decided == approve * 2 >= consumed \/ reject * 2 >= consumed
  IN CASE decided /\ approve >= reject -> "pass"
       [] decided /\ approve < reject -> "not_pass"
       [] ~decided /\ now > room.disband_vote_end_block -> "not_pass"
       [] OTHER -> "not_end"

\* remove_vote_info
RemoveVoteInfo(room, now) ==
  [room EXCEPT !.disband_vote = NoVotes,
               !.disband_vote_end_block = AtMost(@, now)]

\* Mutant: the number of members stays.
RemoveUncounted(room, who) == [room EXCEPT !.consume[who] = 0]

\* remove_someone_in_room and remove_consumer_info, on the room's record: the
\* votes of the one who leaves stay where they are.
RemoveSomeoneInRoom(room, who) ==
  [room EXCEPT !.now_members_number = SaturatingSub(@, 1),
               !.consume[who] = 0]

\* Mutant: who switches sides keeps his name on the other one.
ApproveTwice(votes, who, amount) ==
  [votes EXCEPT !.approve_man = @ \cup {who},
                !.approve_total_amount = @ + amount]

\* The votes of a room after who, who consumed amount, approves.
Approve(votes, who, amount) ==
  [approve_man |-> votes.approve_man \cup {who},
   approve_total_amount |-> votes.approve_total_amount + amount,
   reject_man |-> votes.reject_man \ {who},
   reject_total_amount |->
     IF who \in votes.reject_man
     THEN SaturatingSub(votes.reject_total_amount, amount)
     ELSE votes.reject_total_amount]

\* The votes of a room after who, who consumed amount, rejects.
Reject(votes, who, amount) ==
  [reject_man |-> votes.reject_man \cup {who},
   reject_total_amount |-> votes.reject_total_amount + amount,
   approve_man |-> votes.approve_man \ {who},
   approve_total_amount |->
     IF who \in votes.approve_man
     THEN SaturatingSub(votes.approve_total_amount, amount)
     ELSE votes.approve_total_amount]

\* What an earlier vote of who weighs after he spends amount more.
AddWeight(votes, who, amount) ==
  [votes EXCEPT
     !.approve_total_amount = IF who \in votes.approve_man THEN @ + amount ELSE @,
     !.reject_total_amount = IF who \in votes.reject_man THEN @ + amount ELSE @]

\* do_disband: what the members of a disbanded room share.
RewardInfo(room) ==
  LET listener_reward == room.total_balances - room.group_manager_balances
  IN [total_person |-> room.now_members_number,
      already_get_count |-> 0,
      total_reward |-> listener_reward,
      already_get_reward |-> 0,
      per_man_reward |-> listener_reward \div room.now_members_number]
=============================================================================
