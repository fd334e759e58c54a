-------------------------------- MODULE Room --------------------------------
(***************************************************************************)
(* The room pallet (pallets/room/src/lib.rs): rooms that people create,    *)
(* pay to join, spend money in, vote to disband, and are paid out of.      *)
(*                                                                         *)
(* One action per dispatchable. A dispatchable is transactional: when any  *)
(* step of it fails nothing is stored, so every error path is a guard. The *)
(* steps of concurrent users interleave in the order blocks apply them;    *)
(* NewBlock is the only action that advances the block number.             *)
(***************************************************************************)
EXTENDS RoomTypes

VARIABLES
  now,                  \* the block number
  settings,             \* the storage only root writes
  free,                 \* native balance of every user
  treasury,             \* native balance of the treasury account
  AllRoom,              \* room id -> RoomInfo, for the rooms that exist
  NextGroupId,
  ListenersOfRoom,      \* room id -> the accounts in it
  PurchaseSummary,      \* account -> PersonInfo.rooms, the rooms it joined
  PendingDisbandRooms,  \* room id -> first block it may be disbanded
  InfoOfDisbandedRoom,  \* <<session, room id>> -> RoomRewardInfo
  RedPacketOfRoom,      \* <<room id, packet id>> -> RedPacket
  NextRedPacketId

vars == <<now, settings, free, treasury, AllRoom, NextGroupId,
          ListenersOfRoom, PurchaseSummary, PendingDisbandRooms,
          InfoOfDisbandedRoom, RedPacketOfRoom, NextRedPacketId>>

clock == <<now, settings>>
counters == <<NextGroupId, NextRedPacketId>>
members == <<ListenersOfRoom, PurchaseSummary>>
money == <<free, treasury>>
disbanding == <<PendingDisbandRooms, InfoOfDisbandedRoom>>

ClockTyped == now \in Nat /\ settings \in Settings

MoneyTyped == free \in [Users -> Balance] /\ treasury \in Nat

RoomsTyped ==
  /\ DOMAIN AllRoom \subseteq RoomIds
  /\ \A g \in DOMAIN AllRoom : AllRoom[g] \in RoomInfo

MembersTyped ==
  /\ ListenersOfRoom \in [RoomIds -> SUBSET Users]
  /\ PurchaseSummary \in [Users -> Seq(Membership)]

DisbandingTyped ==
  /\ DOMAIN PendingDisbandRooms \subseteq RoomIds
  /\ \A g \in DOMAIN PendingDisbandRooms : PendingDisbandRooms[g] \in Nat
  /\ DOMAIN InfoOfDisbandedRoom \subseteq Nat \X RoomIds
  /\ \A k \in DOMAIN InfoOfDisbandedRoom : InfoOfDisbandedRoom[k] \in RoomRewardInfo

PacketsTyped ==
  /\ DOMAIN RedPacketOfRoom \subseteq RoomIds \X Nat
  /\ \A k \in DOMAIN RedPacketOfRoom : RedPacketOfRoom[k] \in RedPacket

CountersTyped == NextGroupId \in Nat /\ NextRedPacketId \in Nat

\* The types of the storage; Balance is what the code's u128 holds, so no
\* subtraction of the code wraps around.
TypeOK ==
  /\ ClockTyped /\ MoneyTyped /\ RoomsTyped /\ MembersTyped
  /\ DisbandingTyped /\ PacketsTyped /\ CountersTyped

Init ==
  /\ now = 0
  /\ settings = InitialSettings
  /\ free = [u \in Users |-> InitialFree]
  /\ treasury = 0
  /\ AllRoom = EmptyMap
  /\ NextGroupId = 0
  /\ ListenersOfRoom = [g \in RoomIds |-> {}]
  /\ PurchaseSummary = [u \in Users |-> <<>>]
  /\ PendingDisbandRooms = EmptyMap
  /\ InfoOfDisbandedRoom = EmptyMap
  /\ RedPacketOfRoom = EmptyMap
  /\ NextRedPacketId = 0

-----------------------------------------------------------------------------
(* Queries.                                                                *)

\* room_exists_and_user_in_room
InRoom(g, who) == g \in DOMAIN AllRoom /\ who \in ListenersOfRoom[g]

\* vote_passed_and_pending_disband, of a room that exists
Pending(g) == g \in DOMAIN PendingDisbandRooms

\* Mutant: the delay is not waited for.
IsCanDisbandAtOnce(g) == g \in DOMAIN PendingDisbandRooms

\* Mutant: the announced block is not one of those it may be disbanded in.
IsCanDisbandAfter(g) ==
  g \in DOMAIN PendingDisbandRooms /\ now > PendingDisbandRooms[g]

\* is_can_disband, of a room that exists
IsCanDisband(g) ==
  g \in DOMAIN PendingDisbandRooms /\ now >= PendingDisbandRooms[g]

\* is_voting
IsVoting(g, room) ==
  SaturatingSub(now, room.disband_vote_end_block) = 0 /\ ~Pending(g)

\* An origin of room g's manager or council: the dao pallet finds them with
\* get_root and get_room_council, which fail once the room can be disbanded.
RoomOrigin(g) == g \in DOMAIN AllRoom /\ ~IsCanDisband(g)

GetSessionIndex == now \div EpochDuration

\* The sessions pay_out searches that hold a reward of room g, and the one it
\* reaches first.
RewardSessions(g) ==
  {s \in 0 .. GetSessionIndex :
     GetSessionIndex - s < Depth /\ <<s, g>> \in DOMAIN InfoOfDisbandedRoom}

LatestReward(g) ==
  <<CHOOSE s \in RewardSessions(g) : \A t \in RewardSessions(g) : t <= s, g>>

-----------------------------------------------------------------------------
(* Money. Withdrawals leave more than AirDropAmount behind.                *)

CanPay(who, amount) ==
  amount = 0 \/ SaturatingSub(free[who], amount) > AirDropAmount

\* Bound: no balance grows above MaxBalance. It stands for the u128 that no
\* supply reaches.
Fits(balances) == \A u \in Users : balances[u] \in Balance

Remain(packet) == SaturatingSub(packet.total, packet.already_get_amount)

\* Mutant: only those whose boss is still in the room.
ExpiredOfListeners(g) ==
  {k \in DOMAIN RedPacketOfRoom :
     /\ k[1] = g /\ RedPacketOfRoom[k].end_time < now
     /\ RedPacketOfRoom[k].boss \in ListenersOfRoom[g]}

\* The packets give_back_expired_redpacket takes.
ExpiredPacketsOf(g) ==
  {k \in DOMAIN RedPacketOfRoom : k[1] = g /\ RedPacketOfRoom[k].end_time < now}

PacketsOf(g) == {k \in DOMAIN RedPacketOfRoom : k[1] = g}

\* Mutant: the boss gets back what others have got already.
RefundTotal(balances, packets) ==
  [u \in Users |-> balances[u] +
     SumFunction([k \in {p \in packets : RedPacketOfRoom[p].boss = u} |->
                    RedPacketOfRoom[k].total])]

\* remove_redpacket on each of the packets: what is left goes to its boss.
Refund(balances, packets) ==
  [u \in Users |-> balances[u] +
     SumFunction([k \in {p \in packets : RedPacketOfRoom[p].boss = u} |->
                    Remain(RedPacketOfRoom[k])])]

-----------------------------------------------------------------------------
(* Shared effects.                                                         *)

\* The rest of a dispatchable that stores the record of room g, and at most
\* moves money or removes a listener besides.
UpdateRoom(g, room) ==
  /\ AllRoom' = [AllRoom EXCEPT ![g] = room]
  /\ UNCHANGED <<clock, counters, PurchaseSummary, disbanding, RedPacketOfRoom>>

\* add_user_extra
AddUserExtra(who, g) ==
  /\ Len(PurchaseSummary[who]) < MaxMemberships
  /\ ListenersOfRoom' = [ListenersOfRoom EXCEPT ![g] = @ \cup {who}]
  /\ PurchaseSummary' = [PurchaseSummary EXCEPT
       ![who] = Append(@, [room |-> g, status |-> "NotGet"])]

\* do_disband of a room with this record, when free would be balances. What
\* becomes of AllRoom is up to the caller. remove_room_collective_info and
\* remove_room_treasury_info change the state of external pallets only.
DoDisband(g, room, balances) ==
  /\ free' = [Refund(balances, PacketsOf(g)) EXCEPT
                ![room.group_manager] = @ + room.group_manager_balances]
  /\ Fits(free')
  /\ RedPacketOfRoom' = Remove(RedPacketOfRoom, PacketsOf(g))
  /\ InfoOfDisbandedRoom' =
       Put(InfoOfDisbandedRoom, <<GetSessionIndex, g>>, RewardInfo(room))
  /\ ListenersOfRoom' = [ListenersOfRoom EXCEPT ![g] = {}]
  /\ PendingDisbandRooms' = Remove(PendingDisbandRooms, {g})

\* judge_vote_and_update_room, then the AllRoom::insert each of its callers
\* ends with: after a disbanding too, so the room's record is stored again.
JudgeAndInsert(g, room, balances) ==
  LET result == VoteEndResult(room, now)
      immediate == result = "pass" /\ GetRoomConsumeAmount(room) = 0
  IN \/ /\ immediate
        /\ DoDisband(g, room, balances)
        /\ AllRoom' = [AllRoom EXCEPT ![g] = room]
     \/ /\ ~immediate
        /\ AllRoom' = [AllRoom EXCEPT ![g] =
             CASE result = "pass" -> [room EXCEPT !.disband_vote_end_block = now]
               [] result = "not_pass" -> RemoveVoteInfo(room, now)
               [] result = "not_end" -> room]
        /\ PendingDisbandRooms' =
             IF result = "pass"
             THEN Put(PendingDisbandRooms, g, now + DelayDisbandDuration)
             ELSE PendingDisbandRooms
        /\ free' = balances
        /\ UNCHANGED <<ListenersOfRoom, InfoOfDisbandedRoom, RedPacketOfRoom>>

-----------------------------------------------------------------------------
(* Membership.                                                             *)

CreateRoom(who, max, cost, private) ==
  LET payment == settings.create_cost[MembersConvertType(max)]
  IN /\ "create_room" \in Permitted
     /\ NextGroupId < MaxRooms
     /\ CanPay(who, payment)
     /\ free' = [free EXCEPT ![who] = @ - payment]
     /\ treasury' = treasury + payment
     /\ AllRoom' = Put(AllRoom, NextGroupId,
          [group_manager |-> who,
           create_payment |-> payment, join_cost |-> cost,
           max_members |-> max, now_members_number |-> 1,
           total_balances |-> 0, group_manager_balances |-> 0,
           create_block |-> now, last_block_of_get_the_reward |-> now,
           last_remove_someone_block |-> now,
           disband_vote_end_block |-> now, disband_vote |-> NoVotes,
           consume |-> [u \in Users |-> 0],
           council |-> {}, black_list |-> {}, is_private |-> private])
     /\ AddUserExtra(who, NextGroupId)
     /\ NextGroupId' = NextGroupId + 1
     /\ UNCHANGED <<clock, disbanding, RedPacketOfRoom, NextRedPacketId>>

\* Mutant: the newcomer is not counted.
MayEnterFull(room, inviter, invitee, who) ==
  /\ room.is_private => invitee # None /\ inviter = room.group_manager
  /\ who \notin room.black_list
  /\ room.max_members >= room.now_members_number

MayEnter(room, inviter, invitee, who) ==
  /\ room.is_private => invitee # None /\ inviter = room.group_manager
  /\ who \notin room.black_list
  /\ room.max_members >= room.now_members_number + 1

\* join_do: room with another member, who costs join_cost. The shares of the
\* manager and the room stay in the room for later.
Joined(room) ==
  LET later == PayForManagerLater(room.join_cost)
  IN [room EXCEPT !.total_balances = @ + PayForRoomLater(room.join_cost) + later,
                  !.group_manager_balances = @ + later,
                  !.now_members_number = @ + 1]

\* into_room with join_do and pay_for: the inviter pays for the invitee, or
\* for himself when he invites no one.
IntoRoom(inviter, invitee, g) ==
  LET who == IF invitee = None THEN inviter ELSE invitee
      room == AllRoom[g]
      cost == room.join_cost
  IN /\ "into_room" \in Permitted
     /\ g \in DOMAIN AllRoom /\ ~Pending(g)
     /\ MayEnter(room, inviter, invitee, who)
     /\ ~InRoom(g, who)
     /\ CanPay(inviter, cost)
     /\ free' = [[free EXCEPT ![inviter] = @ - cost]
                  EXCEPT ![room.group_manager] = @ + PayForManagerNow(cost)]
     /\ Fits(free')
     /\ treasury' = treasury + PayForTreasury(cost)
     /\ Joined(room).total_balances \in Balance
     /\ AllRoom' = [AllRoom EXCEPT ![g] = Joined(room)]
     /\ AddUserExtra(who, g)
     /\ UNCHANGED <<clock, counters, disbanding, RedPacketOfRoom>>

\* Mutant: whoever quits takes what the last one would.
QuitWithAll(room) == room.total_balances

\* What a member who quits a room of several takes with him.
QuitShare(room) ==
  ((room.total_balances - room.group_manager_balances)
     \div room.now_members_number) \div 4

\* exit of a room others stay in
ExitAmongOthers(who, g) ==
  LET room == AllRoom[g]
      amount == QuitShare(room)
  IN /\ "exit" \in Permitted
     /\ InRoom(g, who) /\ ~Pending(g)
     /\ room.now_members_number > 1
     /\ who # room.group_manager /\ who \notin room.council
     /\ free' = [free EXCEPT ![who] = @ + amount]
     /\ Fits(free')
     /\ UpdateRoom(g,
          RemoveSomeoneInRoom([room EXCEPT !.total_balances = @ - amount], who))
     /\ ListenersOfRoom' = [ListenersOfRoom EXCEPT ![g] = @ \ {who}]
     /\ UNCHANGED treasury

\* exit of the last one: the room and its red packets go with him
ExitAsLast(who, g) ==
  /\ "exit" \in Permitted
  /\ InRoom(g, who) /\ ~Pending(g)
  /\ AllRoom[g].now_members_number <= 1
  /\ free' = Refund([free EXCEPT ![who] = @ + AllRoom[g].total_balances],
                    PacketsOf(g))
  /\ Fits(free')
  /\ AllRoom' = Remove(AllRoom, {g})
  /\ ListenersOfRoom' = [ListenersOfRoom EXCEPT ![g] = {}]
  /\ RedPacketOfRoom' = Remove(RedPacketOfRoom, PacketsOf(g))
  /\ UNCHANGED <<clock, counters, treasury, PurchaseSummary, disbanding>>

\* remove_someone; only the manager has to wait between two removals.
RemoveSomeone(g, who, by_root) ==
  LET room == AllRoom[g]
      until == SaturatingSub(now, room.last_remove_someone_block)
      interval == settings.remove_interval[MembersConvertType(room.max_members)]
  IN /\ "remove_someone" \in Permitted
     /\ RoomOrigin(g) /\ (~by_root => room.council # {})
     /\ InRoom(g, who) /\ ~Pending(g)
     /\ who # room.group_manager /\ who \notin room.council
     /\ by_root => until > interval
     /\ UpdateRoom(g, RemoveSomeoneInRoom(
          [room EXCEPT
             !.black_list = @ \cup {who},
             !.last_remove_someone_block = IF by_root THEN now ELSE @], who))
     /\ ListenersOfRoom' = [ListenersOfRoom EXCEPT ![g] = @ \ {who}]
     /\ UNCHANGED money

-----------------------------------------------------------------------------
(* Spending, voting and disbanding.                                        *)

\* Mutant: every purchase during a vote counts the votes.
HasVotedOrNot(room, who) == who \in Users

\* Whether a purchase of who changes the votes.
HasVoted(room, who) ==
  who \in room.disband_vote.approve_man \cup room.disband_vote.reject_man

\* buy_props_in_room and buy_audio_in_room, with update_user_consume_amount.
Buy(call, item, who, g, quantity) ==
  LET room == AllRoom[g]
      amount == quantity * settings.price[item]
      paid == [room EXCEPT !.total_balances = @ + amount,
                           !.consume[who] = @ + amount]
      votes == AddWeight(room.disband_vote, who, amount)
      counts == IsVoting(g, room) /\ HasVoted(room, who)
      balances == [free EXCEPT ![who] = @ - amount]
  IN /\ call \in Permitted
     /\ InRoom(g, who) /\ ~Pending(g)
     /\ CanPay(who, amount)
     /\ paid.total_balances \in Balance /\ paid.consume[who] \in Balance
     /\ \/ /\ counts
           /\ votes.approve_total_amount \in Balance
           /\ votes.reject_total_amount \in Balance
           /\ JudgeAndInsert(g, [paid EXCEPT !.disband_vote = votes], balances)
        \/ /\ ~counts
           /\ free' = balances
           /\ AllRoom' = [AllRoom EXCEPT ![g] = paid]
           /\ UNCHANGED <<ListenersOfRoom, disbanding, RedPacketOfRoom>>
     /\ UNCHANGED <<clock, counters, treasury, PurchaseSummary>>

BuyPropsInRoom(who, g, quantity) ==
  Buy("buy_props_in_room", "props", who, g, quantity)

BuyAudioInRoom(who, g, quantity) ==
  Buy("buy_audio_in_room", "audio", who, g, quantity)

\* ask_for_disband_room: a pending disbanding does not stop it.
AskForDisbandRoom(who, g) ==
  LET room == AllRoom[g]
      until == SaturatingSub(now, room.disband_vote_end_block)
      interval == settings.disband_interval[MembersConvertType(room.max_members)]
      disband_payment == Percent(10, room.create_payment)
      votes == Approve(NoVotes, who, room.consume[who])
  IN /\ "ask_for_disband_room" \in Permitted
     /\ InRoom(g, who)
     /\ SaturatingSub(now, room.create_block) > ProtectedDuration
     /\ until > interval
     /\ ~IsVoting(g, room)
     /\ CanPay(who, disband_payment)
     /\ treasury' = treasury + disband_payment
     /\ JudgeAndInsert(g,
          [room EXCEPT !.disband_vote = votes,
                       !.disband_vote_end_block = now + VoteExpire],
          [free EXCEPT ![who] = @ - disband_payment])
     /\ UNCHANGED <<clock, counters, PurchaseSummary>>

\* vote. The branch that clears an expired vote returns an error, so what it
\* stores is rolled back and it is no action.
Vote(who, g, approves) ==
  LET room == AllRoom[g]
      amount == room.consume[who]
      votes == IF approves THEN Approve(room.disband_vote, who, amount)
                           ELSE Reject(room.disband_vote, who, amount)
  IN /\ "vote" \in Permitted
     /\ InRoom(g, who) /\ ~Pending(g)
     /\ amount # 0
     /\ IsVoting(g, room)
     /\ approves => who \notin room.disband_vote.approve_man
     /\ ~approves => who \notin room.disband_vote.reject_man
     /\ votes.approve_total_amount \in Balance
     /\ votes.reject_total_amount \in Balance
     /\ JudgeAndInsert(g, [room EXCEPT !.disband_vote = votes], free)
     /\ UNCHANGED <<clock, counters, treasury, PurchaseSummary>>

\* disband_room, which anyone may call
DisbandRoom(g) ==
  /\ "disband_room" \in Permitted
  /\ g \in DOMAIN AllRoom /\ IsCanDisband(g)
  /\ DoDisband(g, AllRoom[g], free)
  /\ AllRoom' = Remove(AllRoom, {g})
  /\ UNCHANGED <<clock, counters, treasury, PurchaseSummary>>

-----------------------------------------------------------------------------
(* Rewards.                                                                *)

\* get_reward_info: the consumption is rewarded once per period, five periods
\* at most, and what lies further back is lost.
RewardPeriods(room) ==
  SaturatingSub(now, room.last_block_of_get_the_reward) \div RewardDuration

TotalReward(room) ==
  GetRoomConsumeAmount(room) * AtMost(RewardPeriods(room), 5)

\* Mutant: the room keeps the manager's part too.
RewardedBothBalances(room, total_reward) ==
  room.total_balances + Percent(RoomProportion, total_reward)

\* What a room holds after a reward: of its proportion the manager is paid.
RewardedBalances(room, total_reward) ==
  SaturatingSub(room.total_balances + Percent(RoomProportion, total_reward),
                Percent(ManagerProportion, total_reward))

\* manager_get_reward
ManagerGetReward(g) ==
  LET room == AllRoom[g]
      total_reward == TotalReward(room)
  IN /\ "manager_get_reward" \in Permitted
     /\ RoomOrigin(g)
     /\ RewardPeriods(room) # 0
     /\ total_reward # 0 /\ total_reward \in Balance
     /\ free' = [free EXCEPT ![room.group_manager] =
                                @ + Percent(ManagerProportion, total_reward)]
     /\ Fits(free')
     /\ room.total_balances + Percent(RoomProportion, total_reward) \in Balance
     /\ UpdateRoom(g, [room EXCEPT
          !.total_balances = RewardedBalances(room, total_reward),
          !.last_block_of_get_the_reward =
             @ + RewardPeriods(room) * RewardDuration])
     /\ UNCHANGED <<treasury, ListenersOfRoom>>

\* The entries of who for room g that are not paid yet.
NotGetEntries(who, g) ==
  {i \in DOMAIN PurchaseSummary[who] :
     PurchaseSummary[who][i] = [room |-> g, status |-> "NotGet"]}

\* The reward of a room after that many of its shares are paid at once.
PaidShares(info, shares) ==
  [info EXCEPT !.already_get_count = @ + shares,
               !.already_get_reward = @ + shares * info.per_man_reward]

\* Mutant: an entry that was paid stays to be paid.
MarkExpiredOnly(entries, due, found) ==
  [i \in DOMAIN entries |->
     IF entries[i].room \in due \ found
     THEN [entries[i] EXCEPT !.status = "Expire"]
     ELSE entries[i]]

\* The entries of a member after a payout of the rooms found and the failure to
\* find the other due ones: for each room the first entry is marked, whichever
\* entry was due.
MarkPaid(entries, due, found) ==
  [i \in DOMAIN entries |->
     IF /\ entries[i].room \in due
        /\ \A j \in 1 .. i - 1 : entries[j].room # entries[i].room
     THEN [entries[i] EXCEPT
             !.status = IF entries[i].room \in found THEN "Get" ELSE "Expire"]
     ELSE entries[i]]

\* pay_out: all the rooms of who that do not exist any more, at once.
PayOut(who) ==
  LET due == {g \in RoomIds \ DOMAIN AllRoom : NotGetEntries(who, g) # {}}
      found == {g \in due : RewardSessions(g) # {}}
      shares(g) == Cardinality(NotGetEntries(who, g))
      amount == SumFunction([g \in found |->
                  shares(g) * InfoOfDisbandedRoom[LatestReward(g)].per_man_reward])
      paid == {LatestReward(g) : g \in found}
  IN /\ "pay_out" \in Permitted
     /\ amount # 0
     /\ free' = [free EXCEPT ![who] = @ + amount]
     /\ Fits(free')
     /\ InfoOfDisbandedRoom' =
          [k \in DOMAIN InfoOfDisbandedRoom |->
             IF k \in paid THEN PaidShares(InfoOfDisbandedRoom[k], shares(k[2]))
                           ELSE InfoOfDisbandedRoom[k]]
     /\ \A k \in paid : InfoOfDisbandedRoom'[k].already_get_reward \in Balance
     /\ ListenersOfRoom' =
          [g \in RoomIds |->
             IF g \notin found THEN ListenersOfRoom[g]
             ELSE LET info == InfoOfDisbandedRoom[LatestReward(g)]
                  IN IF info.total_person - info.already_get_count \in 1 .. shares(g)
                     THEN {} ELSE ListenersOfRoom[g] \ {who}]
     /\ PurchaseSummary' =
          [PurchaseSummary EXCEPT ![who] = MarkPaid(@, due, found)]
     /\ UNCHANGED <<clock, counters, treasury, AllRoom, PendingDisbandRooms,
                    RedPacketOfRoom>>

-----------------------------------------------------------------------------
(* Red packets. All of them are in the native currency here.               *)

SendRedpacketInRoom(who, g, lucky, amount) ==
  /\ "send_redpacket_in_room" \in Permitted
  /\ NextRedPacketId < MaxRedPackets
  /\ lucky # 0
  /\ InRoom(g, who) /\ ~Pending(g)
  /\ settings.min_redpack * lucky <= amount
  /\ CanPay(who, amount)
  /\ free' = [free EXCEPT ![who] = @ - amount]
  /\ RedPacketOfRoom' = Put(RedPacketOfRoom, <<g, NextRedPacketId>>,
       [boss |-> who, total |-> amount, lucky_man_number |-> lucky,
        already_get_man |-> {}, min_amount_of_per_man |-> settings.min_redpack,
        already_get_amount |-> 0, end_time |-> now + RedPackExpire])
  /\ NextRedPacketId' = NextRedPacketId + 1
  /\ UNCHANGED <<clock, NextGroupId, treasury, AllRoom, members, disbanding>>

\* Mutant: the minimum of today, not of the packet.
ClaimableToday(packet, who, amount) ==
  /\ settings.min_redpack <= amount /\ amount <= Remain(packet)
  /\ Cardinality(packet.already_get_man) < packet.lucky_man_number
  /\ who \notin packet.already_get_man

\* Whether get_redpacket_in_room gives this amount to this member.
Claimable(packet, who, amount) ==
  /\ packet.min_amount_of_per_man <= amount /\ amount <= Remain(packet)
  /\ Cardinality(packet.already_get_man) < packet.lucky_man_number
  /\ who \notin packet.already_get_man

\* get_redpacket_in_room, which the multisig account calls with a list of
\* members and amounts: this is the body of its loop for one of them. The list
\* is handled entry by entry, so a longer list is a sequence of such steps in
\* one block. The branch of an expired packet is rolled back by its error.
GetRedpacketInRoom(g, id, who, amount) ==
  LET packet == RedPacketOfRoom[<<g, id>>]
      got == [packet EXCEPT !.already_get_man = @ \cup {who},
                            !.already_get_amount = @ + amount]
      full == Cardinality(got.already_get_man) = packet.lucky_man_number
      rest == IF full THEN Remain(got) ELSE 0
  IN /\ "get_redpacket_in_room" \in Permitted
     /\ <<g, id>> \in DOMAIN RedPacketOfRoom
     /\ packet.end_time >= now
     /\ InRoom(g, who)
     /\ Claimable(packet, who, amount)
     /\ free' = [[free EXCEPT ![who] = @ + amount] EXCEPT ![packet.boss] = @ + rest]
     /\ Fits(free')
     /\ RedPacketOfRoom' =
          IF full \/ got.already_get_amount = packet.total
          THEN Remove(RedPacketOfRoom, {<<g, id>>})
          ELSE [RedPacketOfRoom EXCEPT ![<<g, id>>] = got]
     /\ UNCHANGED <<clock, counters, treasury, AllRoom, members, disbanding>>

\* give_back_expired_redpacket
GiveBackExpiredRedpacket(g) ==
  LET expired == ExpiredPacketsOf(g)
  IN /\ "give_back_expired_redpacket" \in Permitted
     /\ g \in DOMAIN AllRoom
     /\ expired # {}
     /\ free' = Refund(free, expired)
     /\ Fits(free')
     /\ RedPacketOfRoom' = Remove(RedPacketOfRoom, expired)
     /\ UNCHANGED <<clock, counters, treasury, AllRoom, members, disbanding>>

-----------------------------------------------------------------------------
(* What a room's manager or council sets.                                  *)

SetCouncilMembers(g, council) ==
  /\ "set_council_members" \in Permitted
  /\ RoomOrigin(g)
  /\ council # {}
  /\ UpdateRoom(g, [AllRoom[g] EXCEPT !.council = council])
  /\ UNCHANGED <<money, ListenersOfRoom>>

AddCouncilMember(g, who) ==
  /\ "add_council_member" \in Permitted
  /\ RoomOrigin(g)
  /\ who \notin AllRoom[g].council
  /\ UpdateRoom(g, [AllRoom[g] EXCEPT !.council = @ \cup {who}])
  /\ UNCHANGED <<money, ListenersOfRoom>>

RemoveCouncilMember(g, who) ==
  /\ "remove_council_member" \in Permitted
  /\ RoomOrigin(g)
  /\ UpdateRoom(g, [AllRoom[g] EXCEPT !.council = @ \ {who}])
  /\ UNCHANGED <<money, ListenersOfRoom>>

UpdateJoinCost(g, cost) ==
  /\ "update_join_cost" \in Permitted
  /\ RoomOrigin(g) /\ ~Pending(g)
  /\ cost # AllRoom[g].join_cost
  /\ UpdateRoom(g, [AllRoom[g] EXCEPT !.join_cost = cost])
  /\ UNCHANGED <<money, ListenersOfRoom>>

SetRoomPrivacy(g, private) ==
  /\ "set_room_privacy" \in Permitted
  /\ RoomOrigin(g)
  /\ private # AllRoom[g].is_private
  /\ UpdateRoom(g, [AllRoom[g] EXCEPT !.is_private = private])
  /\ UNCHANGED <<money, ListenersOfRoom>>

\* set_max_number_for_room_members: the manager pays the difference of the two
\* size classes; nothing is paid back.
SetMaxNumberForRoomMembers(g, new_max) ==
  LET room == AllRoom[g]
      new_amount == settings.create_cost[MembersConvertType(new_max)]
      add_amount == SaturatingSub(new_amount,
        settings.create_cost[MembersConvertType(room.max_members)])
  IN /\ "set_max_number_for_room_members" \in Permitted
     /\ RoomOrigin(g)
     /\ new_max # room.max_members
     /\ room.now_members_number <= new_max
     /\ CanPay(room.group_manager, add_amount)
     /\ free' = [free EXCEPT ![room.group_manager] = @ - add_amount]
     /\ treasury' = treasury + add_amount
     /\ UpdateRoom(g, [room EXCEPT !.max_members = new_max,
                                   !.create_payment = new_amount])
     /\ UNCHANGED ListenersOfRoom

RemoveSomeoneFromBlacklist(g, who) ==
  /\ "remove_someone_from_blacklist" \in Permitted
  /\ RoomOrigin(g) /\ ~Pending(g)
  /\ who \in AllRoom[g].black_list
  /\ UpdateRoom(g, [AllRoom[g] EXCEPT !.black_list = @ \ {who}])
  /\ UNCHANGED <<money, ListenersOfRoom>>

\* Mutant: the manager's part is free as well.
RoomAllAmount(room) == room.total_balances

\* get_room_free_amount, of a room that cannot be disbanded yet
RoomFreeAmount(room) ==
  SaturatingSub(room.total_balances, room.group_manager_balances)

\* sub_room_free_amount of the ListenHandler: the room treasury pallet, which
\* is external, takes what an approved proposal spends.
SubRoomFreeAmount(g, amount) ==
  LET room == AllRoom[g]
  IN /\ "sub_room_free_amount" \in Permitted
     /\ g \in DOMAIN AllRoom /\ ~IsCanDisband(g)
     /\ RoomFreeAmount(room) >= amount
     /\ UpdateRoom(g, [room EXCEPT !.total_balances = @ - amount])
     /\ UNCHANGED <<money, ListenersOfRoom>>

-----------------------------------------------------------------------------
(* What root sets: set_create_cost, set_remove_interval,                   *)
(* set_disband_interval, set_props_price and set_audio_price,              *)
(* set_redpack_min_amount.                                                 *)

ChangeSettings(call, new) ==
  /\ call \in Permitted
  /\ settings' = new
  /\ UNCHANGED <<now, counters, members, money, AllRoom, disbanding,
                 RedPacketOfRoom>>

SetCreateCost(size, amount) ==
  /\ amount # settings.create_cost[size]
  /\ ChangeSettings("set_create_cost",
                    [settings EXCEPT !.create_cost[size] = amount])

SetRemoveInterval(size, interval) ==
  /\ interval # settings.remove_interval[size]
  /\ ChangeSettings("set_remove_interval",
                    [settings EXCEPT !.remove_interval[size] = interval])

SetDisbandInterval(size, interval) ==
  /\ interval # settings.disband_interval[size]
  /\ ChangeSettings("set_disband_interval",
                    [settings EXCEPT !.disband_interval[size] = interval])

SetPropsPrice(amount) ==
  ChangeSettings("set_props_price", [settings EXCEPT !.price["props"] = amount])

SetAudioPrice(amount) ==
  ChangeSettings("set_audio_price", [settings EXCEPT !.price["audio"] = amount])

SetRedpackMinAmount(amount) ==
  /\ amount # settings.min_redpack
  /\ ChangeSettings("set_redpack_min_amount",
                    [settings EXCEPT !.min_redpack = amount])

NewBlock ==
  /\ now < MaxBlock
  /\ now' = now + 1
  /\ UNCHANGED <<settings, counters, members, money, AllRoom, disbanding,
                 RedPacketOfRoom>>

-----------------------------------------------------------------------------

\* The size classes of the rooms of this model.
SizesInUse == {MembersConvertType(max) : max \in MemberLimits}

RootNext ==
  \/ \E size \in SizesInUse, amount \in CostChoices : SetCreateCost(size, amount)
  \/ \E size \in SizesInUse, interval \in IntervalChoices :
       \/ SetRemoveInterval(size, interval)
       \/ SetDisbandInterval(size, interval)
  \/ \E amount \in CostChoices :
       SetPropsPrice(amount) \/ SetAudioPrice(amount) \/ SetRedpackMinAmount(amount)

ManagerNext(g) ==
  \/ \E council \in SUBSET Users : SetCouncilMembers(g, council)
  \/ \E who \in Users :
       \/ AddCouncilMember(g, who)
       \/ RemoveCouncilMember(g, who)
       \/ RemoveSomeoneFromBlacklist(g, who)
       \/ \E by_root \in BOOLEAN : RemoveSomeone(g, who, by_root)
  \/ \E cost \in JoinCosts : UpdateJoinCost(g, cost)
  \/ \E private \in BOOLEAN : SetRoomPrivacy(g, private)
  \/ \E new_max \in MemberLimits : SetMaxNumberForRoomMembers(g, new_max)
  \/ ManagerGetReward(g)
  \/ \E amount \in PacketAmounts : SubRoomFreeAmount(g, amount)

MemberNext(who, g) ==
  \/ \E invitee \in Users \cup {None} : IntoRoom(who, invitee, g)
  \/ ExitAmongOthers(who, g) \/ ExitAsLast(who, g)
  \/ \E quantity \in Quantities :
       BuyPropsInRoom(who, g, quantity) \/ BuyAudioInRoom(who, g, quantity)
  \/ AskForDisbandRoom(who, g)
  \/ \E approves \in BOOLEAN : Vote(who, g, approves)
  \/ \E lucky \in LuckyNumbers, amount \in PacketAmounts :
       SendRedpacketInRoom(who, g, lucky, amount)

Next ==
  \/ NewBlock
  \/ RootNext
  \/ \E who \in Users, max \in MemberLimits, cost \in JoinCosts,
        private \in BOOLEAN : CreateRoom(who, max, cost, private)
  \/ \E g \in RoomIds : ManagerNext(g)
  \/ \E who \in Users, g \in RoomIds : MemberNext(who, g)
  \/ \E g \in RoomIds : DisbandRoom(g) \/ GiveBackExpiredRedpacket(g)
  \/ \E who \in Users : PayOut(who)
  \/ \E k \in DOMAIN RedPacketOfRoom, who \in Users, amount \in PacketAmounts :
       GetRedpacketInRoom(k[1], k[2], who, amount)

Spec == Init /\ [][Next]_vars

\* Blocks follow one another, and someone calls give_back_expired_redpacket, as
\* any account may, when there is a packet to give back. The pallet has no hook
\* that does.
Fairness ==
  /\ WF_vars(NewBlock)
  /\ \A g \in RoomIds : WF_vars(GiveBackExpiredRedpacket(g))

FairSpec == Spec /\ Fairness
=============================================================================
