--------------------------- MODULE RoomProperties ---------------------------
(***************************************************************************)
(* What the room pallet should never do: invariants and action properties  *)
(* of Room. Room!TypeOK is the type invariant.                             *)
(***************************************************************************)
EXTENDS Room

\* No reward of room g was ever set aside: it has not been disbanded. A room
\* that exists although it has been (see DisbandedRoomDeleted) is not meant by
\* the properties that rest on this.
Undisbanded(g) == \A k \in DOMAIN InfoOfDisbandedRoom : k[2] # g

-----------------------------------------------------------------------------
(* Membership.                                                             *)

CountedIn(g) ==
  LET room == AllRoom[g]
      present == ListenersOfRoom[g]
  IN IF Undisbanded(g)
     THEN /\ room.now_members_number = Cardinality(present)
          /\ room.group_manager \in present
     ELSE room.now_members_number >=
            Cardinality(present \cup {room.group_manager})

\* now_members_number, the divisor of every share, is the number of listeners
\* through all joins, exits and removals, and the manager is one of them. In a
\* room that outlived its disbanding it still covers the listeners and the
\* manager, so it is never zero.
MembersCounted == \A g \in DOMAIN AllRoom : CountedIn(g)

\* Neither into_room nor set_max_number_for_room_members, in any order, lets a
\* room hold more than max_members, and no one on the black list is in it.
RoomNotOverfull ==
  \A g \in DOMAIN AllRoom :
    /\ AllRoom[g].now_members_number <= AllRoom[g].max_members
    /\ AllRoom[g].black_list \cap ListenersOfRoom[g] = {}

\* Nothing is left of a room that is gone: no listeners, no pending disbanding
\* and no red packet, so that all that was in a packet was given or refunded.
NothingOutlivesRoom ==
  /\ \A g \in RoomIds \ DOMAIN AllRoom : ListenersOfRoom[g] = {}
  /\ DOMAIN PendingDisbandRooms \subseteq DOMAIN AllRoom
  /\ \A k \in DOMAIN RedPacketOfRoom : k[1] \in DOMAIN AllRoom

\* Room ids are never used twice: the next one is above those of all rooms
\* there are and of all rooms there were.
RoomIdsFresh ==
  /\ \A g \in DOMAIN AllRoom : g < NextGroupId
  /\ \A k \in DOMAIN InfoOfDisbandedRoom : k[2] < NextGroupId

-----------------------------------------------------------------------------
(* Money.                                                                  *)

CoveredIn(g) ==
  AllRoom[g].group_manager_balances <= AllRoom[g].total_balances

\* What a room owes its manager is always part of what it holds: the
\* subtraction in do_disband cannot wrap around, and exit and the room treasury
\* never spend the manager's part.
ManagerFundsCovered == \A g \in DOMAIN AllRoom : CoveredIn(g)

\* The inductive invariant of RoomProofs. A quitter's share needs the divisor
\* of MembersCounted and the cover of ManagerFundsCovered to be a balance, and a
\* new room is counted right because its id is fresh and has no listeners yet.
IndInv ==
  /\ TypeOK /\ MembersCounted /\ ManagerFundsCovered
  /\ NothingOutlivesRoom /\ RoomIdsFresh

RoomFunds == SumFunction([g \in DOMAIN AllRoom |-> AllRoom[g].total_balances])

PoolFunds ==
  SumFunction([k \in DOMAIN InfoOfDisbandedRoom |->
    InfoOfDisbandedRoom[k].total_reward - InfoOfDisbandedRoom[k].already_get_reward])

PacketFunds ==
  SumFunction([k \in DOMAIN RedPacketOfRoom |-> Remain(RedPacketOfRoom[k])])

\* All the money there is: of users and treasury, in rooms, in the rewards of
\* disbanded rooms not yet paid, and in red packets.
TotalFunds == SumFunction(free) + treasury + RoomFunds + PoolFunds + PacketFunds

\* What is left of a room's reward of this session.
Unpaid(g) ==
  LET k == <<GetSessionIndex, g>>
  IN IF k \in DOMAIN InfoOfDisbandedRoom
     THEN InfoOfDisbandedRoom[k].total_reward - InfoOfDisbandedRoom[k].already_get_reward
     ELSE 0

\* A step that disbands room g, whether its record is deleted or stored again.
Disbands(g) ==
  InfoOfDisbandedRoom' =
    Put(InfoOfDisbandedRoom, <<GetSessionIndex, g>>,
        RewardInfo(IF g \in DOMAIN AllRoom' THEN AllRoom'[g] ELSE AllRoom[g]))

\* What a room holds after a step, if it is there.
StoredFunds(g) == IF g \in DOMAIN AllRoom THEN AllRoom[g].total_balances ELSE 0

\* The rooms a step pays the manager's reward of.
Rewarded ==
  {g \in DOMAIN AllRoom \cap DOMAIN AllRoom' :
     AllRoom'[g].last_block_of_get_the_reward
       # AllRoom[g].last_block_of_get_the_reward}

\* What such a step mints.
Minted ==
  SumFunction([g \in Rewarded |-> Percent(RoomProportion, TotalReward(AllRoom[g]))])

\* No dispatchable makes or loses money, whichever of its parts is paid now,
\* later, to the treasury or back to a boss. Only manager_get_reward mints, and
\* it mints the room's proportion, of which the manager's is taken; only what
\* the room treasury spends goes elsewhere. Two disbandings break the books: a
\* room whose record is stored again still has what was paid out, and a room
\* disbanded again in a session overwrites what is left of its first reward.
FundsConserved ==
  [][\/ \E g \in RoomIds, amount \in PacketAmounts :
          SubRoomFreeAmount(g, amount) /\ TotalFunds' = TotalFunds - amount
     \/ \E g \in DOMAIN AllRoom :
          Disbands(g) /\ TotalFunds' = TotalFunds - Unpaid(g) + StoredFunds(g)'
     \/ TotalFunds' = TotalFunds + Minted]_vars

\* The entries of who for room g, paid or not.
EntriesOf(who, g) ==
  {i \in DOMAIN PurchaseSummary[who] : PurchaseSummary[who][i].room = g}

\* Those who ever joined the disbanded room of k did so once and never left.
EveryoneStayed(k) ==
  /\ \A u \in Users : Cardinality(EntriesOf(u, k[2])) <= 1
  /\ Cardinality({u \in Users : EntriesOf(u, k[2]) # {}})
       = InfoOfDisbandedRoom[k].total_person

SolventReward(info) ==
  /\ info.already_get_count <= info.total_person
  /\ info.already_get_reward <= info.total_reward

\* If no one left a room before it was disbanded, its reward covers the claims:
\* no one is paid twice, however often members call pay_out, in whatever order
\* and session.
PoolSolvent ==
  \A k \in DOMAIN InfoOfDisbandedRoom :
    EveryoneStayed(k) => SolventReward(InfoOfDisbandedRoom[k])

\* A red packet that is still there never gave more than it holds, nor to as
\* many as it has places, and everyone who got a part got at least the minimum
\* of the time it was sent, whatever root has set since.
PacketsBounded ==
  \A k \in DOMAIN RedPacketOfRoom :
    LET packet == RedPacketOfRoom[k]
        lucky == Cardinality(packet.already_get_man)
    IN /\ packet.already_get_amount < packet.total
       /\ lucky < packet.lucky_man_number
       /\ packet.already_get_amount >= lucky * packet.min_amount_of_per_man

-----------------------------------------------------------------------------
(* Disbanding.                                                             *)

\* A member's vote is on one side, and while the vote is open each side's
\* amount covers what its voters who are still members have spent, however
\* often they switched sides or spent more in between.
VotesWeighed ==
  \A g \in DOMAIN AllRoom :
    LET room == AllRoom[g]
        votes == room.disband_vote
    IN /\ votes.approve_man \cap votes.reject_man = {}
       /\ IsVoting(g, room) =>
            /\ votes.approve_total_amount >=
                 SumFunctionOnSet(room.consume, votes.approve_man)
            /\ votes.reject_total_amount >=
                 SumFunctionOnSet(room.consume, votes.reject_man)

\* The rooms without a notice, and the rooms with one.
Lifecycle ==
  INSTANCE RoomLifecycle WITH
    Notice <- DelayDisbandDuration, block <- now, opened <- NextGroupId,
    open <- DOMAIN AllRoom \ DOMAIN PendingDisbandRooms,
    notices <- PendingDisbandRooms

\* The pallet implements the life of a room that RoomLifecycle promises: through
\* votes, purchases that decide them, requests while a disbanding is pending,
\* exits and immediate disbandings, a room that passed its vote keeps its notice,
\* goes by disband_room only, and its id is never used again.
LifecycleKept == Lifecycle!LifecycleSpec

\* What room g holds after a step, in which its disbanding is pending: before the
\* announced block it grows by the manager's reward only, and falls only by what
\* the room treasury spends; from that block on it stays.
SharesSettled(g) ==
  \/ AllRoom'[g].total_balances = AllRoom[g].total_balances
  \/ /\ now < PendingDisbandRooms[g]
     /\ g \in Rewarded <=> AllRoom'[g].total_balances > AllRoom[g].total_balances

\* While a disbanding is pending no one joins, leaves, is removed or spends, and
\* the manager's part stays; from the announced block on, however long it takes
\* until someone calls disband_room, nothing changes what is shared either.
\* Before it manager_get_reward and sub_room_free_amount still do.
PendingFrozen ==
  [][\A g \in DOMAIN PendingDisbandRooms \cap DOMAIN PendingDisbandRooms' :
       /\ ListenersOfRoom'[g] = ListenersOfRoom[g]
       /\ AllRoom'[g].now_members_number = AllRoom[g].now_members_number
       /\ AllRoom'[g].consume = AllRoom[g].consume
       /\ AllRoom'[g].group_manager_balances = AllRoom[g].group_manager_balances
       /\ SharesSettled(g)]_vars

\* What is in a red packet does not stay there for good: the packet is used up,
\* given back or goes with its room, wherever its boss is by then.
PacketsReturned ==
  \A k \in RoomIds \X (0 .. MaxRedPackets - 1) :
    (k \in DOMAIN RedPacketOfRoom /\ RedPacketOfRoom[k].end_time < MaxBlock)
      ~> k \notin DOMAIN RedPacketOfRoom

\* The calls the system's filter rejects are all it takes: without them no
\* disbanding is ever announced or carried out, although buying in a room
\* counts votes as well.
NoDisbandingUnderFilter ==
  /\ PendingDisbandRooms = EmptyMap
  /\ InfoOfDisbandedRoom = EmptyMap
  /\ \A g \in DOMAIN AllRoom : AllRoom[g].disband_vote = NoVotes

-----------------------------------------------------------------------------
(* What comments of the pallet say and the code does not do.               *)

\* "The room information was deleted when the room was disbanded."
\* (pallets/room/src/lib.rs:1219)
DisbandedRoomDeleted ==
  \A k \in DOMAIN InfoOfDisbandedRoom : k[2] \notin DOMAIN AllRoom

\* "Groups cannot be dissolved for a period of time after they are created"
\* (pallets/room/src/lib.rs:1021)
ProtectedAfterCreation ==
  [][\A g \in DOMAIN AllRoom \ DOMAIN AllRoom' :
       g \in DOMAIN PendingDisbandRooms =>
         now - AllRoom[g].create_block > ProtectedDuration]_vars

\* "If you quit halfway, you only get a quarter of the reward."
\* (pallets/room/src/lib.rs:1401), so a reward is for those who stayed: "Everyone's
\* bonus has been calculated at the time of disbandment." (1238)
QuittersGetNoShare ==
  \A k \in DOMAIN InfoOfDisbandedRoom : SolventReward(InfoOfDisbandedRoom[k])
=============================================================================
