---------------------------- MODULE RoomMoneyProofs ----------------------------
(***************************************************************************)
(* What adds up in the room pallet, for every value of the constants: all  *)
(* the money there is, the votes and what their voters spent, and the      *)
(* claims on the reward of a disbanded room. The sums are SumTheorems'.    *)
(*                                                                         *)
(* The books first. The total is the sum of five sums, of users, treasury, *)
(* rooms, rewards and packets; BooksAdded says so, BooksKept that they can *)
(* be added up. A lemma per kind of step says which sums change by how     *)
(* much, a lemma per action that the changes are equal.                    *)
(***************************************************************************)
EXTENDS RoomProofs, SumTheorems

Totals == [g \in DOMAIN AllRoom |-> AllRoom[g].total_balances]

Owed ==
  [k \in DOMAIN InfoOfDisbandedRoom |->
    InfoOfDisbandedRoom[k].total_reward - InfoOfDisbandedRoom[k].already_get_reward]

Left == [k \in DOMAIN RedPacketOfRoom |-> Remain(RedPacketOfRoom[k])]

\* The books can be added up, and a new red packet overwrites no other.
BooksKept ==
  /\ IsFiniteSet(DOMAIN InfoOfDisbandedRoom) /\ IsFiniteSet(DOMAIN RedPacketOfRoom)
  /\ \A k \in DOMAIN RedPacketOfRoom : k[2] < NextRedPacketId

\* What FundsConserved says of one step.
BooksBalance ==
  \/ \E g \in RoomIds, amount \in PacketAmounts :
       SubRoomFreeAmount(g, amount) /\ TotalFunds' = TotalFunds - amount
  \/ \E g \in DOMAIN AllRoom :
       Disbands(g) /\ TotalFunds' = TotalFunds - Unpaid(g) + StoredFunds(g)'
  \/ TotalFunds' = TotalFunds + Minted

-----------------------------------------------------------------------------
(* The sums the books are made of.                                         *)

\* What is left of a red packet is a natural number.
LEMMA RemainNat ==
  ASSUME NEW packet \in RedPacket
  PROVE  Remain(packet) \in Nat
BY InputAssumption DEF RedPacket, Remain, SaturatingSub, Balance

\* There are finitely many accounts, rooms, rewards and packets, and each has an
\* integer.
LEMMA BooksTyped ==
  ASSUME TypeOK, BooksKept
  PROVE  /\ IsFiniteSet(Users) /\ DOMAIN free = Users /\ NaturalOn(free, Users)
         /\ IsFiniteSet(DOMAIN AllRoom) /\ IntegerOn(Totals, DOMAIN AllRoom)
         /\ IntegerOn(Owed, DOMAIN InfoOfDisbandedRoom)
         /\ NaturalOn(Left, DOMAIN RedPacketOfRoom)
<1>1. IsFiniteSet(Users) /\ DOMAIN free = Users /\ NaturalOn(free, Users)
  BY InputAssumption DEF TypeOK, MoneyTyped, NaturalOn, Balance
<1>2. IsFiniteSet(DOMAIN AllRoom)
  <2>1. IsFiniteSet(RoomIds)
    BY FS_Interval, InputAssumption DEF RoomIds
  <2> QED BY <2>1, FS_Subset DEF TypeOK, RoomsTyped
<1>3. IntegerOn(Totals, DOMAIN AllRoom)
  BY InputAssumption DEF TypeOK, RoomsTyped, RoomInfo, Balance, Totals, IntegerOn
<1>4. IntegerOn(Owed, DOMAIN InfoOfDisbandedRoom)
  BY InputAssumption DEF TypeOK, DisbandingTyped, RoomRewardInfo, Balance, Owed, IntegerOn
<1>5. NaturalOn(Left, DOMAIN RedPacketOfRoom)
  BY RemainNat DEF TypeOK, PacketsTyped, Left, NaturalOn
<1> QED BY <1>1, <1>2, <1>3, <1>4, <1>5

\* All the money there is, as a sum of four sums and the treasury.
BooksAdded ==
  /\ TotalFunds = SumFunctionOnSet(free, Users) + treasury
       + SumFunctionOnSet(Totals, DOMAIN AllRoom)
       + SumFunctionOnSet(Owed, DOMAIN InfoOfDisbandedRoom)
       + SumFunctionOnSet(Left, DOMAIN RedPacketOfRoom)
  /\ SumFunctionOnSet(free, Users) \in Int /\ treasury \in Int
  /\ SumFunctionOnSet(Totals, DOMAIN AllRoom) \in Int
  /\ SumFunctionOnSet(Owed, DOMAIN InfoOfDisbandedRoom) \in Int
  /\ SumFunctionOnSet(Left, DOMAIN RedPacketOfRoom) \in Int

LEMMA AddBooks == TypeOK /\ BooksKept => BooksAdded
<1> SUFFICES ASSUME TypeOK, BooksKept
             PROVE  BooksAdded
  OBVIOUS
<1>1. SumFunction(free) = SumFunctionOnSet(free, Users)
  BY BooksTyped DEF SumFunction
<1>2. RoomFunds = SumFunctionOnSet(Totals, DOMAIN AllRoom)
  BY DEF RoomFunds, Totals, SumFunction
<1>3. PoolFunds = SumFunctionOnSet(Owed, DOMAIN InfoOfDisbandedRoom)
  BY DEF PoolFunds, Owed, SumFunction
<1>4. PacketFunds = SumFunctionOnSet(Left, DOMAIN RedPacketOfRoom)
  BY DEF PacketFunds, Left, SumFunction
<1>5. treasury \in Int
  BY DEF TypeOK, MoneyTyped
<1> QED BY <1>1, <1>2, <1>3, <1>4, <1>5, BooksTyped, NaturalIsInteger, SumInt
        DEF TotalFunds, BooksKept, BooksAdded

LEMMA AddBooksAfter == TypeOK' /\ BooksKept' => BooksAdded'
BY AddBooks, PTL

\* Someone's balance changes.
LEMMA BalanceChanged ==
  ASSUME NEW balances, IntegerOn(balances, Users), NEW who \in Users,
         NEW amount \in Int, NEW moved, moved[who] = balances[who] + amount,
         \A u \in Users \ {who} : moved[u] = balances[u]
  PROVE  /\ SumFunctionOnSet(moved, Users) = SumFunctionOnSet(balances, Users) + amount
         /\ IntegerOn(moved, Users)
<1>1. IsFiniteSet(Users)
  BY InputAssumption
<1>2. balances[who] \in Int /\ moved[who] \in Int /\ IntegerOn(moved, Users)
  BY DEF IntegerOn
<1>3. SumFunctionOnSet(moved, Users) =
        SumFunctionOnSet(balances, Users) - balances[who] + moved[who]
  BY <1>1, <1>2, SumUpdate
<1>4. SumFunctionOnSet(balances, Users) \in Int
  BY <1>1, SumInt
<1> QED BY <1>2, <1>3, <1>4

\* The record of a room is stored again.
LEMMA TotalReplaced ==
  ASSUME TypeOK, BooksKept, NEW g \in DOMAIN AllRoom, NEW room,
         room.total_balances \in Int, AllRoom' = [AllRoom EXCEPT ![g] = room]
  PROVE  SumFunctionOnSet(Totals', DOMAIN AllRoom') =
           SumFunctionOnSet(Totals, DOMAIN AllRoom)
             - AllRoom[g].total_balances + room.total_balances
<1>1. /\ DOMAIN AllRoom' = DOMAIN AllRoom
      /\ Totals[g] = AllRoom[g].total_balances /\ Totals'[g] = room.total_balances
      /\ \A h \in DOMAIN AllRoom \ {g} : Totals'[h] = Totals[h]
  BY DEF Totals
<1> QED BY <1>1, BooksTyped, SumUpdate

\* A record is deleted.
LEMMA TotalDeleted ==
  ASSUME TypeOK, BooksKept, NEW g \in DOMAIN AllRoom, AllRoom' = Remove(AllRoom, {g})
  PROVE  SumFunctionOnSet(Totals', DOMAIN AllRoom') =
           SumFunctionOnSet(Totals, DOMAIN AllRoom) - AllRoom[g].total_balances
<1>1. /\ DOMAIN AllRoom' = DOMAIN AllRoom \ {g} /\ Totals[g] = AllRoom[g].total_balances
      /\ \A h \in DOMAIN AllRoom \ {g} : Totals'[h] = Totals[h]
  BY DEF Totals, Remove, Restrict
<1>2. SumFunctionOnSet(Totals, {g}) = AllRoom[g].total_balances
  BY <1>1, BooksTyped, SumSingleton DEF IntegerOn
<1> QED BY <1>1, <1>2, BooksTyped, SumRemoved

\* Red packets are removed, and none is added or changed.
LEMMA PacketsGone ==
  ASSUME TypeOK, BooksKept, NEW packets \in SUBSET DOMAIN RedPacketOfRoom,
         RedPacketOfRoom' = Remove(RedPacketOfRoom, packets)
  PROVE  /\ SumFunctionOnSet(Left', DOMAIN RedPacketOfRoom') =
              SumFunctionOnSet(Left, DOMAIN RedPacketOfRoom)
                - SumFunctionOnSet(Left, packets)
         /\ SumFunctionOnSet(Left, packets) \in Int
         /\ DOMAIN RedPacketOfRoom' \subseteq DOMAIN RedPacketOfRoom
<1>1. /\ DOMAIN RedPacketOfRoom' = DOMAIN RedPacketOfRoom \ packets
      /\ \A k \in DOMAIN RedPacketOfRoom \ packets : Left'[k] = Left[k]
  BY DEF Left, Remove, Restrict, Remain
<1>2. IsFiniteSet(DOMAIN RedPacketOfRoom) /\ IntegerOn(Left, DOMAIN RedPacketOfRoom)
  BY BooksTyped, NaturalIsInteger DEF BooksKept
<1>3. IsFiniteSet(packets) /\ IntegerOn(Left, packets)
  BY <1>2, FS_Subset DEF IntegerOn
<1> QED BY <1>1, <1>2, <1>3, SumRemoved, SumInt

\* What the bosses of some packets get back is what is left of the packets.
LEMMA RefundAdded ==
  ASSUME TypeOK, BooksKept, NEW packets \in SUBSET DOMAIN RedPacketOfRoom,
         NEW balances, IntegerOn(balances, Users)
  PROVE  /\ SumFunctionOnSet(Refund(balances, packets), Users) =
              SumFunctionOnSet(balances, Users) + SumFunctionOnSet(Left, packets)
         /\ IntegerOn(Refund(balances, packets), Users)
<1> DEFINE owner == [k \in packets |-> RedPacketOfRoom[k].boss]
           of(u) == {k \in packets : RedPacketOfRoom[k].boss = u}
           belongs == [u \in Users |-> of(u)]
           part(u) == [k \in of(u) |-> Remain(RedPacketOfRoom[k])]
           back == [u \in Users |-> SumFunctionOnSet(Left, of(u))]
<1>1. /\ IsFiniteSet(packets) /\ IsFiniteSet(Users) /\ IntegerOn(Left, packets)
      /\ \A u : IsFiniteSet(of(u)) /\ IntegerOn(Left, of(u))
  <2>1. IsFiniteSet(DOMAIN RedPacketOfRoom) /\ IntegerOn(Left, DOMAIN RedPacketOfRoom)
    BY BooksTyped, NaturalIsInteger DEF BooksKept
  <2> QED BY <2>1, FS_Subset, InputAssumption DEF IntegerOn
<1>2. \A k \in packets : owner[k] \in Users
  BY DEF TypeOK, PacketsTyped, RedPacket
<1>3. \A u \in Users : SumFunction(part(u)) = back[u]
  <2> SUFFICES ASSUME NEW u \in Users
               PROVE  SumFunction(part(u)) = back[u]
    OBVIOUS
  <2>1. DOMAIN part(u) = of(u) /\ \A k \in of(u) : Left[k] = part(u)[k]
    BY DEF Left
  <2>2. IsFiniteSet(of(u)) /\ IntegerOn(Left, of(u))
    BY <1>1
  <2>3. SumFunctionOnSet(Left, of(u)) = SumFunctionOnSet(part(u), of(u))
    BY <2>1, <2>2, SumAgree
  <2> HIDE DEF part
  <2> QED BY <2>1, <2>3 DEF SumFunction
<1>4. SumFunctionOnSet(back, Users) = SumFunctionOnSet(Left, packets)
  <2>1. \A u \in Users : \A k :
          k \in belongs[u] <=> k \in packets /\ owner[k] = u
    OBVIOUS
  <2>2. \A u \in Users : back[u] = SumFunctionOnSet(Left, belongs[u])
    OBVIOUS
  <2> HIDE DEF owner, back, of, part, belongs
  <2> QED BY <1>1, <1>2, <2>1, <2>2, SumByOwner
<1>5. \A u \in Users : Refund(balances, packets)[u] = balances[u] + back[u]
  BY <1>3 DEF Refund
<1>6. IntegerOn(back, Users)
  BY <1>1, SumInt DEF IntegerOn
<1> HIDE DEF back
<1> QED BY <1>1, <1>4, <1>5, <1>6, SumPlus DEF IntegerOn

\* A step pays no manager's reward if no room's period moves on.
LEMMA NothingMinted ==
  ASSUME \A g \in DOMAIN AllRoom \cap DOMAIN AllRoom' :
           AllRoom'[g].last_block_of_get_the_reward
             = AllRoom[g].last_block_of_get_the_reward
  PROVE  Minted = 0
<1>1. Rewarded = {}
  BY DEF Rewarded
<1>2. DOMAIN [g \in Rewarded |-> Percent(RoomProportion, TotalReward(AllRoom[g]))] = {}
  BY <1>1
<1> QED BY <1>2, SumEmpty DEF Minted, SumFunction

-----------------------------------------------------------------------------
(* Disbanding.                                                             *)

\* What do_disband does to the money outside AllRoom: the bosses, the manager and
\* the reward get what was in the packets and in the room.
LEMMA DisbandBooks ==
  ASSUME TypeOK, BooksKept, NEW g \in DOMAIN AllRoom, NEW room \in RoomInfo,
         NEW balances, IntegerOn(balances, Users),
         DoDisband(g, room, balances), UNCHANGED NextRedPacketId
  PROVE  /\ BooksKept'
         /\ SumFunctionOnSet(free', Users)
              + SumFunctionOnSet(Owed', DOMAIN InfoOfDisbandedRoom')
              + SumFunctionOnSet(Left', DOMAIN RedPacketOfRoom')
            = SumFunctionOnSet(balances, Users)
                + SumFunctionOnSet(Owed, DOMAIN InfoOfDisbandedRoom)
                + SumFunctionOnSet(Left, DOMAIN RedPacketOfRoom)
                - Unpaid(g) + room.total_balances
<1> DEFINE key == <<GetSessionIndex, g>>
           keys == DOMAIN InfoOfDisbandedRoom
           old == IF key \in keys THEN Owed[key] ELSE 0
           new == room.total_balances - room.group_manager_balances
           refunded == Refund(balances, PacketsOf(g))
           info == RewardInfo(room)
           back == SumFunctionOnSet(Left, PacketsOf(g))
<1>1. /\ room.total_balances \in Int /\ room.group_manager_balances \in Int
      /\ room.group_manager \in Users
  BY InputAssumption DEF RoomInfo, Balance
<1>2. PacketsOf(g) \in SUBSET DOMAIN RedPacketOfRoom
  BY DEF PacketsOf
<1>3. /\ SumFunctionOnSet(refunded, Users) = SumFunctionOnSet(balances, Users) + back
      /\ IntegerOn(refunded, Users) /\ DOMAIN refunded = Users
  BY <1>2, RefundAdded DEF Refund
<1>4. /\ SumFunctionOnSet(Left', DOMAIN RedPacketOfRoom') =
           SumFunctionOnSet(Left, DOMAIN RedPacketOfRoom) - back
      /\ back \in Int /\ DOMAIN RedPacketOfRoom' \subseteq DOMAIN RedPacketOfRoom
  BY <1>2, PacketsGone DEF DoDisband
<1>5. SumFunctionOnSet(free', Users) =
        SumFunctionOnSet(refunded, Users) + room.group_manager_balances
  <2>1. /\ free'[room.group_manager] =
             refunded[room.group_manager] + room.group_manager_balances
        /\ \A u \in Users \ {room.group_manager} : free'[u] = refunded[u]
    BY <1>1, <1>3 DEF DoDisband
  <2> HIDE DEF refunded
  <2> QED BY <1>1, <1>3, <2>1, BalanceChanged
<1>6. /\ InfoOfDisbandedRoom' = Put(InfoOfDisbandedRoom, key, info)
      /\ info.total_reward = new /\ info.already_get_reward = 0
  BY DEF DoDisband, RewardInfo
<1>7. new \in Int /\ old \in Int /\ old = Unpaid(g)
  <2>1. key \in keys => Owed[key] \in Int
    BY BooksTyped DEF IntegerOn
  <2> QED BY <1>1, <2>1 DEF Unpaid, Owed
<1> HIDE DEF info, new
<1>8. /\ DOMAIN InfoOfDisbandedRoom' = keys \cup {key} /\ Owed'[key] = new
      /\ \A k \in keys \ {key} : Owed'[k] = Owed[k]
  <2>1. /\ DOMAIN InfoOfDisbandedRoom' = keys \cup {key}
        /\ InfoOfDisbandedRoom'[key] = info
        /\ \A k \in keys \ {key} : InfoOfDisbandedRoom'[k] = InfoOfDisbandedRoom[k]
    BY <1>6 DEF Put
  <2> HIDE DEF key
  <2>2. Owed'[key] = InfoOfDisbandedRoom'[key].total_reward
                       - InfoOfDisbandedRoom'[key].already_get_reward
    BY <2>1 DEF Owed
  <2>3. ASSUME NEW k \in keys \ {key}
        PROVE  Owed'[k] = Owed[k]
    BY <2>1 DEF Owed
  <2> QED BY <1>6, <1>7, <2>1, <2>2, <2>3
<1>9. SumFunctionOnSet(Owed', keys \cup {key}) = SumFunctionOnSet(Owed, keys) - old + new
  <2>1. IsFiniteSet(keys) /\ IntegerOn(Owed, keys) /\ Owed'[key] \in Int
    BY <1>7, <1>8, BooksTyped DEF BooksKept
  <2>2. Owed'[key] \in Int /\ \A k \in keys \ {key} : Owed'[k] = Owed[k]
    BY <1>8, <2>1
  <2> HIDE DEF key, keys, old
  <2>3. /\ key \in keys => SumFunctionOnSet(Owed', keys \cup {key}) =
                             SumFunctionOnSet(Owed, keys) - Owed[key] + Owed'[key]
        /\ key \notin keys => SumFunctionOnSet(Owed', keys \cup {key}) =
                                SumFunctionOnSet(Owed, keys) + Owed'[key]
    BY <2>1, <2>2, SumStored
  <2>4. SumFunctionOnSet(Owed, keys) \in Int
    BY <2>1, SumInt
  <2> QED BY <1>8, <2>3, <2>4 DEF old
<1>10. BooksKept'
  <2>1. IsFiniteSet(DOMAIN InfoOfDisbandedRoom') /\ IsFiniteSet(DOMAIN RedPacketOfRoom')
    BY <1>4, <1>8, FS_AddElement, FS_Subset DEF BooksKept
  <2> QED BY <1>4, <2>1 DEF BooksKept
<1>11. /\ SumFunctionOnSet(balances, Users) \in Int
       /\ SumFunctionOnSet(Owed, keys) \in Int
       /\ SumFunctionOnSet(Left, DOMAIN RedPacketOfRoom) \in Int
  BY AddBooks, SumInt, InputAssumption DEF BooksAdded
<1>12. room.total_balances = room.group_manager_balances + new
  BY <1>1 DEF new
<1> HIDE DEF back, old, refunded
<1>13. SumFunctionOnSet(Owed', DOMAIN InfoOfDisbandedRoom') =
         SumFunctionOnSet(Owed, keys) - Unpaid(g) + new
  BY <1>7, <1>8, <1>9
<1> HIDE DEF keys, key
<1> QED BY <1>1, <1>3, <1>4, <1>5, <1>7, <1>10, <1>11, <1>12, <1>13 DEF keys

\* disband_room pays out what the room holds, and its record is deleted.
LEMMA DisbandRoomBooks ==
  ASSUME IndInv, IndInv', BooksKept, NEW g, DisbandRoom(g)
  PROVE  BooksKept' /\ BooksBalance
<1>1. /\ g \in DOMAIN AllRoom /\ AllRoom[g] \in RoomInfo
      /\ DoDisband(g, AllRoom[g], free) /\ AllRoom' = Remove(AllRoom, {g})
      /\ UNCHANGED <<NextRedPacketId, treasury>>
      /\ TypeOK /\ TypeOK'
  BY DEF DisbandRoom, counters, IndInv, TypeOK, RoomsTyped
<1>2. IntegerOn(free, Users)
  BY <1>1, BooksTyped, NaturalIsInteger
<1>3. /\ BooksKept'
      /\ SumFunctionOnSet(free', Users)
           + SumFunctionOnSet(Owed', DOMAIN InfoOfDisbandedRoom')
           + SumFunctionOnSet(Left', DOMAIN RedPacketOfRoom')
         = SumFunctionOnSet(free, Users)
             + SumFunctionOnSet(Owed, DOMAIN InfoOfDisbandedRoom)
             + SumFunctionOnSet(Left, DOMAIN RedPacketOfRoom)
             - Unpaid(g) + AllRoom[g].total_balances
  BY <1>1, <1>2, DisbandBooks
<1>4. SumFunctionOnSet(Totals', DOMAIN AllRoom') =
        SumFunctionOnSet(Totals, DOMAIN AllRoom) - AllRoom[g].total_balances
  BY <1>1, TotalDeleted
<1>5. g \notin DOMAIN AllRoom'
  BY <1>1 DEF Remove, Restrict
<1>6. Disbands(g) /\ StoredFunds(g)' = 0
  BY <1>1, <1>5 DEF Disbands, StoredFunds, DoDisband
<1>7. AllRoom[g].total_balances \in Int /\ Unpaid(g) \in Int
  <2>1. AllRoom[g].total_balances \in Int
    BY <1>1, InputAssumption DEF RoomInfo, Balance
  <2>2. Unpaid(g) \in Int
    BY <1>1, BooksTyped DEF Unpaid, Owed, IntegerOn
  <2> QED BY <2>1, <2>2
<1>8. TotalFunds' = TotalFunds - Unpaid(g) + StoredFunds(g)'
  BY <1>1, <1>3, <1>4, <1>6, <1>7, AddBooks, AddBooksAfter DEF BooksAdded
<1> QED BY <1>1, <1>3, <1>6, <1>7, <1>8 DEF BooksBalance

\* A step that mints nothing and keeps the sum of the books balances them.
LEMMA MoneyMoved ==
  ASSUME IndInv, IndInv', BooksKept, BooksKept',
         \A g \in DOMAIN AllRoom \cap DOMAIN AllRoom' :
           AllRoom'[g].last_block_of_get_the_reward
             = AllRoom[g].last_block_of_get_the_reward,
         SumFunctionOnSet(free', Users) + treasury'
           + SumFunctionOnSet(Totals', DOMAIN AllRoom')
           + SumFunctionOnSet(Owed', DOMAIN InfoOfDisbandedRoom')
           + SumFunctionOnSet(Left', DOMAIN RedPacketOfRoom')
         = SumFunctionOnSet(free, Users) + treasury
             + SumFunctionOnSet(Totals, DOMAIN AllRoom)
             + SumFunctionOnSet(Owed, DOMAIN InfoOfDisbandedRoom)
             + SumFunctionOnSet(Left, DOMAIN RedPacketOfRoom)
  PROVE  BooksBalance
<1>1. TypeOK /\ TypeOK'
  BY DEF IndInv
<1>2. TotalFunds' = TotalFunds + Minted
  <2>1. Minted = 0
    BY NothingMinted
  <2> QED BY <1>1, <2>1, AddBooks, AddBooksAfter DEF BooksAdded
<1> QED BY <1>2 DEF BooksBalance

\* A step that touches neither rewards nor red packets.
LEMMA RewardsAndPacketsSame ==
  ASSUME BooksKept, UNCHANGED <<InfoOfDisbandedRoom, RedPacketOfRoom, NextRedPacketId>>
  PROVE  /\ BooksKept'
         /\ SumFunctionOnSet(Owed', DOMAIN InfoOfDisbandedRoom') =
              SumFunctionOnSet(Owed, DOMAIN InfoOfDisbandedRoom)
         /\ SumFunctionOnSet(Left', DOMAIN RedPacketOfRoom') =
              SumFunctionOnSet(Left, DOMAIN RedPacketOfRoom)
<1>1. Owed' = Owed /\ Left' = Left
  BY DEF Owed, Left, Remain
<1> QED BY <1>1 DEF BooksKept

\* A record is stored, with what the step moved between users, the treasury and
\* the room.
LEMMA RecordBooks ==
  ASSUME IndInv, IndInv', BooksKept, NEW g \in DOMAIN AllRoom, NEW room,
         room.total_balances \in Int, AllRoom' = [AllRoom EXCEPT ![g] = room],
         UNCHANGED <<InfoOfDisbandedRoom, RedPacketOfRoom, NextRedPacketId>>,
         room.last_block_of_get_the_reward = AllRoom[g].last_block_of_get_the_reward,
         SumFunctionOnSet(free', Users) + treasury' + room.total_balances =
           SumFunctionOnSet(free, Users) + treasury + AllRoom[g].total_balances
  PROVE  BooksKept' /\ BooksBalance
<1>1. TypeOK /\ TypeOK' /\ AllRoom[g].total_balances \in Int
  BY RoomFacts, InputAssumption DEF RoomInfo, Balance, IndInv
<1>2. SumFunctionOnSet(Totals', DOMAIN AllRoom') =
        SumFunctionOnSet(Totals, DOMAIN AllRoom)
          - AllRoom[g].total_balances + room.total_balances
  BY <1>1, TotalReplaced
<1>3. \A h \in DOMAIN AllRoom \cap DOMAIN AllRoom' :
        AllRoom'[h].last_block_of_get_the_reward
          = AllRoom[h].last_block_of_get_the_reward
  OBVIOUS
<1>4. /\ BooksKept'
      /\ SumFunctionOnSet(Owed', DOMAIN InfoOfDisbandedRoom') =
           SumFunctionOnSet(Owed, DOMAIN InfoOfDisbandedRoom)
      /\ SumFunctionOnSet(Left', DOMAIN RedPacketOfRoom') =
           SumFunctionOnSet(Left, DOMAIN RedPacketOfRoom)
  BY RewardsAndPacketsSame
<1>5. SumFunctionOnSet(free', Users) + treasury'
        + SumFunctionOnSet(Totals', DOMAIN AllRoom')
      = SumFunctionOnSet(free, Users) + treasury
          + SumFunctionOnSet(Totals, DOMAIN AllRoom)
  BY <1>1, <1>2, <1>4, AddBooks, AddBooksAfter DEF BooksAdded
<1>6. SumFunctionOnSet(free', Users) + treasury'
        + SumFunctionOnSet(Totals', DOMAIN AllRoom')
        + SumFunctionOnSet(Owed', DOMAIN InfoOfDisbandedRoom')
        + SumFunctionOnSet(Left', DOMAIN RedPacketOfRoom')
      = SumFunctionOnSet(free, Users) + treasury
          + SumFunctionOnSet(Totals, DOMAIN AllRoom)
          + SumFunctionOnSet(Owed, DOMAIN InfoOfDisbandedRoom)
          + SumFunctionOnSet(Left, DOMAIN RedPacketOfRoom)
  BY <1>4, <1>5
<1> QED BY <1>3, <1>4, <1>6, MoneyMoved

\* Votes are counted at the end of a call: what the call moved between users, the
\* treasury and the room is all that moves, unless the room is disbanded at once.
\* Then its record is stored again, with what was paid out.
LEMMA JudgeBooks ==
  ASSUME IndInv, IndInv', BooksKept, NEW g \in DOMAIN AllRoom, NEW room \in RoomInfo,
         NEW balances, IntegerOn(balances, Users),
         JudgeAndInsert(g, room, balances), UNCHANGED NextRedPacketId,
         room.last_block_of_get_the_reward = AllRoom[g].last_block_of_get_the_reward,
         SumFunctionOnSet(balances, Users) + treasury' + room.total_balances =
           SumFunctionOnSet(free, Users) + treasury + AllRoom[g].total_balances
  PROVE  BooksKept' /\ BooksBalance
<1> DEFINE result == VoteEndResult(room, now)
           immediate == result = "pass" /\ GetRoomConsumeAmount(room) = 0
           stored ==
             CASE result = "pass" -> [room EXCEPT !.disband_vote_end_block = now]
               [] result = "not_pass" -> RemoveVoteInfo(room, now)
               [] result = "not_end" -> room
<1>1. /\ TypeOK /\ TypeOK' /\ DOMAIN AllRoom' = DOMAIN AllRoom
      /\ room.total_balances \in Int /\ AllRoom[g].total_balances \in Int
      /\ SumFunctionOnSet(balances, Users) \in Int
  <2>1. AllRoom[g] \in RoomInfo
    BY DEF IndInv, TypeOK, RoomsTyped
  <2>2. room.total_balances \in Int /\ AllRoom[g].total_balances \in Int
    BY <2>1, InputAssumption DEF RoomInfo, Balance
  <2> QED BY <2>2, SumInt, InputAssumption DEF IndInv, JudgeAndInsert
<1>2. CASE immediate
  <2>1. /\ DoDisband(g, room, balances)
        /\ AllRoom' = [AllRoom EXCEPT ![g] = room]
    BY <1>2 DEF JudgeAndInsert
  <2>2. /\ BooksKept'
        /\ SumFunctionOnSet(free', Users)
             + SumFunctionOnSet(Owed', DOMAIN InfoOfDisbandedRoom')
             + SumFunctionOnSet(Left', DOMAIN RedPacketOfRoom')
           = SumFunctionOnSet(balances, Users)
               + SumFunctionOnSet(Owed, DOMAIN InfoOfDisbandedRoom)
               + SumFunctionOnSet(Left, DOMAIN RedPacketOfRoom)
               - Unpaid(g) + room.total_balances
    BY <1>1, <2>1, DisbandBooks
  <2>3. SumFunctionOnSet(Totals', DOMAIN AllRoom') =
          SumFunctionOnSet(Totals, DOMAIN AllRoom)
            - AllRoom[g].total_balances + room.total_balances
    BY <1>1, <2>1, TotalReplaced
  <2>4. /\ AllRoom'[g] = room /\ g \in DOMAIN AllRoom'
    BY <2>1
  <2>5. Disbands(g) /\ StoredFunds(g)' = room.total_balances
    BY <2>1, <2>4 DEF Disbands, StoredFunds, DoDisband
  <2>6. Unpaid(g) \in Int
    BY <1>1, BooksTyped DEF Unpaid, Owed, IntegerOn
  <2>7. TotalFunds' = TotalFunds - Unpaid(g) + StoredFunds(g)'
    BY <1>1, <2>2, <2>3, <2>5, <2>6, AddBooks, AddBooksAfter DEF BooksAdded
  <2> QED BY <2>2, <2>5, <2>7 DEF BooksBalance
<1>3. CASE ~immediate
  <2>1. /\ AllRoom' = [AllRoom EXCEPT ![g] = stored] /\ free' = balances
        /\ UNCHANGED <<InfoOfDisbandedRoom, RedPacketOfRoom, NextRedPacketId>>
    BY <1>3 DEF JudgeAndInsert
  <2>2. /\ stored.total_balances = room.total_balances
        /\ stored.last_block_of_get_the_reward = room.last_block_of_get_the_reward
    BY VoteResults DEF RemoveVoteInfo, RoomInfo
  <2> HIDE DEF stored
  <2> QED BY <1>1, <2>1, <2>2, RecordBooks
<1> QED BY <1>2, <1>3

-----------------------------------------------------------------------------
(* Spending and voting.                                                    *)

\* Users' balances, as the lemmas about sums need them.
LEMMA FreeTyped ==
  ASSUME IndInv
  PROVE  /\ DOMAIN free = Users /\ IntegerOn(free, Users)
         /\ SumFunctionOnSet(free, Users) \in Int /\ treasury \in Int
         /\ \A g \in DOMAIN AllRoom : AllRoom[g].total_balances \in Int
<1>1. DOMAIN free = Users /\ IntegerOn(free, Users) /\ treasury \in Int
  BY InputAssumption DEF IndInv, TypeOK, MoneyTyped, Balance, IntegerOn
<1>2. SumFunctionOnSet(free, Users) \in Int
  BY <1>1, SumInt, InputAssumption
<1>3. \A g \in DOMAIN AllRoom : AllRoom[g].total_balances \in Int
  BY InputAssumption DEF IndInv, TypeOK, RoomsTyped, RoomInfo, Balance
<1> QED BY <1>1, <1>2, <1>3

\* A payer's balance is less by what he pays.
LEMMA Paid ==
  ASSUME IndInv, NEW who \in Users, NEW amount \in Int, NEW balances,
         balances = [free EXCEPT ![who] = free[who] - amount]
  PROVE  /\ SumFunctionOnSet(balances, Users) = SumFunctionOnSet(free, Users) - amount
         /\ IntegerOn(balances, Users)
<1>1. /\ balances[who] = free[who] + (0 - amount) /\ 0 - amount \in Int
      /\ \A u \in Users \ {who} : balances[u] = free[u]
  BY FreeTyped DEF IntegerOn
<1>2. /\ SumFunctionOnSet(balances, Users) = SumFunctionOnSet(free, Users) + (0 - amount)
      /\ IntegerOn(balances, Users)
  BY <1>1, FreeTyped, BalanceChanged
<1> QED BY <1>2, FreeTyped

\* vote moves no money, unless it disbands the room.
LEMMA VoteBooks ==
  ASSUME IndInv, IndInv', BooksKept, NEW who \in Users, NEW g,
         NEW approves \in BOOLEAN, Vote(who, g, approves)
  PROVE  BooksKept' /\ BooksBalance
<1> DEFINE room == AllRoom[g]
           amount == room.consume[who]
           votes == IF approves THEN Approve(room.disband_vote, who, amount)
                                ELSE Reject(room.disband_vote, who, amount)
           voted == [room EXCEPT !.disband_vote = votes]
<1>1. /\ g \in DOMAIN AllRoom
      /\ votes.approve_total_amount \in Balance
      /\ votes.reject_total_amount \in Balance
      /\ JudgeAndInsert(g, voted, free)
      /\ UNCHANGED <<NextRedPacketId, treasury>>
  BY DEF Vote, InRoom, counters
<1>2. room \in RoomInfo
  BY <1>1, RoomFacts
<1>3. votes \in DisbandVote
  BY <1>1, <1>2, ApproveTyped, RejectTyped DEF RoomInfo
<1> HIDE DEF votes
<1>4. /\ voted \in RoomInfo /\ voted.total_balances = room.total_balances
      /\ voted.last_block_of_get_the_reward = room.last_block_of_get_the_reward
  BY <1>2, <1>3 DEF RoomInfo
<1> HIDE DEF voted
<1> QED BY <1>1, <1>4, FreeTyped, JudgeBooks

\* ask_for_disband_room pays the treasury.
LEMMA AskBooks ==
  ASSUME IndInv, IndInv', BooksKept, NEW who \in Users, NEW g,
         AskForDisbandRoom(who, g)
  PROVE  BooksKept' /\ BooksBalance
<1> DEFINE room == AllRoom[g]
           payment == Percent(10, room.create_payment)
           votes == Approve(NoVotes, who, room.consume[who])
           asked == [room EXCEPT !.disband_vote = votes,
                                 !.disband_vote_end_block = now + VoteExpire]
           balances == [free EXCEPT ![who] = free[who] - payment]
<1>1. /\ g \in DOMAIN AllRoom /\ treasury' = treasury + payment
      /\ JudgeAndInsert(g, asked, balances) /\ UNCHANGED NextRedPacketId
  BY DEF AskForDisbandRoom, InRoom, counters
<1>2. room \in RoomInfo /\ room.consume[who] \in Balance /\ payment \in Nat
  BY <1>1, RoomFacts, PercentNat DEF RoomInfo, Balance
<1>3. votes \in DisbandVote
  <2>1. votes.approve_total_amount \in Balance
    BY <1>2 DEF Approve, NoVotes, Balance
  <2> QED BY <1>2, <2>1, NoVotesTyped, ApproveTyped
<1>4. now + VoteExpire \in Nat
  BY DurationAssumption DEF IndInv, TypeOK, ClockTyped
<1> HIDE DEF votes, payment
<1>5. /\ asked \in RoomInfo /\ asked.total_balances = room.total_balances
      /\ asked.last_block_of_get_the_reward = room.last_block_of_get_the_reward
  BY <1>2, <1>3, <1>4 DEF RoomInfo
<1>6. /\ SumFunctionOnSet(balances, Users) = SumFunctionOnSet(free, Users) - payment
      /\ IntegerOn(balances, Users)
  BY <1>2, Paid
<1> HIDE DEF asked, balances
<1>7. SumFunctionOnSet(balances, Users) + treasury' + asked.total_balances =
        SumFunctionOnSet(free, Users) + treasury + AllRoom[g].total_balances
  BY <1>1, <1>2, <1>5, <1>6, FreeTyped
<1> QED BY <1>1, <1>5, <1>6, <1>7, JudgeBooks

\* A purchase is paid to the room, whether or not it decides a vote.
LEMMA BuyBooks ==
  ASSUME IndInv, IndInv', BooksKept, NEW call, NEW item \in {"props", "audio"},
         NEW who \in Users, NEW g, NEW quantity \in Quantities,
         Buy(call, item, who, g, quantity)
  PROVE  BooksKept' /\ BooksBalance
<1> DEFINE room == AllRoom[g]
           amount == quantity * settings.price[item]
           paid == [room EXCEPT !.total_balances = @ + amount,
                                !.consume[who] = @ + amount]
           votes == AddWeight(room.disband_vote, who, amount)
           counts == IsVoting(g, room) /\ HasVoted(room, who)
           balances == [free EXCEPT ![who] = free[who] - amount]
<1>1. /\ g \in DOMAIN AllRoom
      /\ paid.total_balances \in Balance /\ paid.consume[who] \in Balance
      /\ \/ /\ counts
            /\ votes.approve_total_amount \in Balance
            /\ votes.reject_total_amount \in Balance
            /\ JudgeAndInsert(g, [paid EXCEPT !.disband_vote = votes], balances)
         \/ /\ ~counts
            /\ free' = balances
            /\ AllRoom' = [AllRoom EXCEPT ![g] = paid]
            /\ UNCHANGED <<InfoOfDisbandedRoom, RedPacketOfRoom>>
      /\ UNCHANGED <<NextRedPacketId, treasury>>
  BY DEF Buy, InRoom, counters, disbanding
<1>2. room \in RoomInfo
  BY <1>1, RoomFacts
<1>3. amount \in Nat
  <2>1. settings.price[item] \in Nat /\ quantity \in Nat
    BY InputAssumption DEF IndInv, TypeOK, ClockTyped, Settings, Balance
  <2> QED BY <2>1, MulNat
<1> HIDE DEF amount
<1>4. /\ paid \in RoomInfo /\ paid.total_balances = room.total_balances + amount
      /\ paid.last_block_of_get_the_reward = room.last_block_of_get_the_reward
  <2>1. paid = [room EXCEPT !.total_balances = room.total_balances + amount,
                  !.consume = [room.consume EXCEPT ![who] = room.consume[who] + amount]]
    BY <1>2 DEF RoomInfo
  <2>2. /\ room.total_balances + amount \in Balance
        /\ [room.consume EXCEPT ![who] = room.consume[who] + amount] \in [Users -> Balance]
    BY <1>1, <1>2, <2>1 DEF RoomInfo
  <2> HIDE DEF paid
  <2> QED BY <1>2, <2>1, <2>2 DEF RoomInfo
<1>5. /\ SumFunctionOnSet(balances, Users) = SumFunctionOnSet(free, Users) - amount
      /\ IntegerOn(balances, Users)
  BY <1>3, Paid
<1> HIDE DEF balances
<1>6. SumFunctionOnSet(balances, Users) + treasury' + paid.total_balances =
        SumFunctionOnSet(free, Users) + treasury + AllRoom[g].total_balances
  BY <1>1, <1>3, <1>4, <1>5, FreeTyped
<1>7. paid.total_balances \in Int
  BY <1>1, <1>3, <1>4, FreeTyped
<1>8. CASE counts
  <2> DEFINE voted == [paid EXCEPT !.disband_vote = votes]
  <2>1. JudgeAndInsert(g, voted, balances) /\ votes \in DisbandVote
    BY <1>1, <1>2, <1>8, WeightTyped DEF RoomInfo
  <2>2. /\ voted \in RoomInfo /\ voted.total_balances = paid.total_balances
        /\ voted.last_block_of_get_the_reward = room.last_block_of_get_the_reward
    <3> HIDE DEF votes, paid
    <3> QED BY <1>4, <2>1 DEF RoomInfo
  <2> HIDE DEF voted, paid
  <2> QED BY <1>1, <1>5, <1>6, <2>1, <2>2, JudgeBooks
<1>9. CASE ~counts
  <2> HIDE DEF paid
  <2> QED BY <1>1, <1>4, <1>6, <1>7, <1>9, RecordBooks
<1> QED BY <1>8, <1>9

-----------------------------------------------------------------------------
(* Membership.                                                             *)

\* The costs of a room go to the treasury.
LEMMA CreateRoomBooks ==
  ASSUME IndInv, IndInv', BooksKept, NEW who \in Users, NEW max, NEW cost,
         NEW private, CreateRoom(who, max, cost, private)
  PROVE  BooksKept' /\ BooksBalance
<1> DEFINE payment == settings.create_cost[MembersConvertType(max)]
           g == NextGroupId
           others == DOMAIN AllRoom
<1>1. PICK room :
        /\ room.total_balances = 0 /\ AllRoom' = Put(AllRoom, g, room)
        /\ free' = [free EXCEPT ![who] = free[who] - payment]
        /\ treasury' = treasury + payment
        /\ UNCHANGED <<InfoOfDisbandedRoom, RedPacketOfRoom, NextRedPacketId>>
  <2> DEFINE room == [group_manager |-> who,
           create_payment |-> payment, join_cost |-> cost,
           max_members |-> max, now_members_number |-> 1,
           total_balances |-> 0, group_manager_balances |-> 0,
           create_block |-> now, last_block_of_get_the_reward |-> now,
           last_remove_someone_block |-> now,
           disband_vote_end_block |-> now, disband_vote |-> NoVotes,
           consume |-> [u \in Users |-> 0],
           council |-> {}, black_list |-> {}, is_private |-> private]
  <2>1. AllRoom' = Put(AllRoom, g, room) /\ room.total_balances = 0
    BY DEF CreateRoom
  <2> HIDE DEF room
  <2> QED BY <2>1 DEF CreateRoom, disbanding
<1>2. payment \in Int
  BY SizesTyped, InputAssumption DEF IndInv, TypeOK, ClockTyped, Settings, Balance
<1> HIDE DEF payment
<1>3. SumFunctionOnSet(free', Users) = SumFunctionOnSet(free, Users) - payment
  BY <1>1, <1>2, Paid
<1>4. g \notin others
  BY DEF IndInv, RoomIdsFresh, TypeOK, CountersTyped
<1>5. /\ DOMAIN AllRoom' = others \cup {g} /\ AllRoom'[g] = room
      /\ \A h \in others : AllRoom'[h] = AllRoom[h]
  BY <1>1, <1>4 DEF Put
<1>6. SumFunctionOnSet(Totals', others \cup {g}) =
        SumFunctionOnSet(Totals, others) + Totals'[g]
  <2>1. Totals'[g] \in Int /\ \A h \in others \ {g} : Totals'[h] = Totals[h]
    BY <1>1, <1>4, <1>5 DEF Totals
  <2>2. IsFiniteSet(others) /\ IntegerOn(Totals, others)
    BY BooksTyped DEF IndInv
  <2> HIDE DEF others, g
  <2> QED BY <1>4, <2>1, <2>2, SumStored
<1>7. Totals'[g] = 0
  BY <1>1, <1>5 DEF Totals
<1>8. /\ BooksKept'
      /\ SumFunctionOnSet(Owed', DOMAIN InfoOfDisbandedRoom') =
           SumFunctionOnSet(Owed, DOMAIN InfoOfDisbandedRoom)
      /\ SumFunctionOnSet(Left', DOMAIN RedPacketOfRoom') =
           SumFunctionOnSet(Left, DOMAIN RedPacketOfRoom)
  BY <1>1, RewardsAndPacketsSame
<1>9. \A h \in DOMAIN AllRoom \cap DOMAIN AllRoom' :
        AllRoom'[h].last_block_of_get_the_reward
          = AllRoom[h].last_block_of_get_the_reward
  BY <1>5
<1>10. BooksAdded
  BY AddBooks DEF IndInv
<1>11. SumFunctionOnSet(free', Users) + treasury'
         + SumFunctionOnSet(Totals', DOMAIN AllRoom')
         + SumFunctionOnSet(Owed', DOMAIN InfoOfDisbandedRoom')
         + SumFunctionOnSet(Left', DOMAIN RedPacketOfRoom')
       = SumFunctionOnSet(free, Users) + treasury
           + SumFunctionOnSet(Totals, DOMAIN AllRoom)
           + SumFunctionOnSet(Owed, DOMAIN InfoOfDisbandedRoom)
           + SumFunctionOnSet(Left, DOMAIN RedPacketOfRoom)
  BY <1>1, <1>2, <1>3, <1>5, <1>6, <1>7, <1>8, <1>10 DEF BooksAdded
<1> QED BY <1>8, <1>9, <1>11, MoneyMoved

\* pay_for shares the cost of joining out to the unit: what is not the manager's
\* and the room's goes to the treasury, and what is theirs is not more than the cost.
LEMMA PayForExact ==
  ASSUME NEW cost \in Nat
  PROVE  cost = PayForManagerNow(cost) + PayForManagerLater(cost)
                  + PayForRoomLater(cost) + PayForTreasury(cost)
BY DEF PayForManagerNow, PayForManagerLater, PayForRoomLater, PayForTreasury, Percent,
       SaturatingSub

\* The cost of joining goes to the manager, the room and the treasury.
LEMMA IntoRoomBooks ==
  ASSUME IndInv, IndInv', BooksKept, NEW inviter \in Users, NEW invitee, NEW g,
         IntoRoom(inviter, invitee, g)
  PROVE  BooksKept' /\ BooksBalance
<1> DEFINE room == AllRoom[g]
           cost == room.join_cost
           first == [free EXCEPT ![inviter] = free[inviter] - cost]
           manager == room.group_manager
<1>1. /\ g \in DOMAIN AllRoom
      /\ free' = [first EXCEPT ![manager] = first[manager] + PayForManagerNow(cost)]
      /\ treasury' = treasury + PayForTreasury(cost)
      /\ AllRoom' = [AllRoom EXCEPT ![g] = Joined(room)]
      /\ UNCHANGED <<InfoOfDisbandedRoom, RedPacketOfRoom, NextRedPacketId>>
  BY DEF IntoRoom, disbanding, counters
<1>2. room \in RoomInfo /\ cost \in Nat /\ manager \in Users
  BY <1>1, RoomFacts DEF RoomInfo, Balance
<1>3. /\ PayForManagerNow(cost) \in Nat /\ PayForManagerLater(cost) \in Nat
      /\ PayForRoomLater(cost) \in Nat /\ PayForTreasury(cost) \in Nat
      /\ cost = PayForManagerNow(cost) + PayForManagerLater(cost)
                  + PayForRoomLater(cost) + PayForTreasury(cost)
  BY <1>2, PayForSplit, PayForExact
<1>4. /\ Joined(room).total_balances =
           room.total_balances + PayForRoomLater(cost) + PayForManagerLater(cost)
      /\ Joined(room).last_block_of_get_the_reward = room.last_block_of_get_the_reward
  BY <1>2 DEF Joined, RoomInfo
<1>5. /\ free'[manager] = first[manager] + PayForManagerNow(cost)
      /\ \A u \in Users \ {manager} : free'[u] = first[u]
  <2>1. DOMAIN first = Users
    BY FreeTyped
  <2> HIDE DEF first, manager, cost
  <2> QED BY <1>1, <1>2, <2>1
<1>6. /\ SumFunctionOnSet(first, Users) = SumFunctionOnSet(free, Users) - cost
      /\ IntegerOn(first, Users)
  BY <1>2, Paid
<1> HIDE DEF cost, first, manager
<1>7. SumFunctionOnSet(free', Users) =
        SumFunctionOnSet(first, Users) + PayForManagerNow(cost)
  BY <1>2, <1>3, <1>5, <1>6, BalanceChanged
<1> DEFINE joined == Joined(room)
<1>8. joined.total_balances \in Int
  BY <1>1, <1>3, <1>4, FreeTyped
<1>9. SumFunctionOnSet(free', Users) + treasury' + joined.total_balances =
        SumFunctionOnSet(free, Users) + treasury + AllRoom[g].total_balances
  BY <1>1, <1>3, <1>4, <1>6, <1>7, FreeTyped
<1> HIDE DEF joined
<1>10. /\ AllRoom' = [AllRoom EXCEPT ![g] = joined]
       /\ joined.last_block_of_get_the_reward = AllRoom[g].last_block_of_get_the_reward
  BY <1>1, <1>4 DEF joined
<1> QED BY <1>1, <1>8, <1>9, <1>10, RecordBooks

\* Whoever quits takes his share out of the room.
LEMMA ExitAmongOthersBooks ==
  ASSUME IndInv, IndInv', BooksKept, NEW who \in Users, NEW g, ExitAmongOthers(who, g)
  PROVE  BooksKept' /\ BooksBalance
<1> DEFINE room == AllRoom[g]
           amount == QuitShare(room)
           paid == [room EXCEPT !.total_balances = @ - amount]
           left == RemoveSomeoneInRoom(paid, who)
<1>1. /\ g \in DOMAIN AllRoom /\ free' = [free EXCEPT ![who] = free[who] + amount]
      /\ AllRoom' = [AllRoom EXCEPT ![g] = left]
      /\ UNCHANGED <<treasury, InfoOfDisbandedRoom, RedPacketOfRoom, NextRedPacketId>>
  BY DEF ExitAmongOthers, InRoom, UpdateRoom, counters, disbanding
<1>2. /\ room \in RoomInfo /\ room.group_manager_balances <= room.total_balances
      /\ room.now_members_number \in Nat \ {0}
  BY <1>1, RoomFacts, NobodyAlone
<1>3. amount \in Int
  <2> DEFINE shared == room.total_balances - room.group_manager_balances
             share == shared \div room.now_members_number
  <2>1. shared \in Nat
    BY <1>2 DEF RoomInfo, Balance
  <2>2. share \in 0 .. shared
    BY <1>2, <2>1, DivBound
  <2>3. share \div 4 \in 0 .. share
    BY <2>1, <2>2, DivBound
  <2>4. amount = share \div 4
    BY DEF QuitShare
  <2> HIDE DEF share, amount
  <2> QED BY <2>1, <2>2, <2>3, <2>4
<1> HIDE DEF amount
<1>4. /\ left.total_balances = room.total_balances - amount
      /\ left.last_block_of_get_the_reward = room.last_block_of_get_the_reward
  BY <1>2 DEF RoomInfo, RemoveSomeoneInRoom
<1> HIDE DEF left
<1>5. SumFunctionOnSet(free', Users) = SumFunctionOnSet(free, Users) + amount
  <2>1. free'[who] = free[who] + amount /\ \A u \in Users \ {who} : free'[u] = free[u]
    BY <1>1, FreeTyped
  <2> QED BY <1>3, <2>1, FreeTyped, BalanceChanged
<1>6. /\ left.total_balances \in Int
      /\ SumFunctionOnSet(free', Users) + treasury' + left.total_balances =
           SumFunctionOnSet(free, Users) + treasury + AllRoom[g].total_balances
  BY <1>1, <1>3, <1>4, <1>5, FreeTyped
<1> QED BY <1>1, <1>4, <1>6, RecordBooks

\* The last one takes what the room holds, and bosses what is in its red packets.
LEMMA ExitAsLastBooks ==
  ASSUME IndInv, IndInv', BooksKept, NEW who \in Users, NEW g, ExitAsLast(who, g)
  PROVE  BooksKept' /\ BooksBalance
<1> DEFINE amount == AllRoom[g].total_balances
           paid == [free EXCEPT ![who] = free[who] + amount]
           back == SumFunctionOnSet(Left, PacketsOf(g))
<1>1. /\ g \in DOMAIN AllRoom /\ free' = Refund(paid, PacketsOf(g))
      /\ AllRoom' = Remove(AllRoom, {g})
      /\ RedPacketOfRoom' = Remove(RedPacketOfRoom, PacketsOf(g))
      /\ UNCHANGED <<treasury, InfoOfDisbandedRoom, NextRedPacketId>>
  BY DEF ExitAsLast, InRoom, counters, disbanding
<1>2. amount \in Int /\ TypeOK /\ PacketsOf(g) \in SUBSET DOMAIN RedPacketOfRoom
  BY <1>1, FreeTyped DEF IndInv, PacketsOf
<1>3. /\ SumFunctionOnSet(paid, Users) = SumFunctionOnSet(free, Users) + amount
      /\ IntegerOn(paid, Users)
  <2>1. paid[who] = free[who] + amount /\ \A u \in Users \ {who} : paid[u] = free[u]
    BY FreeTyped
  <2> HIDE DEF paid
  <2> QED BY <1>2, <2>1, FreeTyped, BalanceChanged
<1> HIDE DEF paid
<1>4. SumFunctionOnSet(free', Users) = SumFunctionOnSet(paid, Users) + back
  BY <1>1, <1>2, <1>3, RefundAdded
<1>5. /\ SumFunctionOnSet(Left', DOMAIN RedPacketOfRoom') =
           SumFunctionOnSet(Left, DOMAIN RedPacketOfRoom) - back
      /\ back \in Int /\ DOMAIN RedPacketOfRoom' \subseteq DOMAIN RedPacketOfRoom
  BY <1>1, <1>2, PacketsGone
<1>6. SumFunctionOnSet(Totals', DOMAIN AllRoom') =
        SumFunctionOnSet(Totals, DOMAIN AllRoom) - amount
  BY <1>1, <1>2, TotalDeleted
<1>7. Owed' = Owed /\ BooksKept'
  BY <1>1, <1>5, FS_Subset DEF Owed, BooksKept
<1> HIDE DEF back, amount
<1>8. BooksAdded
  BY <1>2, AddBooks
<1>9. SumFunctionOnSet(free', Users) + treasury'
        + SumFunctionOnSet(Totals', DOMAIN AllRoom')
        + SumFunctionOnSet(Owed', DOMAIN InfoOfDisbandedRoom')
        + SumFunctionOnSet(Left', DOMAIN RedPacketOfRoom')
      = SumFunctionOnSet(free, Users) + treasury
          + SumFunctionOnSet(Totals, DOMAIN AllRoom)
          + SumFunctionOnSet(Owed, DOMAIN InfoOfDisbandedRoom)
          + SumFunctionOnSet(Left, DOMAIN RedPacketOfRoom)
  BY <1>1, <1>2, <1>3, <1>4, <1>5, <1>6, <1>7, <1>8 DEF BooksAdded
<1>10. \A h \in DOMAIN AllRoom \cap DOMAIN AllRoom' :
         AllRoom'[h].last_block_of_get_the_reward
           = AllRoom[h].last_block_of_get_the_reward
  BY <1>1 DEF Remove, Restrict
<1> QED BY <1>7, <1>9, <1>10, MoneyMoved

\* Removing someone moves no money.
LEMMA RemoveSomeoneBooks ==
  ASSUME IndInv, IndInv', BooksKept, NEW g, NEW who \in Users, NEW by_root \in BOOLEAN,
         RemoveSomeone(g, who, by_root)
  PROVE  BooksKept' /\ BooksBalance
<1> DEFINE room == AllRoom[g]
           banned == [room EXCEPT
                        !.black_list = @ \cup {who},
                        !.last_remove_someone_block = IF by_root THEN now ELSE @]
           left == RemoveSomeoneInRoom(banned, who)
<1>1. /\ g \in DOMAIN AllRoom /\ AllRoom' = [AllRoom EXCEPT ![g] = left]
      /\ UNCHANGED <<free, treasury, InfoOfDisbandedRoom, RedPacketOfRoom, NextRedPacketId>>
  BY DEF RemoveSomeone, RoomOrigin, UpdateRoom, counters, disbanding, money
<1>2. /\ left.total_balances = room.total_balances
      /\ left.last_block_of_get_the_reward = room.last_block_of_get_the_reward
  BY <1>1, RoomFacts DEF RoomInfo, RemoveSomeoneInRoom
<1> HIDE DEF left
<1> QED BY <1>1, <1>2, FreeTyped, RecordBooks

-----------------------------------------------------------------------------
(* What the manager, the council and the room treasury do.                 *)

\* The setters move no money.
LEMMA SettersBooks ==
  ASSUME IndInv, IndInv', BooksKept, NEW g, SetterCalled(g)
  PROVE  BooksKept' /\ BooksBalance
<1>1. PICK room :
        /\ g \in DOMAIN AllRoom
        /\ UpdateRoom(g, room)
        /\ UNCHANGED <<money, ListenersOfRoom>>
        /\ \/ \E council \in SUBSET Users : room = [AllRoom[g] EXCEPT !.council = council]
           \/ \E black_list \in SUBSET Users :
                room = [AllRoom[g] EXCEPT !.black_list = black_list]
           \/ \E cost \in JoinCosts : room = [AllRoom[g] EXCEPT !.join_cost = cost]
           \/ \E private \in BOOLEAN : room = [AllRoom[g] EXCEPT !.is_private = private]
  BY SetterRecord
<1>2. /\ room.total_balances = AllRoom[g].total_balances
      /\ room.last_block_of_get_the_reward = AllRoom[g].last_block_of_get_the_reward
  BY <1>1, RoomFacts DEF RoomInfo
<1>3. /\ AllRoom' = [AllRoom EXCEPT ![g] = room]
      /\ UNCHANGED <<free, treasury, InfoOfDisbandedRoom, RedPacketOfRoom, NextRedPacketId>>
  BY <1>1 DEF UpdateRoom, counters, disbanding, money
<1> QED BY <1>1, <1>2, <1>3, FreeTyped, RecordBooks

\* A larger room costs its manager the difference, which the treasury gets.
LEMMA SetMaxBooks ==
  ASSUME IndInv, IndInv', BooksKept, NEW g, NEW new_max \in MemberLimits,
         SetMaxNumberForRoomMembers(g, new_max)
  PROVE  BooksKept' /\ BooksBalance
<1> DEFINE room == AllRoom[g]
           new_amount == settings.create_cost[MembersConvertType(new_max)]
           old_amount == settings.create_cost[MembersConvertType(room.max_members)]
           amount == SaturatingSub(new_amount, old_amount)
           resized == [room EXCEPT !.max_members = new_max, !.create_payment = new_amount]
           manager == room.group_manager
<1>1. /\ g \in DOMAIN AllRoom
      /\ free' = [free EXCEPT ![manager] = free[manager] - amount]
      /\ treasury' = treasury + amount
      /\ AllRoom' = [AllRoom EXCEPT ![g] = resized]
      /\ UNCHANGED <<InfoOfDisbandedRoom, RedPacketOfRoom, NextRedPacketId>>
  BY DEF SetMaxNumberForRoomMembers, RoomOrigin, UpdateRoom, counters, disbanding
<1>2. room \in RoomInfo /\ manager \in Users
  BY <1>1, RoomFacts DEF RoomInfo
<1>3. amount \in Int
  <2>1. new_amount \in Balance /\ old_amount \in Balance
    BY SizesTyped DEF IndInv, TypeOK, ClockTyped, Settings
  <2> HIDE DEF new_amount, old_amount
  <2> QED BY <2>1 DEF SaturatingSub, Balance
<1> HIDE DEF amount
<1>4. /\ resized.total_balances = room.total_balances
      /\ resized.last_block_of_get_the_reward = room.last_block_of_get_the_reward
  BY <1>2 DEF RoomInfo
<1> HIDE DEF resized
<1>5. SumFunctionOnSet(free', Users) = SumFunctionOnSet(free, Users) - amount
  BY <1>1, <1>2, <1>3, Paid
<1>6. /\ resized.total_balances \in Int
      /\ SumFunctionOnSet(free', Users) + treasury' + resized.total_balances =
           SumFunctionOnSet(free, Users) + treasury + AllRoom[g].total_balances
  BY <1>1, <1>3, <1>4, <1>5, FreeTyped
<1> QED BY <1>1, <1>4, <1>6, RecordBooks

\* What the room treasury spends leaves the books, which FundsConserved allows.
LEMMA SubFreeBooks ==
  ASSUME IndInv, IndInv', BooksKept, NEW g \in RoomIds, NEW amount \in PacketAmounts,
         SubRoomFreeAmount(g, amount)
  PROVE  BooksKept' /\ BooksBalance
<1> DEFINE room == AllRoom[g]
           spent == [room EXCEPT !.total_balances = @ - amount]
<1>1. /\ g \in DOMAIN AllRoom /\ AllRoom' = [AllRoom EXCEPT ![g] = spent]
      /\ UNCHANGED <<free, treasury, InfoOfDisbandedRoom, RedPacketOfRoom, NextRedPacketId>>
  BY DEF SubRoomFreeAmount, UpdateRoom, counters, disbanding, money
<1>2. /\ room.total_balances \in Int /\ amount \in Int
      /\ spent.total_balances = room.total_balances - amount
  BY <1>1, RoomFacts, InputAssumption DEF RoomInfo, Balance
<1> HIDE DEF spent
<1>3. SumFunctionOnSet(Totals', DOMAIN AllRoom') =
        SumFunctionOnSet(Totals, DOMAIN AllRoom)
          - room.total_balances + spent.total_balances
  <2>1. spent.total_balances \in Int /\ TypeOK
    BY <1>2 DEF IndInv
  <2> QED BY <1>1, <2>1, TotalReplaced
<1>4. /\ BooksKept'
      /\ SumFunctionOnSet(Owed', DOMAIN InfoOfDisbandedRoom') =
           SumFunctionOnSet(Owed, DOMAIN InfoOfDisbandedRoom)
      /\ SumFunctionOnSet(Left', DOMAIN RedPacketOfRoom') =
           SumFunctionOnSet(Left, DOMAIN RedPacketOfRoom)
  BY <1>1, RewardsAndPacketsSame
<1>5. BooksAdded /\ BooksAdded'
  BY <1>4, AddBooks, AddBooksAfter DEF IndInv
<1>6. TotalFunds' = TotalFunds - amount
  BY <1>1, <1>2, <1>3, <1>4, <1>5 DEF BooksAdded
<1> QED BY <1>4, <1>6 DEF BooksBalance

\* manager_get_reward mints the room's proportion: the manager is paid of it, and
\* what is left stays in the room.
LEMMA RewardBooks ==
  ASSUME IndInv, IndInv', BooksKept, NEW g, ManagerGetReward(g)
  PROVE  BooksKept' /\ BooksBalance
<1> DEFINE room == AllRoom[g]
           reward == TotalReward(room)
           periods == RewardPeriods(room)
           last == room.last_block_of_get_the_reward + periods * RewardDuration
           rewarded == [room EXCEPT !.total_balances = RewardedBalances(room, reward),
                                    !.last_block_of_get_the_reward = last]
           mints == Percent(RoomProportion, reward)
           pays == Percent(ManagerProportion, reward)
           manager == room.group_manager
<1>1. /\ g \in DOMAIN AllRoom /\ reward \in Balance /\ periods # 0
      /\ free' = [free EXCEPT ![manager] = free[manager] + pays]
      /\ AllRoom' = [AllRoom EXCEPT ![g] = rewarded]
      /\ UNCHANGED <<treasury, InfoOfDisbandedRoom, RedPacketOfRoom, NextRedPacketId>>
  BY DEF ManagerGetReward, RoomOrigin, UpdateRoom, counters, disbanding
<1>2. room \in RoomInfo /\ manager \in Users /\ room.total_balances \in Nat
  BY <1>1, RoomFacts, InputAssumption DEF RoomInfo, Balance
<1>3. pays \in Nat /\ mints \in Nat /\ pays <= mints
  <2>1. /\ ManagerProportion \in Nat /\ RoomProportion \in Nat
        /\ ManagerProportion <= RoomProportion /\ reward \in Nat
    BY <1>1, ProportionAssumption, InputAssumption DEF Balance
  <2> HIDE DEF reward
  <2> QED BY <2>1, PercentNat, PercentMonotone
<1>4. last # room.last_block_of_get_the_reward
  <2>1. SaturatingSub(now, room.last_block_of_get_the_reward) \in Nat
    BY <1>2 DEF SaturatingSub, RoomInfo, IndInv, TypeOK, ClockTyped
  <2>2. periods \in Nat \ {0} /\ RewardDuration \in Nat \ {0}
    BY <1>1, <2>1, DurationAssumption, DivBound DEF RewardPeriods
  <2> HIDE DEF periods
  <2>3. periods * RewardDuration \in Nat \ {0}
    BY <2>2
  <2>4. room.last_block_of_get_the_reward \in Nat
    BY <1>2 DEF RoomInfo
  <2> DEFINE length == periods * RewardDuration
  <2> HIDE DEF length
  <2> QED BY <2>3, <2>4 DEF length
<1> HIDE DEF last
<1>5. /\ rewarded.total_balances = room.total_balances + mints - pays
      /\ rewarded.last_block_of_get_the_reward = last
  <2>1. rewarded.total_balances = RewardedBalances(room, reward)
    BY <1>2 DEF RoomInfo
  <2>2. RewardedBalances(room, reward) = room.total_balances + mints - pays
    <3> HIDE DEF reward
    <3> QED BY <1>2, <1>3 DEF RewardedBalances, SaturatingSub
  <2> QED BY <1>2, <2>1, <2>2 DEF RoomInfo
<1> HIDE DEF rewarded
<1>6. Minted = mints
  <2>1. Rewarded = {g}
    BY <1>1, <1>4, <1>5 DEF Rewarded
  <2> DEFINE each == [h \in {g} |-> Percent(RoomProportion, TotalReward(AllRoom[h]))]
  <2>2. each[g] = mints /\ DOMAIN each = {g}
    OBVIOUS
  <2>3. Minted = SumFunction(each)
    BY <2>1 DEF Minted
  <2> HIDE DEF each, mints
  <2> QED BY <1>3, <2>2, <2>3, SumSingleton DEF SumFunction
<1> HIDE DEF mints, pays
<1>7. SumFunctionOnSet(free', Users) = SumFunctionOnSet(free, Users) + pays
  <2>1. /\ free'[manager] = free[manager] + pays
        /\ \A u \in Users \ {manager} : free'[u] = free[u]
    BY <1>1, <1>2, FreeTyped
  <2> HIDE DEF manager
  <2> QED BY <1>2, <1>3, <2>1, FreeTyped, BalanceChanged
<1>8. rewarded.total_balances \in Int
  BY <1>2, <1>3, <1>5
<1>9. SumFunctionOnSet(Totals', DOMAIN AllRoom') =
        SumFunctionOnSet(Totals, DOMAIN AllRoom)
          - room.total_balances + rewarded.total_balances
  BY <1>1, <1>8, TotalReplaced DEF IndInv
<1>10. /\ BooksKept'
       /\ SumFunctionOnSet(Owed', DOMAIN InfoOfDisbandedRoom') =
            SumFunctionOnSet(Owed, DOMAIN InfoOfDisbandedRoom)
       /\ SumFunctionOnSet(Left', DOMAIN RedPacketOfRoom') =
            SumFunctionOnSet(Left, DOMAIN RedPacketOfRoom)
  BY <1>1, RewardsAndPacketsSame
<1>11. BooksAdded /\ BooksAdded'
  BY <1>10, AddBooks, AddBooksAfter DEF IndInv
<1>12. TotalFunds' = TotalFunds + Minted
  BY <1>1, <1>2, <1>3, <1>5, <1>6, <1>7, <1>9, <1>10, <1>11 DEF BooksAdded
<1> QED BY <1>10, <1>12 DEF BooksBalance

-----------------------------------------------------------------------------
(* Red packets.                                                            *)

\* A step that touches neither rooms nor rewards.
LEMMA RoomsAndRewardsSame ==
  ASSUME UNCHANGED <<AllRoom, InfoOfDisbandedRoom>>
  PROVE  /\ SumFunctionOnSet(Totals', DOMAIN AllRoom') =
              SumFunctionOnSet(Totals, DOMAIN AllRoom)
         /\ SumFunctionOnSet(Owed', DOMAIN InfoOfDisbandedRoom') =
              SumFunctionOnSet(Owed, DOMAIN InfoOfDisbandedRoom)
         /\ IsFiniteSet(DOMAIN InfoOfDisbandedRoom) =>
              IsFiniteSet(DOMAIN InfoOfDisbandedRoom')
<1>1. Totals' = Totals /\ Owed' = Owed
  BY DEF Totals, Owed
<1> QED BY <1>1

\* What moves between users and red packets balances the books.
LEMMA PacketBooks ==
  ASSUME IndInv, IndInv', BooksKept, BooksKept',
         UNCHANGED <<AllRoom, treasury, InfoOfDisbandedRoom>>,
         SumFunctionOnSet(free', Users)
           + SumFunctionOnSet(Left', DOMAIN RedPacketOfRoom')
         = SumFunctionOnSet(free, Users)
             + SumFunctionOnSet(Left, DOMAIN RedPacketOfRoom)
  PROVE  BooksBalance
<1>1. BooksAdded /\ BooksAdded'
  BY AddBooks, AddBooksAfter DEF IndInv
<1>2. SumFunctionOnSet(free', Users) + treasury'
        + SumFunctionOnSet(Totals', DOMAIN AllRoom')
        + SumFunctionOnSet(Owed', DOMAIN InfoOfDisbandedRoom')
        + SumFunctionOnSet(Left', DOMAIN RedPacketOfRoom')
      = SumFunctionOnSet(free, Users) + treasury
          + SumFunctionOnSet(Totals, DOMAIN AllRoom)
          + SumFunctionOnSet(Owed, DOMAIN InfoOfDisbandedRoom)
          + SumFunctionOnSet(Left, DOMAIN RedPacketOfRoom)
  <2>1. /\ SumFunctionOnSet(Totals', DOMAIN AllRoom') =
             SumFunctionOnSet(Totals, DOMAIN AllRoom)
        /\ SumFunctionOnSet(Owed', DOMAIN InfoOfDisbandedRoom') =
             SumFunctionOnSet(Owed, DOMAIN InfoOfDisbandedRoom)
    BY RoomsAndRewardsSame
  <2>2. /\ SumFunctionOnSet(free', Users) \in Int
        /\ SumFunctionOnSet(Left', DOMAIN RedPacketOfRoom') \in Int
    BY <1>1 DEF BooksAdded
  <2>3. treasury' = treasury
    OBVIOUS
  <2>4. /\ SumFunctionOnSet(free, Users) \in Int /\ treasury \in Int
        /\ SumFunctionOnSet(Totals, DOMAIN AllRoom) \in Int
        /\ SumFunctionOnSet(Owed, DOMAIN InfoOfDisbandedRoom) \in Int
        /\ SumFunctionOnSet(Left, DOMAIN RedPacketOfRoom) \in Int
    BY <1>1 DEF BooksAdded
  <2> QED BY <2>1, <2>2, <2>3, <2>4
<1>3. \A h \in DOMAIN AllRoom \cap DOMAIN AllRoom' :
        AllRoom'[h].last_block_of_get_the_reward
          = AllRoom[h].last_block_of_get_the_reward
  OBVIOUS
<1> QED BY <1>2, <1>3, MoneyMoved

\* Who sends a red packet pays what is in it: its id is new, so it replaces none.
LEMMA SendBooks ==
  ASSUME IndInv, IndInv', BooksKept, NEW who \in Users, NEW g,
         NEW lucky \in LuckyNumbers, NEW amount \in PacketAmounts,
         SendRedpacketInRoom(who, g, lucky, amount)
  PROVE  BooksKept' /\ BooksBalance
<1> DEFINE packet ==
             [boss |-> who, total |-> amount, lucky_man_number |-> lucky,
              already_get_man |-> {}, min_amount_of_per_man |-> settings.min_redpack,
              already_get_amount |-> 0, end_time |-> now + RedPackExpire]
           key == <<g, NextRedPacketId>>
           keys == DOMAIN RedPacketOfRoom
<1>1. /\ free' = [free EXCEPT ![who] = free[who] - amount]
      /\ RedPacketOfRoom' = Put(RedPacketOfRoom, key, packet)
      /\ NextRedPacketId' = NextRedPacketId + 1
      /\ UNCHANGED <<treasury, AllRoom, InfoOfDisbandedRoom>>
  BY DEF SendRedpacketInRoom, disbanding
<1>2. amount \in Nat /\ NextRedPacketId \in Nat
  BY InputAssumption DEF Balance, IndInv, TypeOK, CountersTyped
<1>3. key \notin keys /\ key[2] = NextRedPacketId
  BY <1>2 DEF BooksKept
<1>4. Remain(packet) = amount
  BY <1>2 DEF Remain, SaturatingSub
<1> HIDE DEF packet, key
<1>5. /\ DOMAIN RedPacketOfRoom' = keys \cup {key}
      /\ RedPacketOfRoom'[key] = packet
      /\ \A k \in keys : RedPacketOfRoom'[k] = RedPacketOfRoom[k]
  BY <1>1, <1>3 DEF Put
<1>6. /\ Left'[key] = amount
      /\ \A k \in keys : Left'[k] = Left[k]
  <2>1. \A k \in keys \cup {key} : Left'[k] = Remain(RedPacketOfRoom'[k])
    BY <1>5 DEF Left, Remain
  <2> QED BY <1>4, <1>5, <2>1 DEF Left
<1>7. SumFunctionOnSet(Left', keys \cup {key}) = SumFunctionOnSet(Left, keys) + amount
  <2>1. /\ IsFiniteSet(keys) /\ IntegerOn(Left, keys) /\ Left'[key] \in Int
        /\ \A k \in keys \ {key} : Left'[k] = Left[k]
    BY <1>2, <1>6, BooksTyped, NaturalIsInteger DEF BooksKept, IndInv
  <2> HIDE DEF keys
  <2> QED BY <1>3, <1>6, <2>1, SumStored
<1>8. BooksKept'
  <2>1. IsFiniteSet(keys \cup {key})
    BY FS_AddElement DEF BooksKept
  <2>2. \A k \in keys : k[2] \in Nat /\ k[2] < NextRedPacketId
    BY DEF BooksKept, IndInv, TypeOK, PacketsTyped
  <2>3. \A k \in keys \cup {key} : k[2] < NextRedPacketId'
    BY <1>1, <1>2, <1>3, <2>2
  <2> QED BY <1>1, <1>5, <2>1, <2>3 DEF BooksKept
<1>9. SumFunctionOnSet(free', Users) = SumFunctionOnSet(free, Users) - amount
  <2>1. amount \in Int /\ free' = [free EXCEPT ![who] = free[who] - amount]
    BY <1>1, <1>2
  <2> QED BY <2>1, Paid
<1>10. BooksAdded
  BY AddBooks DEF IndInv
<1>11. SumFunctionOnSet(free', Users)
         + SumFunctionOnSet(Left', DOMAIN RedPacketOfRoom')
       = SumFunctionOnSet(free, Users)
           + SumFunctionOnSet(Left, DOMAIN RedPacketOfRoom)
  BY <1>2, <1>5, <1>7, <1>9, <1>10 DEF BooksAdded
<1> QED BY <1>1, <1>8, <1>11, PacketBooks

\* A part of a red packet is taken from what is left of it; the last one leaves the
\* rest to the boss.
LEMMA GetBooks ==
  ASSUME IndInv, IndInv', BooksKept, NEW g, NEW id, NEW who \in Users,
         NEW amount \in PacketAmounts, GetRedpacketInRoom(g, id, who, amount)
  PROVE  BooksKept' /\ BooksBalance
<1> DEFINE key == <<g, id>>
           keys == DOMAIN RedPacketOfRoom
           packet == RedPacketOfRoom[key]
           boss == packet.boss
           got == [packet EXCEPT !.already_get_man = @ \cup {who},
                                 !.already_get_amount = @ + amount]
           full == Cardinality(got.already_get_man) = packet.lucky_man_number
           rest == IF full THEN Remain(got) ELSE 0
           first == [free EXCEPT ![who] = free[who] + amount]
           gone == full \/ got.already_get_amount = packet.total
<1>1. /\ key \in keys /\ amount <= Remain(packet)
      /\ free' = [first EXCEPT ![boss] = first[boss] + rest]
      /\ gone => RedPacketOfRoom' = Remove(RedPacketOfRoom, {key})
      /\ ~gone => RedPacketOfRoom' = [RedPacketOfRoom EXCEPT ![key] = got]
      /\ UNCHANGED <<treasury, AllRoom, InfoOfDisbandedRoom, NextRedPacketId>>
  BY DEF GetRedpacketInRoom, Claimable, counters, disbanding
<1>2. /\ packet \in RedPacket /\ boss \in Users /\ amount \in Nat
      /\ packet.total \in Nat /\ packet.already_get_amount \in Nat
  BY <1>1, InputAssumption DEF IndInv, TypeOK, PacketsTyped, RedPacket, Balance
<1>3. /\ Remain(packet) \in Nat /\ Remain(got) = Remain(packet) - amount
      /\ got.already_get_amount = packet.total => Remain(got) = 0
  <2>1. /\ got.total = packet.total
        /\ got.already_get_amount = packet.already_get_amount + amount
    BY <1>2 DEF RedPacket
  <2> HIDE DEF got
  <2> QED BY <1>1, <1>2, <2>1 DEF Remain, SaturatingSub
<1>4. Left[key] = Remain(packet)
  BY <1>1 DEF Left
<1> HIDE DEF got, full
<1>5. rest \in Nat /\ (gone => rest = Remain(got)) /\ (~gone => rest = 0)
  BY <1>1, <1>2, <1>3
<1> HIDE DEF rest, gone
<1>6. SumFunctionOnSet(free', Users) = SumFunctionOnSet(free, Users) + amount + rest
  <2>1. /\ SumFunctionOnSet(first, Users) = SumFunctionOnSet(free, Users) + amount
        /\ IntegerOn(first, Users)
    <3>1. first[who] = free[who] + amount /\ \A u \in Users \ {who} : first[u] = free[u]
      BY FreeTyped
    <3> HIDE DEF first
    <3> QED BY <1>2, <3>1, FreeTyped, BalanceChanged
  <2>2. DOMAIN first = Users
    BY FreeTyped
  <2> HIDE DEF first, boss
  <2>3. free'[boss] = first[boss] + rest /\ \A u \in Users \ {boss} : free'[u] = first[u]
    BY <1>1, <1>2, <2>2
  <2> QED BY <1>2, <1>5, <2>1, <2>3, BalanceChanged
<1>7. IsFiniteSet(keys) /\ IntegerOn(Left, keys) /\ BooksAdded /\ TypeOK
  BY BooksTyped, NaturalIsInteger, AddBooks DEF BooksKept, IndInv
<1>8. CASE gone
  <2>1. /\ SumFunctionOnSet(Left', DOMAIN RedPacketOfRoom') =
             SumFunctionOnSet(Left, keys) - SumFunctionOnSet(Left, {key})
        /\ DOMAIN RedPacketOfRoom' \subseteq keys
    BY <1>1, <1>7, <1>8, PacketsGone
  <2>2. SumFunctionOnSet(Left, {key}) = amount + rest
    <3>1. Left[key] = amount + rest /\ Left[key] \in Int
      BY <1>2, <1>3, <1>4, <1>5, <1>8
    <3> QED BY <3>1, SumSingleton
  <2>3. BooksKept'
    BY <1>1, <2>1, FS_Subset DEF BooksKept
  <2>4. SumFunctionOnSet(free', Users)
          + SumFunctionOnSet(Left', DOMAIN RedPacketOfRoom')
        = SumFunctionOnSet(free, Users)
            + SumFunctionOnSet(Left, DOMAIN RedPacketOfRoom)
    BY <1>2, <1>5, <1>6, <1>7, <2>1, <2>2 DEF BooksAdded
  <2> QED BY <1>1, <2>3, <2>4, PacketBooks
<1>9. CASE ~gone
  <2> HIDE DEF key
  <2>1. /\ DOMAIN RedPacketOfRoom' = keys /\ RedPacketOfRoom'[key] = got
        /\ \A k \in keys \ {key} : RedPacketOfRoom'[k] = RedPacketOfRoom[k]
    BY <1>1, <1>9
  <2>2. \A k \in keys : Left'[k] = Remain(RedPacketOfRoom'[k])
    BY <2>1 DEF Left, Remain
  <2>3. Left'[key] = Left[key] - amount /\ \A k \in keys \ {key} : Left'[k] = Left[k]
    BY <1>1, <1>3, <1>4, <2>1, <2>2 DEF Left
  <2>4. SumFunctionOnSet(Left', keys) = SumFunctionOnSet(Left, keys) - amount
    <3>1. Left[key] \in Int /\ Left'[key] \in Int
      BY <1>1, <1>2, <1>7, <2>3 DEF IntegerOn
    <3>2. SumFunctionOnSet(Left', keys) =
            SumFunctionOnSet(Left, keys) - Left[key] + Left'[key]
      <4> HIDE DEF keys
      <4> QED BY <1>1, <1>7, <2>3, <3>1, SumUpdate
    <3> QED BY <1>2, <1>7, <2>3, <3>1, <3>2 DEF BooksAdded
  <2>5. BooksKept'
    BY <1>1, <2>1 DEF BooksKept
  <2>6. SumFunctionOnSet(free', Users)
          + SumFunctionOnSet(Left', DOMAIN RedPacketOfRoom')
        = SumFunctionOnSet(free, Users)
            + SumFunctionOnSet(Left, DOMAIN RedPacketOfRoom)
    BY <1>2, <1>5, <1>6, <1>7, <1>9, <2>1, <2>4 DEF BooksAdded
  <2> QED BY <1>1, <2>5, <2>6, PacketBooks
<1> QED BY <1>8, <1>9

\* What is left of expired red packets goes back to their bosses.
LEMMA GiveBackBooks ==
  ASSUME IndInv, IndInv', BooksKept, NEW g, GiveBackExpiredRedpacket(g)
  PROVE  BooksKept' /\ BooksBalance
<1> DEFINE expired == ExpiredPacketsOf(g)
<1>1. /\ free' = Refund(free, expired)
      /\ RedPacketOfRoom' = Remove(RedPacketOfRoom, expired)
      /\ UNCHANGED <<treasury, AllRoom, InfoOfDisbandedRoom, NextRedPacketId>>
  BY DEF GiveBackExpiredRedpacket, counters, disbanding
<1>2. expired \in SUBSET DOMAIN RedPacketOfRoom /\ TypeOK /\ BooksAdded
  BY AddBooks DEF ExpiredPacketsOf, PacketsOf, IndInv
<1> HIDE DEF expired
<1>3. SumFunctionOnSet(free', Users) =
        SumFunctionOnSet(free, Users) + SumFunctionOnSet(Left, expired)
  BY <1>1, <1>2, FreeTyped, RefundAdded
<1>4. /\ SumFunctionOnSet(Left', DOMAIN RedPacketOfRoom') =
           SumFunctionOnSet(Left, DOMAIN RedPacketOfRoom)
             - SumFunctionOnSet(Left, expired)
      /\ SumFunctionOnSet(Left, expired) \in Int
      /\ DOMAIN RedPacketOfRoom' \subseteq DOMAIN RedPacketOfRoom
  BY <1>1, <1>2, PacketsGone
<1>5. BooksKept'
  BY <1>1, <1>4, FS_Subset DEF BooksKept
<1>6. SumFunctionOnSet(free', Users)
        + SumFunctionOnSet(Left', DOMAIN RedPacketOfRoom')
      = SumFunctionOnSet(free, Users)
          + SumFunctionOnSet(Left, DOMAIN RedPacketOfRoom)
  BY <1>2, <1>3, <1>4 DEF BooksAdded
<1> QED BY <1>1, <1>5, <1>6, PacketBooks

-----------------------------------------------------------------------------
(* Paying out rewards.                                                     *)

\* The reward pay_out reaches first is a stored one of that room.
LEMMA LatestRewardStored ==
  ASSUME IndInv, NEW g, RewardSessions(g) # {}
  PROVE  LatestReward(g) \in DOMAIN InfoOfDisbandedRoom /\ LatestReward(g)[2] = g
<1>1. RewardSessions(g) \in SUBSET Int /\ IsFiniteSet(RewardSessions(g))
  <2>1. GetSessionIndex \in Nat
    BY SessionNat
  <2>2. IsFiniteSet(0 .. GetSessionIndex)
    BY <2>1, FS_Interval
  <2>3. RewardSessions(g) \subseteq 0 .. GetSessionIndex
    BY DEF RewardSessions
  <2> QED BY <2>1, <2>2, <2>3, FS_Subset
<1>2. \E s \in RewardSessions(g) : \A t \in RewardSessions(g) : t <= s
  BY <1>1, LargestExists
<1> DEFINE latest == CHOOSE s \in RewardSessions(g) : \A t \in RewardSessions(g) : t <= s
<1>3. latest \in RewardSessions(g)
  BY <1>2
<1>4. LatestReward(g) = <<latest, g>>
  BY DEF LatestReward
<1> HIDE DEF latest
<1> QED BY <1>3, <1>4 DEF RewardSessions

\* pay_out takes what it pays out of the rewards, room by room.
LEMMA PayOutBooks ==
  ASSUME IndInv, IndInv', BooksKept, NEW who \in Users, PayOut(who)
  PROVE  BooksKept' /\ BooksBalance
<1> DEFINE keys == DOMAIN InfoOfDisbandedRoom
           due == {g \in RoomIds \ DOMAIN AllRoom : NotGetEntries(who, g) # {}}
           found == {g \in due : RewardSessions(g) # {}}
           shares(g) == Cardinality(NotGetEntries(who, g))
           share(k) == shares(k[2]) * InfoOfDisbandedRoom[k].per_man_reward
           shown == [g \in found |->
                       shares(g) * InfoOfDisbandedRoom[LatestReward(g)].per_man_reward]
           amount == SumFunction(shown)
           paid == {LatestReward(g) : g \in found}
           given == [k \in keys |-> IF k \in paid THEN share(k) ELSE 0]
           owner == [k \in paid |-> k[2]]
           owned == [g \in found |-> {LatestReward(g)}]
<1>1. /\ free' = [free EXCEPT ![who] = free[who] + amount]
      /\ InfoOfDisbandedRoom' =
           [k \in keys |->
              IF k \in paid THEN PaidShares(InfoOfDisbandedRoom[k], shares(k[2]))
                            ELSE InfoOfDisbandedRoom[k]]
      /\ UNCHANGED <<treasury, AllRoom, RedPacketOfRoom, NextRedPacketId>>
  BY DEF PayOut, counters
<1>2. \A g \in found : LatestReward(g) \in keys /\ LatestReward(g)[2] = g
  BY LatestRewardStored
<1>3. IsFiniteSet(keys) /\ IsFiniteSet(paid) /\ IsFiniteSet(found) /\ paid \in SUBSET keys
  <2>1. IsFiniteSet(RoomIds) /\ found \subseteq RoomIds
    BY FS_Interval, InputAssumption DEF RoomIds
  <2>2. IsFiniteSet(keys) /\ paid \in SUBSET keys
    BY <1>2 DEF BooksKept
  <2> HIDE DEF keys, paid, found
  <2> QED BY <2>1, <2>2, FS_Subset
<1>4. \A k \in keys : InfoOfDisbandedRoom[k] \in RoomRewardInfo
  BY DEF IndInv, TypeOK, DisbandingTyped
<1>5. \A k \in keys : share(k) \in Nat
  <2> SUFFICES ASSUME NEW k \in keys
               PROVE  share(k) \in Nat
    OBVIOUS
  <2>1. InfoOfDisbandedRoom[k].per_man_reward \in Nat
    BY <1>4, InputAssumption DEF RoomRewardInfo, Balance
  <2>2. shares(k[2]) \in Nat
    BY SharesNat
  <2> HIDE DEF shares
  <2> QED BY <2>1, <2>2, MulNat
<1>6. IntegerOn(given, keys)
  BY <1>5 DEF IntegerOn
<1>7. ASSUME NEW k \in keys
      PROVE  Owed[k] = Owed'[k] + given[k] /\ Owed'[k] \in Int
  <2> DEFINE info == InfoOfDisbandedRoom[k]
             after == InfoOfDisbandedRoom'[k]
  <2>1. Owed[k] = info.total_reward - info.already_get_reward
    BY DEF Owed
  <2>2. Owed'[k] = after.total_reward - after.already_get_reward
    BY <1>1 DEF Owed
  <2>3. info.total_reward \in Int /\ info.already_get_reward \in Int
    BY <1>4, InputAssumption DEF RoomRewardInfo, Balance
  <2>4. /\ after.total_reward = info.total_reward
        /\ after.already_get_reward = info.already_get_reward + given[k]
    <3>1. CASE k \in paid
      <4>1. after = PaidShares(info, shares(k[2]))
        BY <1>1, <3>1
      <4>2. info \in RoomRewardInfo
        BY <1>4
      <4>3. given[k] = shares(k[2]) * info.per_man_reward
        BY <3>1
      <4> HIDE DEF given, after, info, shares
      <4> QED BY <4>1, <4>2, <4>3 DEF PaidShares, RoomRewardInfo
    <3>2. CASE k \notin paid
      <4>1. after = info /\ given[k] = 0
        BY <1>1, <3>2
      <4> HIDE DEF given, after, info
      <4> QED BY <2>3, <4>1
    <3> QED BY <3>1, <3>2
  <2>5. given[k] \in Int
    BY <1>6 DEF IntegerOn
  <2> HIDE DEF given, after, info
  <2> QED BY <2>1, <2>2, <2>3, <2>4, <2>5
<1>8. DOMAIN InfoOfDisbandedRoom' = keys /\ BooksKept'
  BY <1>1 DEF BooksKept
<1>9. SumFunctionOnSet(Owed, keys) =
        SumFunctionOnSet(Owed', keys) + SumFunctionOnSet(given, keys)
  <2>1. IntegerOn(Owed', keys)
    BY <1>7 DEF IntegerOn
  <2> HIDE DEF keys, given
  <2> QED BY <1>3, <1>6, <1>7, <2>1, SumPlus
<1>10. SumFunctionOnSet(given, keys) = SumFunctionOnSet(given, paid)
  <2>1. SumFunctionOnSet(given, keys \ paid) = 0
    <3>1. IsFiniteSet(keys \ paid) /\ \A k \in keys \ paid : given[k] = 0
      BY <1>3, FS_Subset
    <3> HIDE DEF given
    <3> QED BY <3>1, SumZeros
  <2>2. SumFunctionOnSet(given, paid) \in Int
    BY <1>3, <1>6, SumInt DEF IntegerOn
  <2>3. SumFunctionOnSet(given, keys) =
          SumFunctionOnSet(given, paid) + SumFunctionOnSet(given, keys \ paid)
    <3> HIDE DEF keys, given, paid
    <3> QED BY <1>3, <1>6, SumSplit
  <2> HIDE DEF given, paid, keys
  <2> QED BY <2>1, <2>2, <2>3
<1>11. SumFunctionOnSet(shown, found) = SumFunctionOnSet(given, paid)
  <2>1. \A k \in paid : owner[k] \in found
    BY <1>2
  <2>2. \A g \in found : \A k : k \in owned[g] <=> k \in paid /\ owner[k] = g
    BY <1>2
  <2>3. ASSUME NEW g \in found
        PROVE  shown[g] = SumFunctionOnSet(given, owned[g])
    <3>1. LatestReward(g) \in paid /\ LatestReward(g) \in keys
      BY <1>2
    <3>2. given[LatestReward(g)] = shown[g] /\ given[LatestReward(g)] \in Int
      BY <1>2, <1>5, <3>1
    <3> HIDE DEF given, shown
    <3> QED BY <3>2, SumSingleton
  <2>4. IntegerOn(given, paid)
    BY <1>3, <1>6 DEF IntegerOn
  <2> HIDE DEF owner, owned, given, shown, paid, found
  <2> QED BY <1>3, <2>1, <2>2, <2>3, <2>4, SumByOwner
<1>12. amount = SumFunctionOnSet(given, paid) /\ amount \in Int
  <2>1. amount = SumFunctionOnSet(shown, found)
    BY DEF SumFunction
  <2>2. SumFunctionOnSet(given, paid) \in Int
    BY <1>3, <1>6, SumInt DEF IntegerOn
  <2> QED BY <1>11, <2>1, <2>2
<1> HIDE DEF amount, given, paid, found, due, keys
<1>13. SumFunctionOnSet(free', Users) = SumFunctionOnSet(free, Users) + amount
  <2>1. free'[who] = free[who] + amount /\ \A u \in Users \ {who} : free'[u] = free[u]
    BY <1>1, FreeTyped
  <2> QED BY <1>12, <2>1, FreeTyped, BalanceChanged
<1>14. Totals' = Totals /\ Left' = Left
  BY <1>1 DEF Totals, Left, Remain
<1>15. BooksAdded /\ BooksAdded'
  BY <1>8, AddBooks, AddBooksAfter DEF IndInv
<1>16. SumFunctionOnSet(Owed', DOMAIN InfoOfDisbandedRoom') =
         SumFunctionOnSet(Owed, DOMAIN InfoOfDisbandedRoom) - amount
  <2>1. /\ SumFunctionOnSet(Owed', DOMAIN InfoOfDisbandedRoom') \in Int
        /\ SumFunctionOnSet(Owed, DOMAIN InfoOfDisbandedRoom) \in Int
    BY <1>15 DEF BooksAdded
  <2> QED BY <1>8, <1>9, <1>10, <1>12, <2>1 DEF keys
<1>17. SumFunctionOnSet(free', Users) + treasury'
         + SumFunctionOnSet(Totals', DOMAIN AllRoom')
         + SumFunctionOnSet(Owed', DOMAIN InfoOfDisbandedRoom')
         + SumFunctionOnSet(Left', DOMAIN RedPacketOfRoom')
       = SumFunctionOnSet(free, Users) + treasury
           + SumFunctionOnSet(Totals, DOMAIN AllRoom)
           + SumFunctionOnSet(Owed, DOMAIN InfoOfDisbandedRoom)
           + SumFunctionOnSet(Left, DOMAIN RedPacketOfRoom)
  BY <1>1, <1>12, <1>13, <1>14, <1>15, <1>16 DEF BooksAdded
<1>18. \A h \in DOMAIN AllRoom \cap DOMAIN AllRoom' :
         AllRoom'[h].last_block_of_get_the_reward
           = AllRoom[h].last_block_of_get_the_reward
  BY <1>1
<1> QED BY <1>8, <1>17, <1>18, MoneyMoved

-----------------------------------------------------------------------------
(* The books balance in every step.                                        *)

\* A step that moves nothing balances them.
LEMMA IdleBooks ==
  ASSUME IndInv, IndInv', BooksKept,
         UNCHANGED <<free, treasury, AllRoom, InfoOfDisbandedRoom, RedPacketOfRoom,
                     NextRedPacketId>>
  PROVE  BooksKept' /\ BooksBalance
<1>1. BooksKept'
  BY DEF BooksKept
<1>2. /\ SumFunctionOnSet(free', Users)
           + SumFunctionOnSet(Left', DOMAIN RedPacketOfRoom')
         = SumFunctionOnSet(free, Users)
             + SumFunctionOnSet(Left, DOMAIN RedPacketOfRoom)
  <2>1. Left' = Left
    BY DEF Left, Remain
  <2> QED BY <2>1
<1> QED BY <1>1, <1>2, PacketBooks

\* Every step keeps the books and balances them.
LEMMA NextBooks ==
  ASSUME IndInv, IndInv', BooksKept, [Next]_vars
  PROVE  BooksKept' /\ BooksBalance
<1>1. CASE NewBlock \/ RootNext \/ UNCHANGED vars
  <2>1. UNCHANGED <<free, treasury, AllRoom, InfoOfDisbandedRoom, RedPacketOfRoom,
                    NextRedPacketId>>
    <3>1. CASE NewBlock
      BY <3>1 DEF NewBlock, counters, money, disbanding
    <3>2. CASE RootNext
      BY <3>2 DEF RootNext, SetCreateCost, SetRemoveInterval, SetDisbandInterval,
                  SetPropsPrice, SetAudioPrice, SetRedpackMinAmount, ChangeSettings,
                  counters, money, disbanding
    <3>3. CASE UNCHANGED vars
      BY <3>3 DEF vars, counters, money, disbanding
    <3> QED BY <1>1, <3>1, <3>2, <3>3
  <2> QED BY <2>1, IdleBooks
<1>2. CASE \E who \in Users, max \in MemberLimits, cost \in JoinCosts,
             private \in BOOLEAN : CreateRoom(who, max, cost, private)
  BY <1>2, CreateRoomBooks
<1>3. CASE \E g \in RoomIds : ManagerNext(g)
  <2> SUFFICES ASSUME NEW g \in RoomIds, ManagerNext(g)
               PROVE  BooksKept' /\ BooksBalance
    BY <1>3
  <2>1. CASE \E who \in Users, by_root \in BOOLEAN : RemoveSomeone(g, who, by_root)
    BY <2>1, RemoveSomeoneBooks
  <2>2. CASE \E new_max \in MemberLimits : SetMaxNumberForRoomMembers(g, new_max)
    BY <2>2, SetMaxBooks
  <2>3. CASE ManagerGetReward(g)
    BY <2>3, RewardBooks
  <2>4. CASE \E amount \in PacketAmounts : SubRoomFreeAmount(g, amount)
    BY <2>4, SubFreeBooks
  <2>5. CASE SetterCalled(g)
    BY <2>5, SettersBooks
  <2> QED BY <2>1, <2>2, <2>3, <2>4, <2>5 DEF ManagerNext, SetterCalled
<1>4. CASE \E who \in Users, g \in RoomIds : MemberNext(who, g)
  <2> SUFFICES ASSUME NEW who \in Users, NEW g \in RoomIds, MemberNext(who, g)
               PROVE  BooksKept' /\ BooksBalance
    BY <1>4
  <2>1. CASE \E invitee \in Users \cup {None} : IntoRoom(who, invitee, g)
    BY <2>1, IntoRoomBooks
  <2>2. CASE ExitAmongOthers(who, g) \/ ExitAsLast(who, g)
    BY <2>2, ExitAmongOthersBooks, ExitAsLastBooks
  <2>3. CASE \E quantity \in Quantities :
               BuyPropsInRoom(who, g, quantity) \/ BuyAudioInRoom(who, g, quantity)
    BY <2>3, BuyBooks DEF BuyPropsInRoom, BuyAudioInRoom
  <2>4. CASE AskForDisbandRoom(who, g)
    BY <2>4, AskBooks
  <2>5. CASE \E approves \in BOOLEAN : Vote(who, g, approves)
    BY <2>5, VoteBooks
  <2>6. CASE \E lucky \in LuckyNumbers, amount \in PacketAmounts :
               SendRedpacketInRoom(who, g, lucky, amount)
    BY <2>6, SendBooks
  <2> QED BY <2>1, <2>2, <2>3, <2>4, <2>5, <2>6 DEF MemberNext
<1>5. CASE \E g \in RoomIds : DisbandRoom(g) \/ GiveBackExpiredRedpacket(g)
  BY <1>5, DisbandRoomBooks, GiveBackBooks
<1>6. CASE \E who \in Users : PayOut(who)
  BY <1>6, PayOutBooks
<1>7. CASE \E k \in DOMAIN RedPacketOfRoom, who \in Users, amount \in PacketAmounts :
             GetRedpacketInRoom(k[1], k[2], who, amount)
  BY <1>7, GetBooks
<1> QED BY <1>1, <1>2, <1>3, <1>4, <1>5, <1>6, <1>7 DEF Next

\* The books can always be added up.
LEMMA BooksAlwaysKept == Spec => []BooksKept
<1>1. Init => BooksKept
  BY FS_EmptySet DEF Init, BooksKept, EmptyMap
<1>2. IndInv /\ IndInv' /\ BooksKept /\ [Next]_vars => BooksKept'
  BY NextBooks
<1> QED BY <1>1, <1>2, InductiveInvariant, PTL DEF Spec

\* No step makes or loses money, but a manager's reward, what the room treasury
\* spends, and the two disbandings FundsConserved names: of a room whose record is
\* stored again, and of one that overwrites a reward of the same session.
THEOREM FundsAlwaysConserved == Spec => FundsConserved
<1>1. IndInv /\ IndInv' /\ BooksKept /\ [Next]_vars =>
        [\/ \E g \in RoomIds, amount \in PacketAmounts :
              SubRoomFreeAmount(g, amount) /\ TotalFunds' = TotalFunds - amount
         \/ \E g \in DOMAIN AllRoom :
              Disbands(g) /\ TotalFunds' = TotalFunds - Unpaid(g) + StoredFunds(g)'
         \/ TotalFunds' = TotalFunds + Minted]_vars
  BY NextBooks DEF BooksBalance
<1> QED BY <1>1, InductiveInvariant, BooksAlwaysKept, PTL DEF Spec, FundsConserved

-----------------------------------------------------------------------------
(* Votes. VotesWeighed is inductive once IndInv holds. Only a vote, a      *)
(* request and a purchase of a voter change the votes (JudgeVotes); a step *)
(* that counts none may let voters have spent less, never more while their *)
(* vote is open (StoredVotes).                                             *)

\* Each side's amount covers what its voters have spent.
Weighed(room) ==
  /\ room.disband_vote.approve_total_amount >=
       SumFunctionOnSet(room.consume, room.disband_vote.approve_man)
  /\ room.disband_vote.reject_total_amount >=
       SumFunctionOnSet(room.consume, room.disband_vote.reject_man)

OneSided(room) ==
  room.disband_vote.approve_man \cap room.disband_vote.reject_man = {}

Voters(room) == room.disband_vote.approve_man \cup room.disband_vote.reject_man

\* The votes of room g are those of VotesWeighed.
VotesSound(g, room) == OneSided(room) /\ (IsVoting(g, room) => Weighed(room))

LEMMA WeighedRooms ==
  VotesWeighed <=> \A g \in DOMAIN AllRoom : VotesSound(g, AllRoom[g])
BY DEF VotesWeighed, VotesSound, OneSided, Weighed

\* The numbers the votes of a room are made of.
LEMMA VotesNatural ==
  ASSUME NEW room \in RoomInfo
  PROVE  /\ Voters(room) \subseteq Users
         /\ room.disband_vote.approve_total_amount \in Nat
         /\ room.disband_vote.reject_total_amount \in Nat
         /\ \A T \in SUBSET Users :
              IsFiniteSet(T) /\ IntegerOn(room.consume, T) /\ NaturalOn(room.consume, T)
         /\ \A T \in SUBSET Users : SumFunctionOnSet(room.consume, T) \in Nat
<1>1. \A T \in SUBSET Users :
        IsFiniteSet(T) /\ IntegerOn(room.consume, T) /\ NaturalOn(room.consume, T)
  BY FS_Subset, InputAssumption DEF RoomInfo, Balance, IntegerOn, NaturalOn
<1>2. \A T \in SUBSET Users : SumFunctionOnSet(room.consume, T) \in Nat
  BY <1>1, SumNat
<1> QED BY <1>1, <1>2, InputAssumption DEF RoomInfo, DisbandVote, Voters, Balance

\* Votes that covered what voters had spent still do when voters have spent less.
LEMMA WeighedStays ==
  ASSUME NEW room \in RoomInfo, NEW after \in RoomInfo, Weighed(room),
         after.disband_vote = room.disband_vote,
         \A u \in Voters(room) : after.consume[u] <= room.consume[u]
  PROVE  Weighed(after)
<1>1. ASSUME NEW T \in SUBSET Voters(room)
      PROVE  SumFunctionOnSet(after.consume, T) <= SumFunctionOnSet(room.consume, T)
  <2>1. /\ IsFiniteSet(T) /\ IntegerOn(room.consume, T) /\ IntegerOn(after.consume, T)
        /\ \A u \in T : after.consume[u] <= room.consume[u]
    BY VotesNatural
  <2> QED BY <2>1, SumMonotone
<1> DEFINE votes == room.disband_vote
<1>2. /\ votes.approve_man \in SUBSET Users /\ votes.reject_man \in SUBSET Users
      /\ votes.approve_man \in SUBSET Voters(room)
      /\ votes.reject_man \in SUBSET Voters(room)
  BY VotesNatural DEF Voters
<1>3. /\ SumFunctionOnSet(after.consume, votes.approve_man) \in Nat
      /\ SumFunctionOnSet(after.consume, votes.reject_man) \in Nat
      /\ SumFunctionOnSet(room.consume, votes.approve_man) \in Nat
      /\ SumFunctionOnSet(room.consume, votes.reject_man) \in Nat
  BY <1>2, VotesNatural
<1>4. /\ SumFunctionOnSet(after.consume, votes.approve_man)
           <= SumFunctionOnSet(room.consume, votes.approve_man)
      /\ SumFunctionOnSet(after.consume, votes.reject_man)
           <= SumFunctionOnSet(room.consume, votes.reject_man)
  BY <1>1, <1>2
<1> QED BY <1>3, <1>4, VotesNatural DEF Weighed

\* A room that is there after a step has the votes it had, its vote is open no
\* longer than before, and while it is its voters have spent no more.
VotesPass(g) ==
  /\ g \in DOMAIN AllRoom
  /\ AllRoom'[g].disband_vote = AllRoom[g].disband_vote
  /\ IsVoting(g, AllRoom[g])' =>
       /\ IsVoting(g, AllRoom[g])
       /\ \A u \in Voters(AllRoom[g]) : AllRoom'[g].consume[u] <= AllRoom[g].consume[u]

\* Votes that pass a step stay sound.
LEMMA PassedSound ==
  ASSUME IndInv, IndInv', VotesWeighed, NEW g \in DOMAIN AllRoom', VotesPass(g)
  PROVE  VotesSound(g, AllRoom[g])'
<1>1. /\ g \in DOMAIN AllRoom /\ AllRoom[g] \in RoomInfo /\ AllRoom'[g] \in RoomInfo
      /\ VotesSound(g, AllRoom[g])
  BY WeighedRooms DEF VotesPass, IndInv, TypeOK, RoomsTyped
<1>2. OneSided(AllRoom[g])'
  BY <1>1 DEF VotesPass, VotesSound, OneSided
<1>3. IsVoting(g, AllRoom[g])' => Weighed(AllRoom[g])'
  <2> SUFFICES ASSUME IsVoting(g, AllRoom[g])'
               PROVE  Weighed(AllRoom'[g])
    BY DEF Weighed
  <2> QED BY <1>1, WeighedStays DEF VotesPass, VotesSound
<1> QED BY <1>2, <1>3 DEF VotesSound

\* A vote that is open after a step was open before, if its end is the same and no
\* notice was withdrawn.
LEMMA OpenBefore ==
  ASSUME IndInv, IndInv', NEW g \in DOMAIN AllRoom, g \in DOMAIN AllRoom',
         AllRoom'[g].disband_vote_end_block = AllRoom[g].disband_vote_end_block,
         now <= now', Pending(g) => Pending(g)', IsVoting(g, AllRoom[g])'
  PROVE  IsVoting(g, AllRoom[g])
<1>1. AllRoom[g] \in RoomInfo /\ now \in Nat /\ now' \in Nat
  BY RoomFacts DEF IndInv, TypeOK, ClockTyped
<1>2. AllRoom[g].disband_vote_end_block \in Nat
  BY <1>1 DEF RoomInfo
<1> QED BY <1>1, <1>2 DEF IsVoting, SaturatingSub

\* A step that stores no room.
LEMMA RoomsSameVotes ==
  ASSUME IndInv, IndInv', VotesWeighed, now <= now',
         UNCHANGED <<AllRoom, PendingDisbandRooms>>
  PROVE  VotesWeighed'
<1>1. ASSUME NEW g \in DOMAIN AllRoom'
      PROVE  VotesPass(g)
  <2>1. g \in DOMAIN AllRoom /\ AllRoom'[g] = AllRoom[g] /\ AllRoom[g] \in RoomInfo
    BY <1>1, RoomFacts
  <2>2. IsVoting(g, AllRoom[g])' => IsVoting(g, AllRoom[g])
    BY <2>1, OpenBefore DEF Pending
  <2>3. \A u \in Users : AllRoom[g].consume[u] \in Int
    BY <2>1, InputAssumption DEF RoomInfo, Balance
  <2> QED BY <2>1, <2>2, <2>3, VotesNatural DEF VotesPass
<1> QED BY <1>1, PassedSound DEF VotesWeighed, VotesSound, OneSided, Weighed

\* A step that stores one room, and no notice, without counting votes.
LEMMA StoredVotes ==
  ASSUME IndInv, IndInv', VotesWeighed, NEW g \in DOMAIN AllRoom, NEW room,
         AllRoom' = [AllRoom EXCEPT ![g] = room],
         UNCHANGED <<now, PendingDisbandRooms>>,
         room.disband_vote = AllRoom[g].disband_vote,
         room.disband_vote_end_block = AllRoom[g].disband_vote_end_block,
         IsVoting(g, AllRoom[g]) =>
           \A u \in Voters(AllRoom[g]) : room.consume[u] <= AllRoom[g].consume[u]
  PROVE  VotesWeighed'
<1>0. now \in Nat /\ now <= now'
  BY DEF IndInv, TypeOK, ClockTyped
<1>1. ASSUME NEW h \in DOMAIN AllRoom'
      PROVE  VotesPass(h)
  <2>1. h \in DOMAIN AllRoom /\ AllRoom[h] \in RoomInfo
    BY <1>1, RoomFacts
  <2>2. \A u \in Users : AllRoom[h].consume[u] \in Int
    BY <2>1, InputAssumption DEF RoomInfo, Balance
  <2>3. /\ AllRoom'[h].disband_vote = AllRoom[h].disband_vote
        /\ AllRoom'[h].disband_vote_end_block = AllRoom[h].disband_vote_end_block
    BY <2>1
  <2>4. IsVoting(h, AllRoom[h])' => IsVoting(h, AllRoom[h])
    BY <1>0, <2>1, <2>3, OpenBefore DEF Pending
  <2>5. IsVoting(h, AllRoom[h]) =>
          \A u \in Voters(AllRoom[h]) : AllRoom'[h].consume[u] <= AllRoom[h].consume[u]
    BY <2>1, <2>2, VotesNatural
  <2> QED BY <2>1, <2>3, <2>4, <2>5 DEF VotesPass
<1> QED BY <1>1, PassedSound DEF VotesWeighed, VotesSound, OneSided, Weighed

\* A step that removes a room and its notice.
LEMMA RemovedVotes ==
  ASSUME IndInv, IndInv', VotesWeighed, NEW g, AllRoom' = Remove(AllRoom, {g}),
         UNCHANGED now, \A h : h # g => (Pending(h) => Pending(h)')
  PROVE  VotesWeighed'
<1>0. now \in Nat /\ now <= now'
  BY DEF IndInv, TypeOK, ClockTyped
<1>1. ASSUME NEW h \in DOMAIN AllRoom'
      PROVE  VotesPass(h)
  <2>1. /\ h \in DOMAIN AllRoom /\ AllRoom'[h] = AllRoom[h] /\ h # g
    BY <1>1 DEF Remove, Restrict
  <2>2. AllRoom[h] \in RoomInfo
    BY <2>1, RoomFacts
  <2>3. IsVoting(h, AllRoom[h])' => IsVoting(h, AllRoom[h])
    <3>1. Pending(h) => Pending(h)'
      BY <2>1
    <3>2. AllRoom'[h].disband_vote_end_block = AllRoom[h].disband_vote_end_block
      BY <2>1
    <3>3. h \in DOMAIN AllRoom /\ h \in DOMAIN AllRoom'
      BY <1>1, <2>1
    <3> QED BY <1>0, <3>1, <3>2, <3>3, OpenBefore
  <2>4. \A u \in Users : AllRoom[h].consume[u] \in Int
    BY <2>2, InputAssumption DEF RoomInfo, Balance
  <2>5. \A u \in Voters(AllRoom[h]) : AllRoom'[h].consume[u] <= AllRoom[h].consume[u]
    <3>1. Voters(AllRoom[h]) \subseteq Users
      BY <2>2, VotesNatural
    <3> QED BY <2>1, <2>4, <3>1
  <2> QED BY <2>1, <2>3, <2>5 DEF VotesPass
<1> QED BY <1>1, PassedSound DEF VotesWeighed, VotesSound, OneSided, Weighed

\* No votes weigh nothing.
LEMMA NoVotesSound ==
  ASSUME NEW room, room.disband_vote = NoVotes
  PROVE  OneSided(room) /\ Weighed(room)
BY SumEmpty DEF OneSided, Weighed, NoVotes

\* Whatever the votes are counted to, the record that is stored has sound votes:
\* those that were counted, none, or votes that are over.
LEMMA JudgeVotes ==
  ASSUME IndInv, IndInv', VotesWeighed, NEW g \in DOMAIN AllRoom, NEW room \in RoomInfo,
         NEW balances, JudgeAndInsert(g, room, balances), UNCHANGED now,
         OneSided(room), Weighed(room)
  PROVE  VotesWeighed'
<1> DEFINE result == VoteEndResult(room, now)
           immediate == result = "pass" /\ GetRoomConsumeAmount(room) = 0
           stored ==
             CASE result = "pass" -> [room EXCEPT !.disband_vote_end_block = now]
               [] result = "not_pass" -> RemoveVoteInfo(room, now)
               [] result = "not_end" -> room
<1>1. /\ DOMAIN AllRoom' = DOMAIN AllRoom
      /\ \A h \in DOMAIN AllRoom \ {g} : AllRoom'[h] = AllRoom[h]
      /\ \A h : h # g => (Pending(h) => Pending(h)')
      /\ now \in Nat /\ now <= now'
  BY DEF JudgeAndInsert, DoDisband, Remove, Restrict, Put, Pending, IndInv, TypeOK,
         ClockTyped
<1>2. ASSUME NEW h \in DOMAIN AllRoom', h # g
      PROVE  VotesSound(h, AllRoom[h])'
  <2>1. h \in DOMAIN AllRoom /\ AllRoom'[h] = AllRoom[h] /\ AllRoom[h] \in RoomInfo
    BY <1>1, <1>2, RoomFacts
  <2>2. IsVoting(h, AllRoom[h])' => IsVoting(h, AllRoom[h])
    BY <1>1, <1>2, <2>1, OpenBefore
  <2>3. \A u \in Users : AllRoom[h].consume[u] \in Int
    BY <2>1, InputAssumption DEF RoomInfo, Balance
  <2>4. VotesPass(h)
    BY <2>1, <2>2, <2>3, VotesNatural DEF VotesPass
  <2> QED BY <2>4, PassedSound
<1>3. VotesSound(g, AllRoom[g])'
  <2>1. CASE immediate
    <3>1. AllRoom'[g] = room
      BY <2>1 DEF JudgeAndInsert
    <3> QED BY <3>1 DEF VotesSound, OneSided, Weighed
  <2>2. CASE ~immediate
    <3>1. AllRoom'[g] = stored
      BY <2>2 DEF JudgeAndInsert
    <3>2. CASE result = "pass"
      <4>1. Pending(g)'
        BY <2>2, <3>2 DEF JudgeAndInsert, Pending, Put
      <4>2. stored.disband_vote = room.disband_vote
        BY <3>2 DEF RoomInfo
      <4> QED BY <3>1, <4>1, <4>2 DEF VotesSound, OneSided, IsVoting
    <3>3. CASE result = "not_pass"
      <4>1. stored.disband_vote = NoVotes
        BY <3>3 DEF RemoveVoteInfo, RoomInfo
      <4> HIDE DEF stored
      <4>2. OneSided(stored) /\ Weighed(stored)
        BY <4>1, NoVotesSound
      <4> QED BY <3>1, <4>2 DEF VotesSound, OneSided, Weighed
    <3>4. CASE result = "not_end"
      <4>1. AllRoom'[g] = room
        BY <3>1, <3>4
      <4> QED BY <4>1 DEF VotesSound, OneSided, Weighed
    <3> QED BY <3>2, <3>3, <3>4, VoteResults
  <2> QED BY <2>1, <2>2
<1> QED BY <1>1, <1>2, <1>3 DEF VotesWeighed, VotesSound, OneSided, Weighed

-----------------------------------------------------------------------------
(* Voting and spending.                                                    *)

\* A vote moves what the voter spent to his side.
LEMMA VoteWeighed ==
  ASSUME IndInv, IndInv', VotesWeighed, NEW who \in Users, NEW g,
         NEW approves \in BOOLEAN, Vote(who, g, approves)
  PROVE  VotesWeighed'
<1> DEFINE room == AllRoom[g]
           amount == room.consume[who]
           old == room.disband_vote
           votes == IF approves THEN Approve(old, who, amount)
                                ELSE Reject(old, who, amount)
           voted == [room EXCEPT !.disband_vote = votes]
           sum(T) == SumFunctionOnSet(room.consume, T)
<1>1. /\ g \in DOMAIN AllRoom /\ IsVoting(g, room)
      /\ votes.approve_total_amount \in Balance
      /\ votes.reject_total_amount \in Balance
      /\ approves => who \notin old.approve_man
      /\ ~approves => who \notin old.reject_man
      /\ JudgeAndInsert(g, voted, free)
      /\ UNCHANGED now
  BY DEF Vote, InRoom, clock
<1>2. /\ room \in RoomInfo /\ OneSided(room) /\ Weighed(room)
  BY <1>1, RoomFacts, WeighedRooms DEF VotesSound
<1>3. /\ old.approve_man \in SUBSET Users /\ old.reject_man \in SUBSET Users
      /\ old.approve_total_amount \in Nat /\ old.reject_total_amount \in Nat
      /\ amount \in Nat
  BY <1>2, InputAssumption DEF RoomInfo, DisbandVote, Balance
<1>4. \A T \in SUBSET Users : who \notin T => sum(T \cup {who}) = sum(T) + amount
  <2> SUFFICES ASSUME NEW T \in SUBSET Users, who \notin T
               PROVE  sum(T \cup {who}) = sum(T) + amount
    OBVIOUS
  <2>1. T \cup {who} \in SUBSET Users /\ {who} \in SUBSET Users /\ T \cap {who} = {}
    OBVIOUS
  <2>2. /\ IsFiniteSet(T) /\ IsFiniteSet({who})
        /\ IntegerOn(room.consume, T \cup {who})
    BY <1>2, <2>1, VotesNatural
  <2>3. sum({who}) = amount
    BY <1>3, SumSingleton
  <2>4. sum(T \cup {who}) = sum(T) + sum({who})
    BY <2>1, <2>2, SumUnion
  <2> QED BY <2>3, <2>4
<1>5. \A T \in SUBSET Users : who \in T => sum(T) = sum(T \ {who}) + amount
  <2> SUFFICES ASSUME NEW T \in SUBSET Users, who \in T
               PROVE  sum(T) = sum(T \ {who}) + amount
    OBVIOUS
  <2>1. T \ {who} \in SUBSET Users /\ who \notin T \ {who} /\ (T \ {who}) \cup {who} = T
    OBVIOUS
  <2> HIDE DEF sum, amount
  <2> QED BY <1>4, <2>1
<1>6. \A T \in SUBSET Users : sum(T) \in Nat
  BY <1>2, VotesNatural
<1>7. votes \in DisbandVote
  BY <1>1, <1>2, ApproveTyped, RejectTyped DEF RoomInfo
<1>8. /\ old.approve_total_amount >= sum(old.approve_man)
      /\ old.reject_total_amount >= sum(old.reject_man)
      /\ old.approve_man \cap old.reject_man = {}
  BY <1>2 DEF Weighed, OneSided
<1> HIDE DEF amount, sum, old
<1>9. /\ votes.approve_total_amount >= sum(votes.approve_man)
      /\ votes.reject_total_amount >= sum(votes.reject_man)
      /\ votes.approve_man \cap votes.reject_man = {}
  <2>1. CASE approves
    <3>1. /\ votes.approve_man = old.approve_man \cup {who}
          /\ votes.approve_total_amount = old.approve_total_amount + amount
          /\ votes.reject_man = old.reject_man \ {who}
          /\ who \in old.reject_man => votes.reject_total_amount =
                                         SaturatingSub(old.reject_total_amount, amount)
          /\ who \notin old.reject_man => votes.reject_total_amount =
                                            old.reject_total_amount
      BY <2>1 DEF Approve
    <3> HIDE DEF votes
    <3>2. sum(votes.approve_man) = sum(old.approve_man) + amount
      BY <1>1, <1>3, <1>4, <2>1, <3>1
    <3>3. CASE who \in old.reject_man
      BY <1>3, <1>5, <1>6, <1>8, <3>1, <3>2, <3>3 DEF SaturatingSub
    <3>4. CASE who \notin old.reject_man
      <4>1. /\ votes.reject_man = old.reject_man
            /\ votes.reject_total_amount = old.reject_total_amount
        BY <3>1, <3>4
      <4>2. votes.reject_total_amount >= sum(votes.reject_man)
        BY <1>8, <4>1
      <4>3. votes.approve_total_amount >= sum(votes.approve_man)
        BY <1>3, <1>6, <1>8, <3>1, <3>2
      <4>4. votes.approve_man \cap votes.reject_man = {}
        BY <1>8, <3>1, <3>4, <4>1
      <4> QED BY <4>2, <4>3, <4>4
    <3> QED BY <3>3, <3>4
  <2>2. CASE ~approves
    <3>1. /\ votes.reject_man = old.reject_man \cup {who}
          /\ votes.reject_total_amount = old.reject_total_amount + amount
          /\ votes.approve_man = old.approve_man \ {who}
          /\ who \in old.approve_man => votes.approve_total_amount =
                                          SaturatingSub(old.approve_total_amount, amount)
          /\ who \notin old.approve_man => votes.approve_total_amount =
                                             old.approve_total_amount
      BY <2>2 DEF Reject
    <3> HIDE DEF votes
    <3>2. sum(votes.reject_man) = sum(old.reject_man) + amount
      BY <1>1, <1>3, <1>4, <2>2, <3>1
    <3>3. CASE who \in old.approve_man
      BY <1>3, <1>5, <1>6, <1>8, <3>1, <3>2, <3>3 DEF SaturatingSub
    <3>4. CASE who \notin old.approve_man
      <4>1. /\ votes.approve_man = old.approve_man
            /\ votes.approve_total_amount = old.approve_total_amount
        BY <3>1, <3>4
      <4>2. votes.approve_total_amount >= sum(votes.approve_man)
        BY <1>8, <4>1
      <4>3. votes.reject_total_amount >= sum(votes.reject_man)
        BY <1>3, <1>6, <1>8, <3>1, <3>2
      <4>4. votes.approve_man \cap votes.reject_man = {}
        BY <1>8, <3>1, <3>4, <4>1
      <4> QED BY <4>2, <4>3, <4>4
    <3> QED BY <3>3, <3>4
  <2> QED BY <2>1, <2>2
<1> HIDE DEF votes
<1>10. voted \in RoomInfo /\ voted.disband_vote = votes /\ voted.consume = room.consume
  BY <1>2, <1>7 DEF RoomInfo
<1> HIDE DEF voted
<1>11. OneSided(voted) /\ Weighed(voted)
  BY <1>9, <1>10 DEF OneSided, Weighed, sum
<1> QED BY <1>1, <1>10, <1>11, JudgeVotes

\* Whoever asks votes for it with what he spent.
LEMMA AskWeighed ==
  ASSUME IndInv, IndInv', VotesWeighed, NEW who \in Users, NEW g,
         AskForDisbandRoom(who, g)
  PROVE  VotesWeighed'
<1> DEFINE room == AllRoom[g]
           votes == Approve(NoVotes, who, room.consume[who])
           asked == [room EXCEPT !.disband_vote = votes,
                                 !.disband_vote_end_block = now + VoteExpire]
<1>1. /\ g \in DOMAIN AllRoom /\ UNCHANGED now
      /\ \E balances : JudgeAndInsert(g, asked, balances)
  BY DEF AskForDisbandRoom, InRoom, clock
<1>2. room \in RoomInfo /\ room.consume[who] \in Nat /\ room.consume[who] \in Balance
  BY <1>1, RoomFacts, InputAssumption DEF RoomInfo, Balance
<1>3. /\ votes \in DisbandVote
      /\ votes.approve_man = {who} /\ votes.reject_man = {}
      /\ votes.approve_total_amount = room.consume[who]
      /\ votes.reject_total_amount = 0
  <2>1. /\ votes.approve_man = {who} /\ votes.reject_man = {}
        /\ votes.approve_total_amount = room.consume[who]
        /\ votes.reject_total_amount = 0
    BY <1>2 DEF Approve, NoVotes
  <2> QED BY <1>2, <2>1, NoVotesTyped, ApproveTyped
<1>4. now + VoteExpire \in Nat
  BY DurationAssumption DEF IndInv, TypeOK, ClockTyped
<1> HIDE DEF votes
<1>5. asked \in RoomInfo /\ asked.disband_vote = votes /\ asked.consume = room.consume
  BY <1>2, <1>3, <1>4 DEF RoomInfo
<1> HIDE DEF asked
<1>6. OneSided(asked) /\ Weighed(asked)
  <2>1. /\ SumFunctionOnSet(room.consume, {who}) = room.consume[who]
        /\ SumFunctionOnSet(room.consume, {}) = 0
    BY <1>2, SumSingleton, SumEmpty
  <2> QED BY <1>2, <1>3, <1>5, <2>1 DEF OneSided, Weighed
<1> QED BY <1>1, <1>5, <1>6, JudgeVotes

\* What a voter spends is added to his side while the vote is open; who has not
\* voted is on no side.
LEMMA BuyWeighed ==
  ASSUME IndInv, IndInv', VotesWeighed, NEW call, NEW item \in {"props", "audio"},
         NEW who \in Users, NEW g, NEW quantity \in Quantities,
         Buy(call, item, who, g, quantity)
  PROVE  VotesWeighed'
<1> DEFINE room == AllRoom[g]
           old == room.disband_vote
           amount == quantity * settings.price[item]
           paid == [room EXCEPT !.total_balances = @ + amount,
                                !.consume[who] = @ + amount]
           votes == AddWeight(old, who, amount)
           counts == IsVoting(g, room) /\ HasVoted(room, who)
<1>1. /\ g \in DOMAIN AllRoom
      /\ paid.total_balances \in Balance /\ paid.consume[who] \in Balance
      /\ \/ /\ counts
            /\ votes.approve_total_amount \in Balance
            /\ votes.reject_total_amount \in Balance
            /\ \E balances : JudgeAndInsert(g, [paid EXCEPT !.disband_vote = votes], balances)
         \/ /\ ~counts
            /\ AllRoom' = [AllRoom EXCEPT ![g] = paid]
            /\ UNCHANGED PendingDisbandRooms
      /\ UNCHANGED now
  BY DEF Buy, InRoom, clock, disbanding
<1>2. room \in RoomInfo
  BY <1>1, RoomFacts
<1>3. amount \in Nat
  <2>1. settings.price[item] \in Nat /\ quantity \in Nat
    BY InputAssumption DEF IndInv, TypeOK, ClockTyped, Settings, Balance
  <2> QED BY <2>1, MulNat
<1> HIDE DEF amount
<1>4. /\ paid \in RoomInfo /\ paid.disband_vote = old
      /\ paid.disband_vote_end_block = room.disband_vote_end_block
      /\ paid.consume[who] = room.consume[who] + amount
      /\ \A u \in Users \ {who} : paid.consume[u] = room.consume[u]
  <2>1. paid = [room EXCEPT !.total_balances = room.total_balances + amount,
                  !.consume = [room.consume EXCEPT ![who] = room.consume[who] + amount]]
    BY <1>2 DEF RoomInfo
  <2>2. /\ room.total_balances + amount \in Balance
        /\ [room.consume EXCEPT ![who] = room.consume[who] + amount] \in [Users -> Balance]
        /\ room.consume \in [Users -> Balance]
    BY <1>1, <1>2, <2>1 DEF RoomInfo
  <2> HIDE DEF paid
  <2> QED BY <1>2, <2>1, <2>2 DEF RoomInfo
<1> HIDE DEF paid
<1>5. CASE counts
  <2> DEFINE voted == [paid EXCEPT !.disband_vote = votes]
             spent(T) == SumFunctionOnSet(room.consume, T)
             sum(T) == SumFunctionOnSet(paid.consume, T)
  <2>1. /\ \E balances : JudgeAndInsert(g, voted, balances)
        /\ votes \in DisbandVote
    BY <1>1, <1>2, <1>5, WeightTyped DEF RoomInfo
  <2>2. OneSided(room) /\ Weighed(room)
    BY <1>1, <1>5, WeighedRooms DEF VotesSound
  <2>3. /\ old.approve_man \in SUBSET Users /\ old.reject_man \in SUBSET Users
        /\ old.approve_total_amount \in Nat /\ old.reject_total_amount \in Nat
    BY <1>2, InputAssumption DEF RoomInfo, DisbandVote, Balance
  <2>4. /\ votes.approve_man = old.approve_man /\ votes.reject_man = old.reject_man
        /\ who \in old.approve_man =>
             votes.approve_total_amount = old.approve_total_amount + amount
        /\ who \notin old.approve_man =>
             votes.approve_total_amount = old.approve_total_amount
        /\ who \in old.reject_man =>
             votes.reject_total_amount = old.reject_total_amount + amount
        /\ who \notin old.reject_man =>
             votes.reject_total_amount = old.reject_total_amount
    BY <1>2 DEF AddWeight, RoomInfo, DisbandVote
  <2>5. \A T \in SUBSET Users : /\ who \in T => sum(T) = spent(T) + amount
                                /\ who \notin T => sum(T) = spent(T)
    <3> SUFFICES ASSUME NEW T \in SUBSET Users
                 PROVE  /\ who \in T => sum(T) = spent(T) + amount
                        /\ who \notin T => sum(T) = spent(T)
      OBVIOUS
    <3>1. /\ IsFiniteSet(T) /\ IntegerOn(room.consume, T) /\ spent(T) \in Nat
          /\ room.consume[who] \in Nat
      <4>1. room.consume[who] \in Balance
        BY <1>2 DEF RoomInfo
      <4>2. /\ IsFiniteSet(T) /\ IntegerOn(room.consume, T)
            /\ SumFunctionOnSet(room.consume, T) \in Nat
        <5> HIDE DEF room
        <5> QED BY <1>2, VotesNatural
      <4> QED BY <4>1, <4>2, InputAssumption DEF Balance
    <3>2. CASE who \in T
      <4>1. paid.consume[who] \in Int /\ \A u \in T \ {who} : paid.consume[u] = room.consume[u]
        BY <1>3, <1>4, <3>1
      <4>2. sum(T) = spent(T) - room.consume[who] + paid.consume[who]
        BY <3>1, <3>2, <4>1, SumUpdate
      <4> HIDE DEF sum, spent
      <4> QED BY <1>3, <1>4, <3>1, <3>2, <4>2
    <3>3. CASE who \notin T
      <4>1. \A u \in T : room.consume[u] = paid.consume[u]
        BY <1>4, <3>3
      <4> QED BY <3>1, <3>3, <4>1, SumAgree
    <3> QED BY <3>2, <3>3
  <2>6. /\ old.approve_total_amount >= spent(old.approve_man)
        /\ old.reject_total_amount >= spent(old.reject_man)
        /\ old.approve_man \cap old.reject_man = {}
        /\ spent(old.approve_man) \in Nat /\ spent(old.reject_man) \in Nat
    BY <1>2, <2>2, <2>3, VotesNatural DEF Weighed, OneSided
  <2> HIDE DEF votes, sum, spent, old
  <2>7. /\ votes.approve_total_amount >= sum(votes.approve_man)
        /\ votes.reject_total_amount >= sum(votes.reject_man)
        /\ votes.approve_man \cap votes.reject_man = {}
    <3>1. /\ who \in old.approve_man => sum(old.approve_man) = spent(old.approve_man) + amount
          /\ who \notin old.approve_man => sum(old.approve_man) = spent(old.approve_man)
          /\ who \in old.reject_man => sum(old.reject_man) = spent(old.reject_man) + amount
          /\ who \notin old.reject_man => sum(old.reject_man) = spent(old.reject_man)
      BY <2>3, <2>5
    <3> QED BY <1>3, <2>3, <2>4, <2>6, <3>1
  <2>8. voted \in RoomInfo /\ voted.disband_vote = votes /\ voted.consume = paid.consume
    BY <1>4, <2>1 DEF RoomInfo
  <2> HIDE DEF voted
  <2>9. OneSided(voted) /\ Weighed(voted)
    BY <2>7, <2>8 DEF OneSided, Weighed, sum
  <2> QED BY <1>1, <2>1, <2>8, <2>9, JudgeVotes
<1>6. CASE ~counts
  <2>1. IsVoting(g, room) => \A u \in Voters(room) : paid.consume[u] <= room.consume[u]
    <3> SUFFICES ASSUME IsVoting(g, room), NEW u \in Voters(room)
                 PROVE  paid.consume[u] <= room.consume[u]
      OBVIOUS
    <3>1. u \in Users \ {who} /\ room.consume[u] \in Int
      BY <1>2, <1>6, VotesNatural, InputAssumption
         DEF HasVoted, Voters, RoomInfo, Balance
    <3> QED BY <1>4, <3>1
  <2> QED BY <1>1, <1>4, <1>6, <2>1, StoredVotes
<1> QED BY <1>5, <1>6

-----------------------------------------------------------------------------
(* The steps that count no votes.                                          *)

\* A step that stores a room whose members have spent what they had.
LEMMA KeptVotes ==
  ASSUME IndInv, IndInv', VotesWeighed, NEW g \in DOMAIN AllRoom, NEW room,
         AllRoom' = [AllRoom EXCEPT ![g] = room],
         UNCHANGED <<now, PendingDisbandRooms>>,
         room.disband_vote = AllRoom[g].disband_vote,
         room.disband_vote_end_block = AllRoom[g].disband_vote_end_block,
         room.consume = AllRoom[g].consume
  PROVE  VotesWeighed'
<1>1. AllRoom[g] \in RoomInfo
  BY RoomFacts
<1>2. \A u \in Users : AllRoom[g].consume[u] \in Int
  BY <1>1, InputAssumption DEF RoomInfo, Balance
<1>3. \A u \in Voters(AllRoom[g]) : room.consume[u] <= AllRoom[g].consume[u]
  <2>1. Voters(AllRoom[g]) \subseteq Users
    BY <1>1, VotesNatural
  <2> QED BY <1>2, <2>1
<1> QED BY <1>3, StoredVotes

\* A new room has no votes.
LEMMA CreateRoomWeighed ==
  ASSUME IndInv, IndInv', VotesWeighed, NEW who, NEW max, NEW cost, NEW private,
         CreateRoom(who, max, cost, private)
  PROVE  VotesWeighed'
<1>1. PICK id, room : /\ id = NextGroupId /\ AllRoom' = Put(AllRoom, id, room)
                      /\ room.disband_vote = NoVotes
                      /\ UNCHANGED <<now, PendingDisbandRooms>>
  BY DEF CreateRoom, clock, disbanding
<1>2. id \notin DOMAIN AllRoom
  BY <1>1 DEF IndInv, RoomIdsFresh, TypeOK, CountersTyped
<1>3. /\ DOMAIN AllRoom' = DOMAIN AllRoom \cup {id}
      /\ AllRoom'[id] = room
      /\ \A h \in DOMAIN AllRoom : AllRoom'[h] = AllRoom[h]
  BY <1>1, <1>2 DEF Put
<1>4. VotesSound(id, AllRoom[id])'
  <2>1. OneSided(room) /\ Weighed(room)
    BY <1>1, NoVotesSound
  <2> QED BY <1>3, <2>1 DEF VotesSound, OneSided, Weighed
<1>5. ASSUME NEW h \in DOMAIN AllRoom
      PROVE  VotesSound(h, AllRoom[h])'
  <2>1. VotesSound(h, AllRoom[h])
    BY WeighedRooms
  <2>2. AllRoom'[h] = AllRoom[h]
    BY <1>3
  <2> QED BY <1>1, <2>1, <2>2 DEF VotesSound, OneSided, Weighed, IsVoting, Pending
<1> QED BY <1>3, <1>4, <1>5 DEF VotesWeighed, VotesSound, OneSided, Weighed

\* Whoever joins has not voted yet.
LEMMA IntoRoomWeighed ==
  ASSUME IndInv, IndInv', VotesWeighed, NEW inviter, NEW invitee, NEW g,
         IntoRoom(inviter, invitee, g)
  PROVE  VotesWeighed'
<1> DEFINE joined == Joined(AllRoom[g])
<1>1. /\ g \in DOMAIN AllRoom /\ AllRoom' = [AllRoom EXCEPT ![g] = joined]
      /\ UNCHANGED <<now, PendingDisbandRooms>>
  BY DEF IntoRoom, clock, disbanding
<1>2. /\ joined.disband_vote = AllRoom[g].disband_vote
      /\ joined.disband_vote_end_block = AllRoom[g].disband_vote_end_block
      /\ joined.consume = AllRoom[g].consume
  BY <1>1, RoomFacts DEF Joined, RoomInfo
<1> HIDE DEF joined
<1> QED BY <1>1, <1>2, KeptVotes

\* What is removed with a member is what he has spent, never a vote.
LEMMA RemovedSpent ==
  ASSUME NEW room \in RoomInfo, NEW who \in Users
  PROVE  LET left == RemoveSomeoneInRoom(room, who)
         IN /\ left.disband_vote = room.disband_vote
            /\ left.disband_vote_end_block = room.disband_vote_end_block
            /\ \A u \in Voters(room) : left.consume[u] <= room.consume[u]
<1> DEFINE left == RemoveSomeoneInRoom(room, who)
<1>1. /\ left.disband_vote = room.disband_vote
      /\ left.disband_vote_end_block = room.disband_vote_end_block
      /\ left.consume = [room.consume EXCEPT ![who] = 0]
  BY DEF RemoveSomeoneInRoom, RoomInfo
<1>2. /\ \A u \in Users : room.consume[u] \in Nat
      /\ DOMAIN room.consume = Users
  BY InputAssumption DEF RoomInfo, Balance
<1> HIDE DEF left
<1>3. \A u \in Users : left.consume[u] <= room.consume[u]
  BY <1>1, <1>2
<1>4. Voters(room) \subseteq Users
  BY VotesNatural
<1> QED BY <1>1, <1>3, <1>4 DEF left

\* Votes of members who quit or were removed stay: their side covers more than
\* its voters have spent.
LEMMA LeftVotes ==
  ASSUME IndInv, IndInv', VotesWeighed, NEW g \in DOMAIN AllRoom, NEW who \in Users,
         NEW kept, DOMAIN kept = DOMAIN AllRoom[g],
         kept.disband_vote = AllRoom[g].disband_vote,
         kept.disband_vote_end_block = AllRoom[g].disband_vote_end_block,
         kept.consume = AllRoom[g].consume,
         AllRoom' = [AllRoom EXCEPT ![g] = RemoveSomeoneInRoom(kept, who)],
         UNCHANGED <<now, PendingDisbandRooms>>
  PROVE  VotesWeighed'
<1> DEFINE room == AllRoom[g]
           left == RemoveSomeoneInRoom(kept, who)
<1>1. room \in RoomInfo
  BY RoomFacts
<1>2. /\ left.disband_vote = room.disband_vote
      /\ left.disband_vote_end_block = room.disband_vote_end_block
      /\ left.consume = RemoveSomeoneInRoom(room, who).consume
  BY <1>1 DEF RemoveSomeoneInRoom, RoomInfo
<1>3. AllRoom' = [AllRoom EXCEPT ![g] = left]
  OBVIOUS
<1> HIDE DEF left
<1>4. \A u \in Voters(room) : left.consume[u] <= room.consume[u]
  BY <1>1, <1>2, RemovedSpent
<1> QED BY <1>2, <1>3, <1>4, StoredVotes

LEMMA ExitWeighed ==
  ASSUME IndInv, IndInv', VotesWeighed, NEW who \in Users, NEW g,
         ExitAmongOthers(who, g)
  PROVE  VotesWeighed'
<1> DEFINE room == AllRoom[g]
           kept == [room EXCEPT !.total_balances = @ - QuitShare(room)]
<1>1. /\ g \in DOMAIN AllRoom
      /\ AllRoom' = [AllRoom EXCEPT ![g] = RemoveSomeoneInRoom(kept, who)]
      /\ UNCHANGED <<now, PendingDisbandRooms>>
  BY DEF ExitAmongOthers, InRoom, UpdateRoom, clock, disbanding
<1>2. room \in RoomInfo
  BY <1>1, RoomFacts
<1>3. /\ DOMAIN kept = DOMAIN room /\ kept.disband_vote = room.disband_vote
      /\ kept.disband_vote_end_block = room.disband_vote_end_block
      /\ kept.consume = room.consume
  BY <1>2 DEF RoomInfo
<1> HIDE DEF kept
<1> QED BY <1>1, <1>3, LeftVotes

LEMMA RemoveSomeoneWeighed ==
  ASSUME IndInv, IndInv', VotesWeighed, NEW g, NEW who \in Users,
         NEW by_root \in BOOLEAN, RemoveSomeone(g, who, by_root)
  PROVE  VotesWeighed'
<1> DEFINE room == AllRoom[g]
           kept == [room EXCEPT
             !.black_list = @ \cup {who},
             !.last_remove_someone_block = IF by_root THEN now ELSE @]
<1>1. /\ g \in DOMAIN AllRoom
      /\ AllRoom' = [AllRoom EXCEPT ![g] = RemoveSomeoneInRoom(kept, who)]
      /\ UNCHANGED <<now, PendingDisbandRooms>>
  BY DEF RemoveSomeone, RoomOrigin, UpdateRoom, clock, disbanding
<1>2. room \in RoomInfo
  BY <1>1, RoomFacts
<1>3. /\ DOMAIN kept = DOMAIN room /\ kept.disband_vote = room.disband_vote
      /\ kept.disband_vote_end_block = room.disband_vote_end_block
      /\ kept.consume = room.consume
  BY <1>2 DEF RoomInfo
<1> HIDE DEF kept
<1> QED BY <1>1, <1>3, LeftVotes

\* A room that goes takes its votes with it.
LEMMA DeletedWeighed ==
  ASSUME IndInv, IndInv', VotesWeighed, NEW g,
         DisbandRoom(g) \/ \E who \in Users : ExitAsLast(who, g)
  PROVE  VotesWeighed'
<1>1. AllRoom' = Remove(AllRoom, {g}) /\ UNCHANGED now
  BY DEF DisbandRoom, ExitAsLast, clock
<1>2. \A h : h # g => (Pending(h) => Pending(h)')
  BY DEF DisbandRoom, ExitAsLast, DoDisband, Pending, Remove, Restrict, disbanding
<1> QED BY <1>1, <1>2, RemovedVotes

\* The manager, the council and the room treasury change no vote.
LEMMA SettersWeighed ==
  ASSUME IndInv, IndInv', VotesWeighed, NEW g, SetterCalled(g)
  PROVE  VotesWeighed'
<1>1. PICK room :
        /\ g \in DOMAIN AllRoom
        /\ UpdateRoom(g, room)
        /\ \/ \E council \in SUBSET Users : room = [AllRoom[g] EXCEPT !.council = council]
           \/ \E black_list \in SUBSET Users :
                room = [AllRoom[g] EXCEPT !.black_list = black_list]
           \/ \E cost \in JoinCosts : room = [AllRoom[g] EXCEPT !.join_cost = cost]
           \/ \E private \in BOOLEAN : room = [AllRoom[g] EXCEPT !.is_private = private]
  BY SetterRecord
<1>2. /\ room.disband_vote = AllRoom[g].disband_vote
      /\ room.disband_vote_end_block = AllRoom[g].disband_vote_end_block
      /\ room.consume = AllRoom[g].consume
  BY <1>1, RoomFacts DEF RoomInfo
<1>3. /\ AllRoom' = [AllRoom EXCEPT ![g] = room]
      /\ UNCHANGED <<now, PendingDisbandRooms>>
  BY <1>1 DEF UpdateRoom, clock, disbanding
<1> QED BY <1>1, <1>2, <1>3, KeptVotes

\* set_max_number_for_room_members changes no vote.
LEMMA SetMaxWeighed ==
  ASSUME IndInv, IndInv', VotesWeighed, NEW g, NEW new_max,
         SetMaxNumberForRoomMembers(g, new_max)
  PROVE  VotesWeighed'
<1> DEFINE room == AllRoom[g]
           payment == settings.create_cost[MembersConvertType(new_max)]
           stored == [room EXCEPT !.max_members = new_max, !.create_payment = payment]
<1>1. /\ g \in DOMAIN AllRoom /\ AllRoom' = [AllRoom EXCEPT ![g] = stored]
      /\ UNCHANGED <<now, PendingDisbandRooms>>
  BY DEF SetMaxNumberForRoomMembers, RoomOrigin, UpdateRoom, clock, disbanding
<1>2. /\ stored.disband_vote = room.disband_vote
      /\ stored.disband_vote_end_block = room.disband_vote_end_block
      /\ stored.consume = room.consume
  BY <1>1, RoomFacts DEF RoomInfo
<1> HIDE DEF stored
<1> QED BY <1>1, <1>2, KeptVotes

\* manager_get_reward changes no vote.
LEMMA RewardWeighed ==
  ASSUME IndInv, IndInv', VotesWeighed, NEW g, ManagerGetReward(g)
  PROVE  VotesWeighed'
<1> DEFINE room == AllRoom[g]
           stored == [room EXCEPT
             !.total_balances = RewardedBalances(room, TotalReward(room)),
             !.last_block_of_get_the_reward = @ + RewardPeriods(room) * RewardDuration]
<1>1. /\ g \in DOMAIN AllRoom /\ AllRoom' = [AllRoom EXCEPT ![g] = stored]
      /\ UNCHANGED <<now, PendingDisbandRooms>>
  BY DEF ManagerGetReward, RoomOrigin, UpdateRoom, clock, disbanding
<1>2. /\ stored.disband_vote = room.disband_vote
      /\ stored.disband_vote_end_block = room.disband_vote_end_block
      /\ stored.consume = room.consume
  BY <1>1, RoomFacts DEF RoomInfo
<1> HIDE DEF stored
<1> QED BY <1>1, <1>2, KeptVotes

\* What the room treasury spends changes no vote.
LEMMA SubFreeWeighed ==
  ASSUME IndInv, IndInv', VotesWeighed, NEW g, NEW amount,
         SubRoomFreeAmount(g, amount)
  PROVE  VotesWeighed'
<1> DEFINE room == AllRoom[g]
           stored == [room EXCEPT !.total_balances = @ - amount]
<1>1. /\ g \in DOMAIN AllRoom /\ AllRoom' = [AllRoom EXCEPT ![g] = stored]
      /\ UNCHANGED <<now, PendingDisbandRooms>>
  BY DEF SubRoomFreeAmount, UpdateRoom, clock, disbanding
<1>2. /\ stored.disband_vote = room.disband_vote
      /\ stored.disband_vote_end_block = room.disband_vote_end_block
      /\ stored.consume = room.consume
  BY <1>1, RoomFacts DEF RoomInfo
<1> HIDE DEF stored
<1> QED BY <1>1, <1>2, KeptVotes

LEMMA GetStoresNoRoom ==
  ASSUME NEW g, NEW id, NEW who, NEW amount, GetRedpacketInRoom(g, id, who, amount)
  PROVE  UNCHANGED <<now, AllRoom, PendingDisbandRooms>>
<1>1. UNCHANGED <<clock, counters, treasury, AllRoom, members, disbanding>>
  BY DEF GetRedpacketInRoom
<1> QED BY <1>1 DEF clock, disbanding

LEMMA PayOutStoresNoRoom ==
  ASSUME NEW who, PayOut(who)
  PROVE  UNCHANGED <<now, AllRoom, PendingDisbandRooms>>
<1>1. UNCHANGED <<clock, counters, treasury, AllRoom, PendingDisbandRooms,
                  RedPacketOfRoom>>
  BY DEF PayOut
<1> QED BY <1>1 DEF clock

\* Blocks, root, red packets and payouts store no room.
LEMMA OthersWeighed ==
  ASSUME IndInv, IndInv', VotesWeighed,
         \/ NewBlock \/ RootNext \/ UNCHANGED vars
         \/ \E who, g, lucky, amount : SendRedpacketInRoom(who, g, lucky, amount)
         \/ \E g, id, who, amount : GetRedpacketInRoom(g, id, who, amount)
         \/ \E g : GiveBackExpiredRedpacket(g)
         \/ \E who : PayOut(who)
  PROVE  VotesWeighed'
<1>1. /\ UNCHANGED <<AllRoom, PendingDisbandRooms>>
      /\ now' = now \/ now' = now + 1
  <2>1. CASE NewBlock \/ RootNext \/ UNCHANGED vars
    BY <2>1 DEF NewBlock, RootNext, SetCreateCost, SetRemoveInterval, SetDisbandInterval,
                SetPropsPrice, SetAudioPrice, SetRedpackMinAmount, ChangeSettings,
                disbanding, vars
  <2>2. CASE \E who, g, lucky, amount : SendRedpacketInRoom(who, g, lucky, amount)
    BY <2>2 DEF SendRedpacketInRoom, clock, disbanding
  <2>3. CASE \E g, id, who, amount : GetRedpacketInRoom(g, id, who, amount)
    BY <2>3, GetStoresNoRoom
  <2>4. CASE \E g : GiveBackExpiredRedpacket(g)
    BY <2>4 DEF GiveBackExpiredRedpacket, clock, disbanding
  <2>5. CASE \E who : PayOut(who)
    BY <2>5, PayOutStoresNoRoom
  <2> QED BY <2>1, <2>2, <2>3, <2>4, <2>5
<1>2. now <= now'
  BY <1>1 DEF IndInv, TypeOK, ClockTyped
<1> QED BY <1>1, <1>2, RoomsSameVotes

\* Every step keeps the votes sound.
LEMMA NextWeighed ==
  ASSUME IndInv, IndInv', VotesWeighed, [Next]_vars
  PROVE  VotesWeighed'
<1>1. CASE NewBlock \/ RootNext \/ UNCHANGED vars
  BY <1>1, OthersWeighed
<1>2. CASE \E who \in Users, max \in MemberLimits, cost \in JoinCosts,
             private \in BOOLEAN : CreateRoom(who, max, cost, private)
  BY <1>2, CreateRoomWeighed
<1>3. CASE \E g \in RoomIds : ManagerNext(g)
  <2> SUFFICES ASSUME NEW g \in RoomIds, ManagerNext(g)
               PROVE  VotesWeighed'
    BY <1>3
  <2>1. CASE \E who \in Users, by_root \in BOOLEAN : RemoveSomeone(g, who, by_root)
    BY <2>1, RemoveSomeoneWeighed
  <2>2. CASE \E new_max \in MemberLimits : SetMaxNumberForRoomMembers(g, new_max)
    BY <2>2, SetMaxWeighed
  <2>3. CASE ManagerGetReward(g)
    BY <2>3, RewardWeighed
  <2>4. CASE \E amount \in PacketAmounts : SubRoomFreeAmount(g, amount)
    BY <2>4, SubFreeWeighed
  <2>5. CASE SetterCalled(g)
    BY <2>5, SettersWeighed
  <2> QED BY <2>1, <2>2, <2>3, <2>4, <2>5 DEF ManagerNext, SetterCalled
<1>4. CASE \E who \in Users, g \in RoomIds : MemberNext(who, g)
  <2> SUFFICES ASSUME NEW who \in Users, NEW g \in RoomIds, MemberNext(who, g)
               PROVE  VotesWeighed'
    BY <1>4
  <2>1. CASE \E invitee \in Users \cup {None} : IntoRoom(who, invitee, g)
    BY <2>1, IntoRoomWeighed
  <2>2. CASE ExitAmongOthers(who, g)
    BY <2>2, ExitWeighed
  <2>3. CASE ExitAsLast(who, g)
    BY <2>3, DeletedWeighed
  <2>4. CASE \E quantity \in Quantities :
               BuyPropsInRoom(who, g, quantity) \/ BuyAudioInRoom(who, g, quantity)
    BY <2>4, BuyWeighed DEF BuyPropsInRoom, BuyAudioInRoom
  <2>5. CASE AskForDisbandRoom(who, g)
    BY <2>5, AskWeighed
  <2>6. CASE \E approves \in BOOLEAN : Vote(who, g, approves)
    BY <2>6, VoteWeighed
  <2>7. CASE \E lucky \in LuckyNumbers, amount \in PacketAmounts :
               SendRedpacketInRoom(who, g, lucky, amount)
    BY <2>7, OthersWeighed
  <2> QED BY <2>1, <2>2, <2>3, <2>4, <2>5, <2>6, <2>7 DEF MemberNext
<1>5. CASE \E g \in RoomIds : DisbandRoom(g) \/ GiveBackExpiredRedpacket(g)
  BY <1>5, DeletedWeighed, OthersWeighed
<1>6. CASE \E who \in Users : PayOut(who)
  BY <1>6, OthersWeighed
<1>7. CASE \E k \in DOMAIN RedPacketOfRoom, who \in Users, amount \in PacketAmounts :
             GetRedpacketInRoom(k[1], k[2], who, amount)
  BY <1>7, OthersWeighed
<1> QED BY <1>1, <1>2, <1>3, <1>4, <1>5, <1>6, <1>7 DEF Next

\* No one is on both sides of a vote, and while it is open each side's amount
\* covers what its voters who are still members have spent.
THEOREM VotesAlwaysWeighed == Spec => []VotesWeighed
<1>1. Init => VotesWeighed
  BY DEF Init, VotesWeighed, EmptyMap
<1>2. IndInv /\ IndInv' /\ VotesWeighed /\ [Next]_vars => VotesWeighed'
  BY NextWeighed
<1> QED BY <1>1, <1>2, InductiveInvariant, PTL DEF Spec

-----------------------------------------------------------------------------
(* Claims on rewards. PoolSolvent rests on PoolsSound: what a reward gave  *)
(* is what it counts, and it counts no member twice who has one entry for  *)
(* its room. Entries are never removed, so who has one has had no other.   *)

\* Nobody has two entries for room g.
Once(g) == \A u \in Users : \A i, j \in EntriesOf(u, g) : i = j

\* Those who were paid for room g.
PaidMembers(g) ==
  {u \in Users : \E i \in EntriesOf(u, g) : PurchaseSummary[u][i].status = "Get"}

\* A reward gave what it counts, its shares fit into it, and while nobody has two
\* entries for its room it counts no one twice.
PoolSound(k, info) ==
  /\ info.already_get_reward = info.already_get_count * info.per_man_reward
  /\ info.total_person * info.per_man_reward <= info.total_reward
  /\ Once(k[2]) => info.already_get_count <= Cardinality(PaidMembers(k[2]))

\* The inductive invariant of PoolSolvent.
PoolsSound ==
  \A k \in DOMAIN InfoOfDisbandedRoom : PoolSound(k, InfoOfDisbandedRoom[k])

\* The shares of a reward add up to no more than it.
LEMMA SharesFit ==
  ASSUME NEW x \in Nat, NEW n \in Nat \ {0}
  PROVE  n * (x \div n) <= x
OBVIOUS

\* A factor that is larger makes the product larger.
LEMMA ProductMonotone ==
  ASSUME NEW x \in Nat, NEW y \in Nat, NEW z \in Nat, x <= y
  PROVE  x * z <= y * z
OBVIOUS

\* A set of at most one element has no two.
LEMMA OnlyElement ==
  ASSUME NEW S, IsFiniteSet(S), Cardinality(S) <= 1, NEW x \in S, NEW y \in S
  PROVE  x = y
<1> SUFFICES ASSUME x # y
             PROVE  FALSE
  OBVIOUS
<1>1. IsFiniteSet(S \ {x}) /\ Cardinality(S \ {x}) = Cardinality(S) - 1
  BY FS_RemoveElement
<1>2. Cardinality(S) \in Nat /\ Cardinality(S \ {x}) \in Nat
  BY <1>1, FS_CardinalityType
<1>3. Cardinality(S \ {x}) = 0
  BY <1>1, <1>2
<1> QED BY <1>1, <1>3, FS_EmptySet

\* What the entries of a member are.
LEMMA EntriesTyped ==
  ASSUME IndInv, NEW u \in Users
  PROVE  /\ PurchaseSummary[u] \in Seq(Membership)
         /\ Len(PurchaseSummary[u]) \in Nat
         /\ DOMAIN PurchaseSummary[u] = 1 .. Len(PurchaseSummary[u])
         /\ IsFiniteSet(DOMAIN PurchaseSummary[u])
         /\ \A i \in DOMAIN PurchaseSummary[u] : PurchaseSummary[u][i] \in Membership
<1>1. PurchaseSummary[u] \in Seq(Membership)
  BY DEF IndInv, TypeOK, MembersTyped
<1>2. /\ Len(PurchaseSummary[u]) \in Nat
      /\ DOMAIN PurchaseSummary[u] = 1 .. Len(PurchaseSummary[u])
      /\ \A i \in DOMAIN PurchaseSummary[u] : PurchaseSummary[u][i] \in Membership
  BY <1>1
<1> QED BY <1>1, <1>2, FS_Interval

\* PoolsSound is what PoolSolvent needs.
LEMMA SoundPoolSolvent == IndInv /\ PoolsSound => PoolSolvent
<1> SUFFICES ASSUME IndInv, PoolsSound, NEW k \in DOMAIN InfoOfDisbandedRoom,
                    EveryoneStayed(k)
             PROVE  SolventReward(InfoOfDisbandedRoom[k])
  BY DEF PoolSolvent
<1> DEFINE info == InfoOfDisbandedRoom[k]
           joined == {u \in Users : EntriesOf(u, k[2]) # {}}
<1>1. Once(k[2])
  <2> SUFFICES ASSUME NEW u \in Users, NEW i \in EntriesOf(u, k[2]),
                      NEW j \in EntriesOf(u, k[2])
               PROVE  i = j
    BY DEF Once
  <2>1. IsFiniteSet(EntriesOf(u, k[2]))
    BY EntriesTyped, FS_Subset DEF EntriesOf
  <2>2. Cardinality(EntriesOf(u, k[2])) <= 1
    BY DEF EveryoneStayed
  <2> QED BY <2>1, <2>2, OnlyElement
<1>2. /\ info.already_get_reward = info.already_get_count * info.per_man_reward
      /\ info.total_person * info.per_man_reward <= info.total_reward
      /\ info.already_get_count <= Cardinality(PaidMembers(k[2]))
  BY <1>1 DEF PoolsSound, PoolSound
<1>3. Cardinality(joined) = info.total_person
  BY DEF EveryoneStayed
<1>4. /\ Cardinality(PaidMembers(k[2])) <= Cardinality(joined)
      /\ Cardinality(PaidMembers(k[2])) \in Nat /\ Cardinality(joined) \in Nat
  <2>1. PaidMembers(k[2]) \subseteq joined /\ IsFiniteSet(joined)
    BY InputAssumption, FS_Subset DEF PaidMembers
  <2> HIDE DEF joined
  <2> QED BY <2>1, FS_Subset, FS_CardinalityType
<1>5. info \in RoomRewardInfo
  BY DEF IndInv, TypeOK, DisbandingTyped
<1>6. /\ info.already_get_count \in Nat /\ info.total_person \in Nat
      /\ info.per_man_reward \in Nat /\ info.total_reward \in Nat
  BY <1>5, InputAssumption DEF RoomRewardInfo, Balance
<1> HIDE DEF info, joined
<1>7. info.already_get_count <= info.total_person
  BY <1>2, <1>3, <1>4, <1>6
<1>8. info.already_get_count * info.per_man_reward
        <= info.total_person * info.per_man_reward
  BY <1>6, <1>7, ProductMonotone
<1>9. /\ info.already_get_count * info.per_man_reward \in Nat
      /\ info.total_person * info.per_man_reward \in Nat
  BY <1>6, MulNat
<1>10. info.already_get_reward <= info.total_reward
  BY <1>2, <1>6, <1>8, <1>9
<1> QED BY <1>7, <1>10 DEF info, SolventReward

-----------------------------------------------------------------------------
(* Steps that pay no reward.                                               *)

\* Entries that are there stay as they are.
EntriesStay ==
  \A u \in Users :
    /\ DOMAIN PurchaseSummary[u] \subseteq DOMAIN PurchaseSummary'[u]
    /\ \A i \in DOMAIN PurchaseSummary[u] :
         PurchaseSummary'[u][i] = PurchaseSummary[u][i]

\* A reward as do_disband sets it aside.
FreshReward(info) ==
  /\ info.already_get_count = 0 /\ info.already_get_reward = 0
  /\ info.per_man_reward \in Nat
  /\ info.total_person * info.per_man_reward <= info.total_reward

LEMMA RewardFresh ==
  ASSUME NEW room \in RoomInfo, room.now_members_number # 0,
         room.group_manager_balances <= room.total_balances
  PROVE  FreshReward(RewardInfo(room))
<1> DEFINE reward == room.total_balances - room.group_manager_balances
           people == room.now_members_number
<1>1. reward \in Nat /\ people \in Nat \ {0}
  BY InputAssumption DEF RoomInfo, Balance
<1>2. RewardInfo(room) =
        [total_person |-> people, already_get_count |-> 0, total_reward |-> reward,
         already_get_reward |-> 0, per_man_reward |-> reward \div people]
  BY DEF RewardInfo
<1> HIDE DEF reward, people
<1>3. people * (reward \div people) <= reward /\ reward \div people \in Nat
  BY <1>1, SharesFit, DivBound
<1> QED BY <1>2, <1>3 DEF FreshReward

\* The number of those paid is a number, and does not shrink with their set.
LEMMA PaidCounted ==
  ASSUME NEW g
  PROVE  /\ PaidMembers(g) \subseteq Users /\ IsFiniteSet(PaidMembers(g))
         /\ Cardinality(PaidMembers(g)) \in Nat
BY InputAssumption, FS_Subset, FS_CardinalityType DEF PaidMembers

LEMMA PaidCountedAfter ==
  ASSUME NEW g
  PROVE  /\ PaidMembers(g)' \subseteq Users /\ IsFiniteSet(PaidMembers(g)')
         /\ Cardinality(PaidMembers(g)') \in Nat
BY InputAssumption, FS_Subset, FS_CardinalityType DEF PaidMembers

\* Those who were paid stay paid while entries stay, and who has no two entries
\* afterwards had none before.
LEMMA EntriesGrow ==
  ASSUME EntriesStay, NEW g
  PROVE  /\ Once(g)' => Once(g)
         /\ Cardinality(PaidMembers(g)) <= Cardinality(PaidMembers(g)')
<1>1. \A u \in Users : EntriesOf(u, g) \subseteq EntriesOf(u, g)'
  BY DEF EntriesStay, EntriesOf
<1>2. Once(g)' => Once(g)
  BY <1>1 DEF Once
<1>3. PaidMembers(g) \subseteq PaidMembers(g)'
  BY <1>1 DEF PaidMembers, EntriesStay, EntriesOf
<1>4. Cardinality(PaidMembers(g)) <= Cardinality(PaidMembers(g)')
  BY <1>3, PaidCountedAfter, FS_Subset
<1> QED BY <1>2, <1>4

\* A step that pays nothing.
LEMMA PoolsKept ==
  ASSUME IndInv, PoolsSound, EntriesStay,
         \A k \in DOMAIN InfoOfDisbandedRoom' :
           \/ k \in DOMAIN InfoOfDisbandedRoom
              /\ InfoOfDisbandedRoom'[k] = InfoOfDisbandedRoom[k]
           \/ FreshReward(InfoOfDisbandedRoom'[k])
  PROVE  PoolsSound'
<1> SUFFICES ASSUME NEW k \in DOMAIN InfoOfDisbandedRoom'
             PROVE  PoolSound(k, InfoOfDisbandedRoom[k])'
  BY DEF PoolsSound, PoolSound
<1> DEFINE g == k[2]
           info == InfoOfDisbandedRoom'[k]
<1>1. /\ Once(g)' => Once(g)
      /\ Cardinality(PaidMembers(g)) <= Cardinality(PaidMembers(g)')
      /\ Cardinality(PaidMembers(g)) \in Nat /\ Cardinality(PaidMembers(g)') \in Nat
  BY EntriesGrow, PaidCounted, PaidCountedAfter
<1>2. CASE k \in DOMAIN InfoOfDisbandedRoom /\ info = InfoOfDisbandedRoom[k]
  <2>1. PoolSound(k, info) /\ info.already_get_count \in Nat
    BY <1>2 DEF PoolsSound, IndInv, TypeOK, DisbandingTyped, RoomRewardInfo
  <2> HIDE DEF info
  <2>2. /\ info.already_get_reward = info.already_get_count * info.per_man_reward
        /\ info.total_person * info.per_man_reward <= info.total_reward
        /\ Once(g) => info.already_get_count <= Cardinality(PaidMembers(g))
    BY <2>1 DEF PoolSound
  <2>3. Once(g)' => info.already_get_count <= Cardinality(PaidMembers(g)')
    BY <1>1, <2>1, <2>2
  <2> QED BY <2>2, <2>3 DEF PoolSound, info
<1>3. CASE FreshReward(info)
  <2> HIDE DEF info
  <2>1. /\ info.already_get_reward = info.already_get_count * info.per_man_reward
        /\ info.total_person * info.per_man_reward <= info.total_reward
        /\ info.already_get_count = 0
    BY <1>3 DEF FreshReward
  <2> QED BY <1>1, <2>1 DEF PoolSound, info
<1> QED BY <1>2, <1>3

\* A step that changes neither rewards nor entries.
LEMMA PoolsSame ==
  ASSUME IndInv, PoolsSound, UNCHANGED <<PurchaseSummary, InfoOfDisbandedRoom>>
  PROVE  PoolsSound'
<1>1. EntriesStay
  BY DEF EntriesStay
<1> QED BY <1>1, PoolsKept

\* A membership that is added changes no other.
LEMMA AddedEntries ==
  ASSUME IndInv, NEW who \in Users, NEW g, AddUserExtra(who, g)
  PROVE  EntriesStay
<1> DEFINE entry == [room |-> g, status |-> "NotGet"]
<1>1. PurchaseSummary' =
        [PurchaseSummary EXCEPT ![who] = Append(PurchaseSummary[who], entry)]
  BY DEF AddUserExtra
<1>2. PurchaseSummary \in [Users -> Seq(Membership)]
  BY DEF IndInv, TypeOK, MembersTyped
<1> SUFFICES ASSUME NEW u \in Users
             PROVE  /\ DOMAIN PurchaseSummary[u] \subseteq DOMAIN PurchaseSummary'[u]
                    /\ \A i \in DOMAIN PurchaseSummary[u] :
                         PurchaseSummary'[u][i] = PurchaseSummary[u][i]
  BY DEF EntriesStay
<1> HIDE DEF entry
<1>3. CASE u = who
  <2> DEFINE entries == PurchaseSummary[who]
  <2>1. PurchaseSummary'[u] = Append(entries, entry) /\ entries \in Seq(Membership)
    BY <1>1, <1>2, <1>3
  <2>2. /\ DOMAIN entries = 1 .. Len(entries) /\ Len(entries) \in Nat
        /\ DOMAIN Append(entries, entry) = 1 .. Len(entries) + 1
        /\ \A i \in 1 .. Len(entries) : Append(entries, entry)[i] = entries[i]
    BY <2>1
  <2> HIDE DEF entries
  <2>3. 1 .. Len(entries) \subseteq 1 .. Len(entries) + 1
    BY <2>2
  <2> QED BY <1>3, <2>1, <2>2, <2>3 DEF entries
<1>4. CASE u # who
  BY <1>1, <1>2, <1>4
<1> QED BY <1>3, <1>4

\* Every room that is stored has members to share what is not its manager's.
Shareable ==
  \A g \in DOMAIN AllRoom :
    /\ AllRoom[g] \in RoomInfo /\ AllRoom[g].now_members_number # 0
    /\ AllRoom[g].group_manager_balances <= AllRoom[g].total_balances

LEMMA RoomsShareable == IndInv => Shareable
BY NobodyAlone, RoomFacts DEF Shareable

LEMMA RoomsShareableAfter == IndInv' => Shareable'
BY RoomsShareable, PTL

\* do_disband sets a reward aside.
LEMMA DisbandPools ==
  ASSUME IndInv, PoolsSound, NEW g, NEW room \in RoomInfo, NEW balances,
         DoDisband(g, room, balances), UNCHANGED PurchaseSummary,
         room.now_members_number # 0,
         room.group_manager_balances <= room.total_balances
  PROVE  PoolsSound'
<1>1. PICK key : InfoOfDisbandedRoom' = Put(InfoOfDisbandedRoom, key, RewardInfo(room))
  BY DEF DoDisband
<1>2. FreshReward(RewardInfo(room))
  BY RewardFresh
<1>3. EntriesStay
  BY DEF EntriesStay
<1>4. ASSUME NEW k \in DOMAIN InfoOfDisbandedRoom'
      PROVE  \/ k \in DOMAIN InfoOfDisbandedRoom
                /\ InfoOfDisbandedRoom'[k] = InfoOfDisbandedRoom[k]
             \/ FreshReward(InfoOfDisbandedRoom'[k])
  <2>1. CASE k = key
    BY <1>1, <1>2, <2>1 DEF Put
  <2>2. CASE k # key
    BY <1>1, <1>4, <2>2 DEF Put
  <2> QED BY <2>1, <2>2
<1> QED BY <1>3, <1>4, PoolsKept

\* Whatever the votes are counted to, rewards stay sound.
LEMMA JudgePools ==
  ASSUME IndInv, IndInv', PoolsSound, NEW g \in DOMAIN AllRoom, NEW room, NEW balances,
         JudgeAndInsert(g, room, balances), UNCHANGED PurchaseSummary
  PROVE  PoolsSound'
<1>1. CASE DoDisband(g, room, balances) /\ AllRoom' = [AllRoom EXCEPT ![g] = room]
  <2>1. g \in DOMAIN AllRoom' /\ AllRoom'[g] = room
    BY <1>1
  <2>2. /\ room \in RoomInfo /\ room.now_members_number # 0
        /\ room.group_manager_balances <= room.total_balances
    BY <2>1, RoomsShareableAfter DEF Shareable
  <2> QED BY <1>1, <2>2, DisbandPools
<1>2. CASE UNCHANGED InfoOfDisbandedRoom
  BY <1>2, PoolsSame
<1> QED BY <1>1, <1>2 DEF JudgeAndInsert

-----------------------------------------------------------------------------
(* Paying a reward out.                                                    *)

\* pay_out changes the status of entries, never the room they are for.
LEMMA MarkedRooms ==
  ASSUME NEW entries \in Seq(Membership), NEW due, NEW found
  PROVE  LET marked == MarkPaid(entries, due, found)
         IN /\ DOMAIN marked = DOMAIN entries
            /\ \A i \in DOMAIN entries : marked[i].room = entries[i].room
<1> SUFFICES ASSUME NEW i \in DOMAIN entries
             PROVE  MarkPaid(entries, due, found)[i].room = entries[i].room
  BY DEF MarkPaid
<1>1. entries[i] \in Membership
  OBVIOUS
<1> QED BY <1>1 DEF MarkPaid, Membership

\* Of a member's entries the only one for a room is marked as found when the room
\* is, and no entry is unmarked of a room that is not due.
LEMMA MarkedStatus ==
  ASSUME NEW entries \in Seq(Membership), NEW due, NEW found, NEW i \in DOMAIN entries
  PROVE  LET marked == MarkPaid(entries, due, found)
         IN /\ entries[i].room \notin due => marked[i] = entries[i]
            /\ /\ entries[i].room \in due \cap found
               /\ \A j \in DOMAIN entries : entries[j].room = entries[i].room => j = i
               => marked[i].status = "Get"
<1>1. entries[i] \in Membership /\ i \in Nat /\ DOMAIN entries = 1 .. Len(entries)
      /\ Len(entries) \in Nat
  OBVIOUS
<1>2. entries[i].room \notin due => MarkPaid(entries, due, found)[i] = entries[i]
  BY DEF MarkPaid
<1>3. ASSUME entries[i].room \in due \cap found,
             \A j \in DOMAIN entries : entries[j].room = entries[i].room => j = i
      PROVE  MarkPaid(entries, due, found)[i].status = "Get"
  <2>1. \A j \in 1 .. i - 1 : entries[j].room # entries[i].room
    BY <1>1, <1>3
  <2>2. MarkPaid(entries, due, found)[i] = [entries[i] EXCEPT !.status = "Get"]
    BY <1>3, <2>1 DEF MarkPaid
  <2> QED BY <1>1, <2>2 DEF Membership
<1> QED BY <1>2, <1>3

\* A member with no two entries for a room was not paid for it when one of them is
\* due, and is paid once then.
LEMMA PayOutPools ==
  ASSUME IndInv, IndInv', PoolsSound, NEW who \in Users, PayOut(who)
  PROVE  PoolsSound'
<1> DEFINE due == {g \in RoomIds \ DOMAIN AllRoom : NotGetEntries(who, g) # {}}
           found == {g \in due : RewardSessions(g) # {}}
           shares(g) == Cardinality(NotGetEntries(who, g))
           paid == {LatestReward(g) : g \in found}
           entries == PurchaseSummary[who]
           marked == MarkPaid(entries, due, found)
<1>1. /\ InfoOfDisbandedRoom' =
           [k \in DOMAIN InfoOfDisbandedRoom |->
              IF k \in paid THEN PaidShares(InfoOfDisbandedRoom[k], shares(k[2]))
                            ELSE InfoOfDisbandedRoom[k]]
      /\ PurchaseSummary' = [PurchaseSummary EXCEPT ![who] = marked]
  BY DEF PayOut
<1>2. /\ PurchaseSummary \in [Users -> Seq(Membership)]
      /\ entries \in Seq(Membership)
  BY DEF IndInv, TypeOK, MembersTyped
<1>3. /\ PurchaseSummary'[who] = marked
      /\ \A u \in Users : u # who => PurchaseSummary'[u] = PurchaseSummary[u]
  BY <1>1, <1>2
<1>4. /\ DOMAIN marked = DOMAIN entries
      /\ \A i \in DOMAIN entries : marked[i].room = entries[i].room
  BY <1>2, MarkedRooms
<1>5. \A i \in DOMAIN entries :
        /\ entries[i].room \notin due => marked[i] = entries[i]
        /\ /\ entries[i].room \in due \cap found
           /\ \A j \in DOMAIN entries : entries[j].room = entries[i].room => j = i
           => marked[i].status = "Get"
  BY <1>2, MarkedStatus
<1> HIDE DEF marked
<1>6. \A u \in Users : \A g : EntriesOf(u, g)' = EntriesOf(u, g)
  <2> SUFFICES ASSUME NEW u \in Users, NEW g
               PROVE  EntriesOf(u, g)' = EntriesOf(u, g)
    OBVIOUS
  <2>1. CASE u = who
    BY <1>3, <1>4, <2>1 DEF EntriesOf
  <2>2. CASE u # who
    BY <1>3, <2>2 DEF EntriesOf
  <2> QED BY <2>1, <2>2
<1>7. \A g : Once(g)' <=> Once(g)
  BY <1>6 DEF Once
<1>8. ASSUME NEW g, Once(g)
      PROVE  PaidMembers(g) \subseteq PaidMembers(g)'
  <2> SUFFICES ASSUME NEW u \in PaidMembers(g)
               PROVE  u \in PaidMembers(g)'
    OBVIOUS
  <2>1. PICK i \in EntriesOf(u, g) : PurchaseSummary[u][i].status = "Get"
    BY DEF PaidMembers
  <2>2. u \in Users /\ i \in EntriesOf(u, g)'
    BY <1>6 DEF PaidMembers
  <2>3. CASE u # who
    BY <1>3, <2>1, <2>2, <2>3 DEF PaidMembers
  <2>4. CASE u = who
    <3>1. i \in DOMAIN entries /\ entries[i].room = g /\ entries[i].status = "Get"
      BY <2>1, <2>4 DEF EntriesOf
    <3>2. NotGetEntries(who, g) = {}
      <4> SUFFICES ASSUME NEW j \in NotGetEntries(who, g)
                   PROVE  FALSE
        OBVIOUS
      <4>1. j \in EntriesOf(who, g) /\ entries[j].status = "NotGet"
        BY DEF NotGetEntries, EntriesOf
      <4>2. j = i
        BY <1>8, <2>1, <2>4, <4>1 DEF Once
      <4> QED BY <3>1, <4>1, <4>2
    <3>3. marked[i] = entries[i]
      BY <1>5, <3>1, <3>2
    <3> QED BY <1>3, <2>1, <2>2, <2>4, <3>3 DEF PaidMembers
  <2> QED BY <2>3, <2>4
<1>9. ASSUME NEW g \in found, Once(g)
      PROVE  shares(g) = 1 /\ who \notin PaidMembers(g) /\ who \in PaidMembers(g)'
  <2>1. PICK i : i \in NotGetEntries(who, g)
    BY <1>9
  <2>2. /\ i \in EntriesOf(who, g) /\ i \in DOMAIN entries /\ entries[i].room = g
        /\ entries[i].status = "NotGet"
    BY <2>1 DEF NotGetEntries, EntriesOf
  <2>3. \A j \in EntriesOf(who, g) : j = i
    BY <1>9, <2>2 DEF Once
  <2>4. NotGetEntries(who, g) = {i}
    BY <2>1, <2>3 DEF NotGetEntries, EntriesOf
  <2>5. shares(g) = 1
    BY <2>4, FS_Singleton
  <2>6. who \notin PaidMembers(g)
    BY <2>2, <2>3 DEF PaidMembers
  <2>7. \A j \in DOMAIN entries : entries[j].room = entries[i].room => j = i
    BY <2>2, <2>3 DEF EntriesOf
  <2>8. marked[i].status = "Get"
    BY <1>5, <1>9, <2>2, <2>7
  <2>9. who \in PaidMembers(g)'
    BY <1>3, <1>6, <2>2, <2>8 DEF PaidMembers
  <2> QED BY <2>5, <2>6, <2>9
<1>10. \A g \in found : LatestReward(g)[2] = g
  BY LatestRewardStored
<1>11. ASSUME NEW k \in DOMAIN InfoOfDisbandedRoom
       PROVE  PoolSound(k, InfoOfDisbandedRoom[k])'
  <2> DEFINE info == InfoOfDisbandedRoom[k]
             after == InfoOfDisbandedRoom'[k]
             g == k[2]
  <2>1. info \in RoomRewardInfo /\ shares(g) \in Nat
    BY SharesNat DEF IndInv, TypeOK, DisbandingTyped
  <2>2. /\ info.already_get_count \in Nat /\ info.per_man_reward \in Nat
        /\ info.already_get_reward = info.already_get_count * info.per_man_reward
        /\ info.total_person * info.per_man_reward <= info.total_reward
        /\ Once(g) => info.already_get_count <= Cardinality(PaidMembers(g))
    BY <2>1, InputAssumption DEF PoolsSound, PoolSound, RoomRewardInfo, Balance
  <2>3. /\ IsFiniteSet(PaidMembers(g)) /\ IsFiniteSet(PaidMembers(g)')
        /\ Cardinality(PaidMembers(g)) \in Nat /\ Cardinality(PaidMembers(g)') \in Nat
    BY PaidCounted, PaidCountedAfter
  <2>4. CASE k \in paid
    <3>1. g \in found
      BY <1>10, <2>4
    <3>2. /\ after.already_get_count = info.already_get_count + shares(g)
          /\ after.already_get_reward =
               info.already_get_reward + shares(g) * info.per_man_reward
          /\ after.per_man_reward = info.per_man_reward
          /\ after.total_person = info.total_person
          /\ after.total_reward = info.total_reward
      <4>1. after = PaidShares(info, shares(g))
        BY <1>1, <2>4
      <4> HIDE DEF after, info, shares
      <4> QED BY <2>1, <4>1 DEF PaidShares, RoomRewardInfo
    <3> HIDE DEF after, info, shares
    <3>3. after.already_get_reward = after.already_get_count * after.per_man_reward
      <4>1. (info.already_get_count + shares(g)) * info.per_man_reward =
              info.already_get_count * info.per_man_reward
                + shares(g) * info.per_man_reward
        BY <2>1, <2>2
      <4> QED BY <2>2, <3>2, <4>1
    <3>4. ASSUME Once(g)
          PROVE  after.already_get_count <= Cardinality(PaidMembers(g)')
      <4>1. shares(g) = 1 /\ who \notin PaidMembers(g) /\ who \in PaidMembers(g)'
        BY <1>9, <3>1, <3>4 DEF shares
      <4>2. PaidMembers(g) \cup {who} \subseteq PaidMembers(g)'
        BY <1>8, <3>4, <4>1
      <4>3. Cardinality(PaidMembers(g) \cup {who}) = Cardinality(PaidMembers(g)) + 1
        BY <2>3, <4>1, FS_AddElement
      <4>4. Cardinality(PaidMembers(g) \cup {who}) <= Cardinality(PaidMembers(g)')
        BY <2>3, <4>2, FS_Subset
      <4> QED BY <2>2, <2>3, <3>2, <3>4, <4>1, <4>3, <4>4
    <3> QED BY <1>7, <2>2, <3>2, <3>3, <3>4 DEF PoolSound, after
  <2>5. CASE k \notin paid
    <3>1. after = info
      BY <1>1, <2>5
    <3> HIDE DEF after, info
    <3>2. ASSUME Once(g)
          PROVE  info.already_get_count <= Cardinality(PaidMembers(g)')
      <4>1. Cardinality(PaidMembers(g)) <= Cardinality(PaidMembers(g)')
        BY <1>8, <2>3, <3>2, FS_Subset
      <4> QED BY <2>2, <2>3, <3>2, <4>1
    <3> QED BY <1>7, <2>2, <3>1, <3>2 DEF PoolSound, after
  <2> QED BY <2>4, <2>5
<1>12. DOMAIN InfoOfDisbandedRoom' = DOMAIN InfoOfDisbandedRoom
  BY <1>1
<1> QED BY <1>11, <1>12 DEF PoolsSound, PoolSound

-----------------------------------------------------------------------------
(* Every step keeps the rewards sound.                                     *)

\* Rooms that are created or joined add a membership.
LEMMA EnterPools ==
  ASSUME IndInv, PoolsSound,
         \/ \E who \in Users : \E max, cost, private : CreateRoom(who, max, cost, private)
         \/ \E g \in RoomIds, inviter \in Users, invitee \in Users \cup {None} :
              IntoRoom(inviter, invitee, g)
  PROVE  PoolsSound'
<1>1. PICK who \in Users : \E g : AddUserExtra(who, g)
  <2>1. CASE \E who \in Users : \E max, cost, private : CreateRoom(who, max, cost, private)
    BY <2>1 DEF CreateRoom
  <2>2. CASE \E g \in RoomIds, inviter \in Users, invitee \in Users \cup {None} :
               IntoRoom(inviter, invitee, g)
    <3>1. PICK g \in RoomIds, inviter \in Users, invitee \in Users \cup {None} :
            IntoRoom(inviter, invitee, g)
      BY <2>2
    <3>2. AddUserExtra(IF invitee = None THEN inviter ELSE invitee, g)
      BY <3>1 DEF IntoRoom
    <3> QED BY <3>2
  <2> QED BY <2>1, <2>2
<1>2. UNCHANGED InfoOfDisbandedRoom
  BY DEF CreateRoom, IntoRoom, disbanding
<1> QED BY <1>1, <1>2, AddedEntries, PoolsKept

\* disband_room sets aside what the members share.
LEMMA DisbandRoomPools ==
  ASSUME IndInv, PoolsSound, NEW g, DisbandRoom(g)
  PROVE  PoolsSound'
<1>1. /\ g \in DOMAIN AllRoom /\ DoDisband(g, AllRoom[g], free)
      /\ UNCHANGED PurchaseSummary
  BY DEF DisbandRoom
<1> QED BY <1>1, RoomsShareable, DisbandPools DEF Shareable

\* A purchase that counts the votes may disband the room; another does not.
LEMMA BuyJudges ==
  ASSUME NEW call, NEW item, NEW who, NEW g, NEW quantity,
         Buy(call, item, who, g, quantity)
  PROVE  /\ UNCHANGED PurchaseSummary
         /\ \/ g \in DOMAIN AllRoom /\ \E room, balances : JudgeAndInsert(g, room, balances)
            \/ UNCHANGED InfoOfDisbandedRoom
<1> DEFINE amount == quantity * settings.price[item]
           paid == [AllRoom[g] EXCEPT !.total_balances = @ + amount,
                                      !.consume[who] = @ + amount]
           counted == [paid EXCEPT
                         !.disband_vote = AddWeight(AllRoom[g].disband_vote, who, amount)]
           balances == [free EXCEPT ![who] = @ - amount]
<1>1. /\ g \in DOMAIN AllRoom /\ UNCHANGED PurchaseSummary
      /\ JudgeAndInsert(g, counted, balances) \/ UNCHANGED disbanding
  BY DEF Buy, InRoom
<1> HIDE DEF counted, balances
<1> QED BY <1>1 DEF disbanding

\* Votes and what changes them.
LEMMA VotingPools ==
  ASSUME IndInv, IndInv', PoolsSound, NEW who, NEW g,
         \/ AskForDisbandRoom(who, g)
         \/ \E approves : Vote(who, g, approves)
         \/ \E call, item, quantity : Buy(call, item, who, g, quantity)
  PROVE  PoolsSound'
<1>1. /\ UNCHANGED PurchaseSummary
      /\ \/ g \in DOMAIN AllRoom /\ \E room, balances : JudgeAndInsert(g, room, balances)
         \/ UNCHANGED InfoOfDisbandedRoom
  <2>1. CASE AskForDisbandRoom(who, g)
    BY <2>1 DEF AskForDisbandRoom, InRoom
  <2>2. CASE \E approves : Vote(who, g, approves)
    BY <2>2 DEF Vote, InRoom
  <2>3. CASE \E call, item, quantity : Buy(call, item, who, g, quantity)
    BY <2>3, BuyJudges
  <2> QED BY <2>1, <2>2, <2>3
<1> QED BY <1>1, JudgePools, PoolsSame

LEMMA GetSame ==
  ASSUME NEW g, NEW id, NEW who, NEW amount, GetRedpacketInRoom(g, id, who, amount)
  PROVE  UNCHANGED <<PurchaseSummary, InfoOfDisbandedRoom>>
<1>1. UNCHANGED <<clock, counters, treasury, AllRoom, members, disbanding>>
  BY DEF GetRedpacketInRoom
<1> QED BY <1>1 DEF members, disbanding

\* Managers and councils change no reward and no membership.
LEMMA ManagerNextSame ==
  ASSUME NEW g, ManagerNext(g)
  PROVE  UNCHANGED <<PurchaseSummary, InfoOfDisbandedRoom>>
<1>1. CASE SetterCalled(g)
  BY <1>1 DEF SetterCalled, SetCouncilMembers, AddCouncilMember, RemoveCouncilMember,
              RemoveSomeoneFromBlacklist, UpdateJoinCost, SetRoomPrivacy, UpdateRoom,
              disbanding
<1>2. CASE \E who \in Users, by_root \in BOOLEAN : RemoveSomeone(g, who, by_root)
  BY <1>2 DEF RemoveSomeone, UpdateRoom, disbanding
<1>3. CASE \E new_max \in MemberLimits : SetMaxNumberForRoomMembers(g, new_max)
  BY <1>3 DEF SetMaxNumberForRoomMembers, UpdateRoom, disbanding
<1>4. CASE ManagerGetReward(g)
  BY <1>4 DEF ManagerGetReward, UpdateRoom, disbanding
<1>5. CASE \E amount \in PacketAmounts : SubRoomFreeAmount(g, amount)
  BY <1>5 DEF SubRoomFreeAmount, UpdateRoom, disbanding
<1> QED BY <1>1, <1>2, <1>3, <1>4, <1>5 DEF ManagerNext, SetterCalled

\* No other step changes a reward or a membership.
LEMMA OtherPools ==
  ASSUME IndInv, PoolsSound,
         \/ NewBlock \/ RootNext \/ UNCHANGED vars
         \/ \E g : ManagerNext(g)
         \/ \E who, g : ExitAmongOthers(who, g) \/ ExitAsLast(who, g)
         \/ \E who, g, lucky, amount : SendRedpacketInRoom(who, g, lucky, amount)
         \/ \E g, id, who, amount : GetRedpacketInRoom(g, id, who, amount)
         \/ \E g : GiveBackExpiredRedpacket(g)
  PROVE  PoolsSound'
<1>1. UNCHANGED <<PurchaseSummary, InfoOfDisbandedRoom>>
  <2>0. CASE UNCHANGED vars
    BY <2>0 DEF vars
  <2>1. CASE NewBlock \/ RootNext
    BY <2>1 DEF NewBlock, RootNext, SetCreateCost, SetRemoveInterval, SetDisbandInterval,
                SetPropsPrice, SetAudioPrice, SetRedpackMinAmount, ChangeSettings,
                members, disbanding
  <2>2. CASE \E g : ManagerNext(g)
    BY <2>2, ManagerNextSame
  <2>3. CASE \E who, g : ExitAmongOthers(who, g) \/ ExitAsLast(who, g)
    BY <2>3 DEF ExitAmongOthers, ExitAsLast, UpdateRoom, disbanding
  <2>4. CASE \E who, g, lucky, amount : SendRedpacketInRoom(who, g, lucky, amount)
    BY <2>4 DEF SendRedpacketInRoom, members, disbanding
  <2>5. CASE \E g, id, who, amount : GetRedpacketInRoom(g, id, who, amount)
    BY <2>5, GetSame
  <2>6. CASE \E g : GiveBackExpiredRedpacket(g)
    BY <2>6 DEF GiveBackExpiredRedpacket, members, disbanding
  <2> QED BY <2>0, <2>1, <2>2, <2>3, <2>4, <2>5, <2>6
<1> QED BY <1>1, PoolsSame

LEMMA NextPools ==
  ASSUME IndInv, IndInv', PoolsSound, [Next]_vars
  PROVE  PoolsSound'
<1>1. CASE \/ NewBlock \/ RootNext \/ UNCHANGED vars
           \/ \E g \in RoomIds : ManagerNext(g) \/ GiveBackExpiredRedpacket(g)
           \/ \E k \in DOMAIN RedPacketOfRoom, who \in Users, amount \in PacketAmounts :
                GetRedpacketInRoom(k[1], k[2], who, amount)
  BY <1>1, OtherPools
<1>2. CASE \E who \in Users, max \in MemberLimits, cost \in JoinCosts,
             private \in BOOLEAN : CreateRoom(who, max, cost, private)
  BY <1>2, EnterPools
<1>3. CASE \E who \in Users, g \in RoomIds : MemberNext(who, g)
  <2> SUFFICES ASSUME NEW who \in Users, NEW g \in RoomIds, MemberNext(who, g)
               PROVE  PoolsSound'
    BY <1>3
  <2>1. CASE \E invitee \in Users \cup {None} : IntoRoom(who, invitee, g)
    BY <2>1, EnterPools
  <2>2. CASE ExitAmongOthers(who, g) \/ ExitAsLast(who, g)
    BY <2>2, OtherPools
  <2>3. CASE \E quantity \in Quantities :
               BuyPropsInRoom(who, g, quantity) \/ BuyAudioInRoom(who, g, quantity)
    BY <2>3, VotingPools DEF BuyPropsInRoom, BuyAudioInRoom
  <2>4. CASE AskForDisbandRoom(who, g)
    BY <2>4, VotingPools
  <2>5. CASE \E approves \in BOOLEAN : Vote(who, g, approves)
    BY <2>5, VotingPools
  <2>6. CASE \E lucky \in LuckyNumbers, amount \in PacketAmounts :
               SendRedpacketInRoom(who, g, lucky, amount)
    BY <2>6, OtherPools
  <2> QED BY <2>1, <2>2, <2>3, <2>4, <2>5, <2>6 DEF MemberNext
<1>4. CASE \E g \in RoomIds : DisbandRoom(g)
  BY <1>4, DisbandRoomPools
<1>5. CASE \E who \in Users : PayOut(who)
  BY <1>5, PayOutPools
<1> QED BY <1>1, <1>2, <1>3, <1>4, <1>5 DEF Next

LEMMA PoolsAlwaysSound == Spec => []PoolsSound
<1>1. Init => PoolsSound
  BY DEF Init, PoolsSound, EmptyMap
<1>2. IndInv /\ IndInv' /\ PoolsSound /\ [Next]_vars => PoolsSound'
  BY NextPools
<1> QED BY <1>1, <1>2, InductiveInvariant, PTL DEF Spec

\* The reward of a room that no one left covers every claim: it is never paid for
\* more people than it was divided by, nor more than it holds.
THEOREM RewardsAlwaysSolvent == Spec => []PoolSolvent
<1>1. IndInv /\ PoolsSound => PoolSolvent
  BY SoundPoolSolvent
<1> QED BY <1>1, InductiveInvariant, PoolsAlwaysSound, PTL
================================================================================
