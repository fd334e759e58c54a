----------------------------- MODULE RoomProofs -----------------------------
(***************************************************************************)
(* The invariants of the room pallet, proved for every value of the        *)
(* constants that the assumptions of RoomTypes allow: what is stored and   *)
(* who is in a room, red packets, the places of rooms and the black list,  *)
(* and the life of a room. RoomMoneyProofs has what adds up.               *)
(*                                                                         *)
(* The invariant that is inductive is IndInv. The records of rooms change  *)
(* in a few ways only, and each has a lemma: RecordStep (a field is set),  *)
(* LeaveStep (a member leaves), DisbandEffect and JudgeStep (the votes are *)
(* counted, and the room may be disbanded), PacketStep and SettingsStep    *)
(* (no record changes). The lemma of an action finds its new values well   *)
(* typed and cites one of them; NextInv puts the actions together.         *)
(***************************************************************************)
EXTENDS RoomProperties, TLAPS, FiniteSetTheorems, SequenceTheorems

\* A share, computed as a quotient, is at most what is shared.
LEMMA DivBound ==
  ASSUME NEW x \in Nat, NEW n \in Nat \ {0}
  PROVE  x \div n \in 0 .. x
OBVIOUS

\* Products of naturals are naturals; the solver needs to be told once.
LEMMA MulNat ==
  ASSUME NEW x \in Nat, NEW y \in Nat
  PROVE  x * y \in Nat
OBVIOUS

\* Percent::from_percent(p) * x is a natural number.
LEMMA PercentNat ==
  ASSUME NEW p \in Nat, NEW x \in Nat
  PROVE  Percent(p, x) \in Nat
BY MulNat, SMT DEF Percent

\* A larger percentage of the same reward is at least as much.
LEMMA PercentMonotone ==
  ASSUME NEW p \in Nat, NEW q \in Nat, p <= q, NEW x \in Nat
  PROVE  Percent(p, x) <= Percent(q, x)
<1>1. p * x <= q * x
  OBVIOUS
<1> QED BY <1>1, MulNat DEF Percent

\* is_vote_end returns one of its three results.
LEMMA VoteResults ==
  ASSUME NEW room, NEW block
  PROVE  VoteEndResult(room, block) \in {"pass", "not_pass", "not_end"}
BY DEF VoteEndResult

\* members_convert_type returns one of the size classes.
LEMMA SizesTyped == ASSUME NEW n PROVE MembersConvertType(n) \in RoomSizes
BY DEF MembersConvertType, RoomSizes

\* What pay_for puts into a room covers the part it owes the manager, and the
\* treasury's part does not wrap around.
LEMMA PayForSplit ==
  ASSUME NEW cost \in Nat
  PROVE  /\ PayForManagerNow(cost) \in Nat
         /\ PayForManagerLater(cost) \in Nat
         /\ PayForRoomLater(cost) \in Nat
         /\ PayForTreasury(cost) \in Nat
BY DEF PayForManagerNow, PayForManagerLater, PayForRoomLater, PayForTreasury, Percent, SaturatingSub

\* A cleared vote, DisbandVote::default, is a vote.
LEMMA NoVotesTyped == NoVotes \in DisbandVote
BY InputAssumption DEF NoVotes, DisbandVote, Balance

\* remove_someone_in_room keeps the type of a room's record and its balances.
LEMMA RemovedTyped ==
  ASSUME NEW room \in RoomInfo, NEW who \in Users
  PROVE  RemoveSomeoneInRoom(room, who) \in RoomInfo
<1>1. SaturatingSub(room.now_members_number, 1) \in Nat
  BY DEF RoomInfo, SaturatingSub
<1>2. [room.consume EXCEPT ![who] = 0] \in [Users -> Balance]
  BY InputAssumption DEF RoomInfo, Balance
<1>3. RemoveSomeoneInRoom(room, who) =
        [room EXCEPT !.now_members_number = SaturatingSub(room.now_members_number, 1),
                     !.consume = [room.consume EXCEPT ![who] = 0]]
  BY DEF RemoveSomeoneInRoom, RoomInfo
<1> QED BY <1>1, <1>2, <1>3 DEF RoomInfo

\* remove_vote_info keeps the type of a room's record, its balances and members.
LEMMA VotesRemovedTyped ==
  ASSUME NEW room \in RoomInfo, NEW block \in Nat
  PROVE  RemoveVoteInfo(room, block) \in RoomInfo
<1>1. AtMost(room.disband_vote_end_block, block) \in Nat
  BY DEF RoomInfo, AtMost
<1> QED BY <1>1, NoVotesTyped DEF RoomInfo, RemoveVoteInfo

-----------------------------------------------------------------------------
(* The initial state.                                                      *)

\* The invariant holds at genesis.
LEMMA InitInv == Init => IndInv
<1> SUFFICES ASSUME Init PROVE IndInv
  OBVIOUS
<1>1. TypeOK
  <2>1. MoneyTyped
    BY InputAssumption DEF Init, MoneyTyped, Balance
  <2>2. ClockTyped /\ CountersTyped
    BY InputAssumption DEF Init, ClockTyped, CountersTyped
  <2>3. RoomsTyped /\ DisbandingTyped /\ PacketsTyped
    BY DEF Init, EmptyMap, RoomsTyped, DisbandingTyped, PacketsTyped
  <2>4. MembersTyped
    BY DEF Init, MembersTyped
  <2> QED BY <2>1, <2>2, <2>3, <2>4 DEF TypeOK
<1>2. MembersCounted /\ ManagerFundsCovered /\ NothingOutlivesRoom /\ RoomIdsFresh
  BY DEF Init, EmptyMap, MembersCounted, ManagerFundsCovered, NothingOutlivesRoom,
         RoomIdsFresh
<1> QED BY <1>1, <1>2 DEF IndInv

-----------------------------------------------------------------------------
(* Steps that store no room's record.                                      *)

\* A call that leaves rooms, members and rewards alone keeps their part of the
\* invariant.
LEMMA RoomsUntouched ==
  ASSUME IndInv, UNCHANGED <<AllRoom, members, disbanding, NextGroupId>>
  PROVE  /\ RoomsTyped' /\ MembersTyped' /\ DisbandingTyped'
         /\ MembersCounted' /\ ManagerFundsCovered' /\ RoomIdsFresh'
<1>1. RoomsTyped' /\ MembersTyped' /\ DisbandingTyped'
  BY DEF IndInv, TypeOK, RoomsTyped, MembersTyped, DisbandingTyped, members, disbanding
<1>2. MembersCounted' /\ ManagerFundsCovered' /\ RoomIdsFresh'
  BY DEF IndInv, MembersCounted, CountedIn, Undisbanded, ManagerFundsCovered, CoveredIn,
         RoomIdsFresh, members, disbanding
<1> QED BY <1>1, <1>2

\* What root sets, and a new block, keep the invariant.
LEMMA SettingsStep ==
  ASSUME IndInv, settings' \in Settings, now' \in Nat,
         UNCHANGED <<counters, members, money, AllRoom, disbanding, RedPacketOfRoom>>
  PROVE  IndInv'
<1>1. ClockTyped'
  BY DEF ClockTyped
<1>2. MoneyTyped' /\ CountersTyped' /\ PacketsTyped'
  BY DEF IndInv, TypeOK, MoneyTyped, CountersTyped, PacketsTyped, money, counters
<1>3. NothingOutlivesRoom'
  BY DEF IndInv, NothingOutlivesRoom, members, disbanding
<1> QED BY <1>1, <1>2, <1>3, RoomsUntouched DEF IndInv, TypeOK, counters

\* The calls on red packets keep the invariant when packets are only in rooms
\* that exist.
LEMMA PacketStep ==
  ASSUME IndInv, MoneyTyped', CountersTyped', PacketsTyped',
         \A k \in DOMAIN RedPacketOfRoom' : k[1] \in DOMAIN AllRoom,
         UNCHANGED <<clock, NextGroupId, AllRoom, members, disbanding>>
  PROVE  IndInv'
<1>1. ClockTyped'
  BY DEF IndInv, TypeOK, ClockTyped, clock
<1>2. NothingOutlivesRoom'
  BY DEF IndInv, NothingOutlivesRoom, members, disbanding
<1> QED BY <1>1, <1>2, RoomsUntouched DEF IndInv, TypeOK

-----------------------------------------------------------------------------
(* Steps that replace the record of one room.                              *)

\* Storing the record of one room keeps the others, and the manager's cover if
\* the new record has it.
LEMMA RoomReplaced ==
  ASSUME IndInv, NEW g \in DOMAIN AllRoom, NEW room \in RoomInfo,
         AllRoom' = [AllRoom EXCEPT ![g] = room],
         room.group_manager_balances <= room.total_balances
  PROVE  RoomsTyped' /\ ManagerFundsCovered' /\ DOMAIN AllRoom' = DOMAIN AllRoom
BY DEF IndInv, TypeOK, RoomsTyped, ManagerFundsCovered, CoveredIn

\* The manager and the listeners of a room are a finite set.
LEMMA PeopleFinite ==
  ASSUME IndInv, NEW g \in DOMAIN AllRoom
  PROVE  /\ IsFiniteSet(ListenersOfRoom[g])
         /\ IsFiniteSet(ListenersOfRoom[g] \cup {AllRoom[g].group_manager})
<1>1. ListenersOfRoom[g] \subseteq Users /\ AllRoom[g].group_manager \in Users
  BY DEF IndInv, TypeOK, RoomsTyped, MembersTyped, RoomInfo
<1> QED BY <1>1, InputAssumption, FS_Subset

\* now_members_number is positive in every room.
LEMMA NobodyAlone ==
  ASSUME IndInv, NEW g \in DOMAIN AllRoom
  PROVE  AllRoom[g].now_members_number \in Nat \ {0}
<1> DEFINE P == ListenersOfRoom[g]
           m == AllRoom[g].group_manager
<1>1. AllRoom[g].now_members_number \in Nat
  BY DEF IndInv, TypeOK, RoomsTyped, RoomInfo
<1>2. CountedIn(g)
  BY DEF IndInv, MembersCounted
<1>3. P # {} => Cardinality(P) \in Nat \ {0}
  BY PeopleFinite, FS_CardinalityType, FS_EmptySet
<1>4. Cardinality(P \cup {m}) \in Nat \ {0}
  <2>1. P \cup {m} # {}
    OBVIOUS
  <2> QED BY <2>1, PeopleFinite, FS_CardinalityType, FS_EmptySet
<1> QED BY <1>1, <1>2, <1>3, <1>4 DEF CountedIn

\* A dispatchable that stores a room's record, with the same manager and number
\* of members, keeps the invariant.
LEMMA RecordStep ==
  ASSUME IndInv, MoneyTyped', NEW g \in DOMAIN AllRoom, NEW room \in RoomInfo,
         UpdateRoom(g, room), UNCHANGED ListenersOfRoom,
         room.group_manager = AllRoom[g].group_manager,
         room.now_members_number = AllRoom[g].now_members_number,
         room.group_manager_balances <= room.total_balances
  PROVE  IndInv'
<1> USE DEF UpdateRoom, clock, counters, disbanding
<1>1. RoomsTyped' /\ ManagerFundsCovered' /\ DOMAIN AllRoom' = DOMAIN AllRoom
  BY RoomReplaced
<1>2. ClockTyped' /\ CountersTyped' /\ MembersTyped' /\ DisbandingTyped' /\ PacketsTyped'
  BY DEF IndInv, TypeOK, ClockTyped, CountersTyped, MembersTyped, DisbandingTyped,
         PacketsTyped
<1>3. NothingOutlivesRoom' /\ RoomIdsFresh'
  BY <1>1 DEF IndInv, NothingOutlivesRoom, RoomIdsFresh
<1>4. MembersCounted'
  <2> SUFFICES ASSUME NEW h \in DOMAIN AllRoom PROVE CountedIn(h)'
    BY <1>1 DEF MembersCounted
  <2>1. /\ AllRoom'[h].now_members_number = AllRoom[h].now_members_number
        /\ AllRoom'[h].group_manager = AllRoom[h].group_manager
    OBVIOUS
  <2>2. CountedIn(h)
    BY DEF IndInv, MembersCounted
  <2> QED BY <2>1, <2>2 DEF CountedIn, Undisbanded
<1> QED BY <1>1, <1>2, <1>3, <1>4 DEF IndInv, TypeOK

\* Whoever leaves a room others stay in leaves it counted right.
LEMMA LeaveStep ==
  ASSUME IndInv, MoneyTyped', NEW g \in DOMAIN AllRoom, NEW room \in RoomInfo,
         NEW who \in ListenersOfRoom[g], who # room.group_manager,
         UpdateRoom(g, RemoveSomeoneInRoom(room, who)),
         ListenersOfRoom' = [ListenersOfRoom EXCEPT ![g] = @ \ {who}],
         room.group_manager = AllRoom[g].group_manager,
         room.now_members_number = AllRoom[g].now_members_number,
         room.group_manager_balances <= room.total_balances
  PROVE  IndInv'
<1> USE DEF UpdateRoom, clock, counters, disbanding
<1> DEFINE left == RemoveSomeoneInRoom(room, who)
           P == ListenersOfRoom[g]
           m == room.group_manager
<1>1. /\ g \in RoomIds /\ P \subseteq Users /\ who \in Users
      /\ ListenersOfRoom \in [RoomIds -> SUBSET Users]
  BY DEF IndInv, TypeOK, RoomsTyped, MembersTyped
<1>2. left \in RoomInfo
  BY <1>1, RemovedTyped
<1>3. /\ left.group_manager = m
      /\ left.now_members_number = AllRoom[g].now_members_number - 1
      /\ left.group_manager_balances <= left.total_balances
  BY <1>2, NobodyAlone DEF RemoveSomeoneInRoom, SaturatingSub, RoomInfo
<1>4. RoomsTyped' /\ ManagerFundsCovered' /\ DOMAIN AllRoom' = DOMAIN AllRoom
  BY <1>2, <1>3, RoomReplaced
<1>5. ClockTyped' /\ CountersTyped' /\ DisbandingTyped' /\ PacketsTyped'
  BY DEF IndInv, TypeOK, ClockTyped, CountersTyped, DisbandingTyped, PacketsTyped
<1>6. MembersTyped'
  BY <1>1 DEF IndInv, TypeOK, MembersTyped
<1>7. NothingOutlivesRoom' /\ RoomIdsFresh'
  BY <1>1, <1>4 DEF IndInv, NothingOutlivesRoom, RoomIdsFresh
<1>8. CountedIn(g)'
  <2>1. /\ Cardinality(P \ {who}) = Cardinality(P) - 1
        /\ Cardinality((P \cup {m}) \ {who}) = Cardinality(P \cup {m}) - 1
    BY PeopleFinite, FS_RemoveElement
  <2>2. (P \cup {m}) \ {who} = (P \ {who}) \cup {m}
    OBVIOUS
  <2>3. ListenersOfRoom'[g] = P \ {who} /\ AllRoom'[g] = left
    BY <1>1
  <2>4. CountedIn(g)
    BY DEF IndInv, MembersCounted
  <2>5. /\ Cardinality(P) \in Nat /\ Cardinality(P \cup {m}) \in Nat
        /\ AllRoom[g].now_members_number \in Nat
    BY PeopleFinite, FS_CardinalityType, NobodyAlone
  <2> HIDE DEF left
  <2>6. CASE Undisbanded(g)
    BY <1>3, <2>1, <2>3, <2>4, <2>5, <2>6 DEF CountedIn, Undisbanded
  <2>7. CASE ~Undisbanded(g)
    BY <1>3, <2>1, <2>2, <2>3, <2>4, <2>5, <2>7 DEF CountedIn, Undisbanded
  <2> QED BY <2>6, <2>7
<1>9. MembersCounted'
  <2> SUFFICES ASSUME NEW h \in DOMAIN AllRoom, h # g PROVE CountedIn(h)'
    BY <1>4, <1>8 DEF MembersCounted
  <2>1. h \in RoomIds
    BY DEF IndInv, TypeOK, RoomsTyped
  <2>2. AllRoom'[h] = AllRoom[h] /\ ListenersOfRoom'[h] = ListenersOfRoom[h]
    BY <1>1, <2>1
  <2>3. CountedIn(h)
    BY DEF IndInv, MembersCounted
  <2> QED BY <2>2, <2>3 DEF CountedIn, Undisbanded
<1> QED BY <1>4, <1>5, <1>6, <1>7, <1>9 DEF IndInv, TypeOK

-----------------------------------------------------------------------------
(* Disbanding.                                                             *)

\* get_session_index is a natural number.
LEMMA SessionNat == ASSUME IndInv PROVE GetSessionIndex \in Nat
BY DurationAssumption, DivBound DEF GetSessionIndex, IndInv, TypeOK, ClockTyped

\* The reward do_disband sets aside is well typed: its subtraction does not wrap
\* around and its divisor is not zero.
LEMMA RewardTyped ==
  ASSUME NEW room \in RoomInfo, room.now_members_number # 0,
         room.group_manager_balances <= room.total_balances
  PROVE  RewardInfo(room) \in RoomRewardInfo
<1> DEFINE listener_reward == room.total_balances - room.group_manager_balances
<1>1. listener_reward \in Balance /\ room.now_members_number \in Nat \ {0}
  BY InputAssumption DEF RoomInfo, Balance
<1>2. listener_reward \div room.now_members_number \in 0 .. listener_reward
  BY <1>1, DivBound DEF Balance
<1>3. listener_reward \div room.now_members_number \in Balance
  BY <1>1, <1>2, InputAssumption DEF Balance
<1>4. 0 \in Balance
  BY InputAssumption DEF Balance
<1> QED BY <1>1, <1>3, <1>4 DEF RewardInfo, RoomRewardInfo

\* What do_disband leaves of the storage, AllRoom apart.
LEMMA DisbandEffect ==
  ASSUME IndInv, NEW g \in DOMAIN AllRoom, NEW room \in RoomInfo, NEW balances,
         DoDisband(g, room, balances), UNCHANGED PurchaseSummary,
         room.now_members_number = AllRoom[g].now_members_number,
         room.group_manager_balances <= room.total_balances
  PROVE  /\ free' \in [Users -> Balance]
         /\ MembersTyped' /\ DisbandingTyped' /\ PacketsTyped'
         /\ ListenersOfRoom' = [ListenersOfRoom EXCEPT ![g] = {}]
         /\ DOMAIN PendingDisbandRooms' = DOMAIN PendingDisbandRooms \ {g}
         /\ \A k \in DOMAIN RedPacketOfRoom' : k \in DOMAIN RedPacketOfRoom /\ k[1] # g
         /\ \A k \in DOMAIN InfoOfDisbandedRoom' :
              k \in DOMAIN InfoOfDisbandedRoom \/ k[2] = g
         /\ \A h : h # g => (Undisbanded(h)' <=> Undisbanded(h))
         /\ ~Undisbanded(g)'
<1> DEFINE key == <<GetSessionIndex, g>>
<1>1. g \in RoomIds /\ key \in Nat \X RoomIds
  BY SessionNat DEF IndInv, TypeOK, RoomsTyped
<1>2. free' \in [Users -> Balance]
  BY DEF DoDisband, Refund, Fits
<1>3. InfoOfDisbandedRoom' =
        [k \in DOMAIN InfoOfDisbandedRoom \cup {key} |->
           IF k = key THEN RewardInfo(room) ELSE InfoOfDisbandedRoom[k]]
  BY DEF DoDisband, Put
<1>4. RewardInfo(room) \in RoomRewardInfo
  BY NobodyAlone, RewardTyped
<1>5. PendingDisbandRooms' =
        [h \in DOMAIN PendingDisbandRooms \ {g} |-> PendingDisbandRooms[h]]
  BY DEF DoDisband, Remove, Restrict
<1>6. DisbandingTyped'
  <2>1. /\ DOMAIN InfoOfDisbandedRoom' \subseteq Nat \X RoomIds
        /\ \A k \in DOMAIN InfoOfDisbandedRoom' :
             InfoOfDisbandedRoom'[k] \in RoomRewardInfo
    BY <1>1, <1>3, <1>4 DEF IndInv, TypeOK, DisbandingTyped
  <2>2. /\ DOMAIN PendingDisbandRooms' \subseteq RoomIds
        /\ \A h \in DOMAIN PendingDisbandRooms' : PendingDisbandRooms'[h] \in Nat
    BY <1>5 DEF IndInv, TypeOK, DisbandingTyped
  <2> QED BY <2>1, <2>2 DEF DisbandingTyped
<1>7. RedPacketOfRoom' =
        [k \in DOMAIN RedPacketOfRoom \ PacketsOf(g) |-> RedPacketOfRoom[k]]
  BY DEF DoDisband, Remove, Restrict
<1>8. PacketsTyped'
  BY <1>7 DEF IndInv, TypeOK, PacketsTyped
<1>9. \A k \in DOMAIN RedPacketOfRoom' : k \in DOMAIN RedPacketOfRoom /\ k[1] # g
  BY <1>7 DEF PacketsOf
<1>10. ListenersOfRoom' = [ListenersOfRoom EXCEPT ![g] = {}]
  BY DEF DoDisband
<1>11. MembersTyped'
  BY <1>1, <1>10 DEF IndInv, TypeOK, MembersTyped
<1>12. key[2] = g /\ DOMAIN InfoOfDisbandedRoom' = DOMAIN InfoOfDisbandedRoom \cup {key}
  BY <1>3
<1> HIDE DEF key
<1>13. /\ \A h : h # g => (Undisbanded(h)' <=> Undisbanded(h))
       /\ ~Undisbanded(g)'
  BY <1>12 DEF Undisbanded
<1> QED BY <1>2, <1>5, <1>6, <1>8, <1>9, <1>10, <1>11, <1>12, <1>13

\* disband_room keeps the invariant.
LEMMA DisbandRoomStep == ASSUME IndInv, NEW g, DisbandRoom(g) PROVE IndInv'
<1> USE DEF DisbandRoom, clock, counters
<1> DEFINE room == AllRoom[g]
<1>1. /\ g \in DOMAIN AllRoom /\ room \in RoomInfo
      /\ room.group_manager_balances <= room.total_balances
      /\ DoDisband(g, room, free)
  BY DEF IndInv, TypeOK, RoomsTyped, ManagerFundsCovered, CoveredIn
<1> HIDE DEF room
<1>2. /\ free' \in [Users -> Balance]
      /\ MembersTyped' /\ DisbandingTyped' /\ PacketsTyped'
      /\ ListenersOfRoom' = [ListenersOfRoom EXCEPT ![g] = {}]
      /\ DOMAIN PendingDisbandRooms' = DOMAIN PendingDisbandRooms \ {g}
      /\ \A k \in DOMAIN RedPacketOfRoom' : k \in DOMAIN RedPacketOfRoom /\ k[1] # g
      /\ \A k \in DOMAIN InfoOfDisbandedRoom' :
           k \in DOMAIN InfoOfDisbandedRoom \/ k[2] = g
      /\ \A h : h # g => (Undisbanded(h)' <=> Undisbanded(h))
  BY <1>1, DisbandEffect DEF room
<1>3. AllRoom' = [h \in DOMAIN AllRoom \ {g} |-> AllRoom[h]]
  BY DEF Remove, Restrict
<1>4. RoomsTyped' /\ ManagerFundsCovered'
  BY <1>3 DEF IndInv, TypeOK, RoomsTyped, ManagerFundsCovered, CoveredIn
<1>5. ClockTyped' /\ CountersTyped' /\ MoneyTyped'
  BY <1>2 DEF IndInv, TypeOK, ClockTyped, CountersTyped, MoneyTyped
<1>6. ListenersOfRoom \in [RoomIds -> SUBSET Users] /\ DOMAIN AllRoom \subseteq RoomIds
  BY DEF IndInv, TypeOK, RoomsTyped, MembersTyped
<1>7. NothingOutlivesRoom'
  BY <1>2, <1>3, <1>6 DEF IndInv, NothingOutlivesRoom
<1>8. RoomIdsFresh'
  BY <1>1, <1>2, <1>3 DEF IndInv, RoomIdsFresh
<1>9. MembersCounted'
  <2> SUFFICES ASSUME NEW h \in DOMAIN AllRoom, h # g PROVE CountedIn(h)'
    BY <1>3 DEF MembersCounted
  <2>1. AllRoom'[h] = AllRoom[h] /\ ListenersOfRoom'[h] = ListenersOfRoom[h]
    BY <1>2, <1>3, <1>6
  <2>2. CountedIn(h) /\ (Undisbanded(h)' <=> Undisbanded(h))
    BY <1>2 DEF IndInv, MembersCounted
  <2> QED BY <2>1, <2>2 DEF CountedIn
<1> QED BY <1>2, <1>4, <1>5, <1>7, <1>8, <1>9 DEF IndInv, TypeOK

\* The end of every call that may count votes, whichever way they are counted.
LEMMA JudgeStep ==
  ASSUME IndInv, NEW g \in DOMAIN AllRoom, NEW room \in RoomInfo,
         NEW balances \in [Users -> Balance], treasury' \in Nat,
         JudgeAndInsert(g, room, balances),
         UNCHANGED <<clock, counters, PurchaseSummary>>,
         room.group_manager = AllRoom[g].group_manager,
         room.now_members_number = AllRoom[g].now_members_number,
         room.group_manager_balances <= room.total_balances
  PROVE  IndInv'
<1> USE DEF clock, counters
<1> DEFINE result == VoteEndResult(room, now)
           immediate == result = "pass" /\ GetRoomConsumeAmount(room) = 0
<1>1. ClockTyped' /\ CountersTyped'
  BY DEF IndInv, TypeOK, ClockTyped, CountersTyped
<1>2. /\ ListenersOfRoom \in [RoomIds -> SUBSET Users]
      /\ DOMAIN AllRoom \subseteq RoomIds /\ g \in RoomIds
      /\ now \in Nat
  BY DEF IndInv, TypeOK, RoomsTyped, MembersTyped, ClockTyped
<1>3. CASE immediate
  <2>1. DoDisband(g, room, balances) /\ AllRoom' = [AllRoom EXCEPT ![g] = room]
    BY <1>3 DEF JudgeAndInsert
  <2>2. RoomsTyped' /\ ManagerFundsCovered' /\ DOMAIN AllRoom' = DOMAIN AllRoom
    BY <2>1, RoomReplaced
  <2>3. /\ free' \in [Users -> Balance]
        /\ MembersTyped' /\ DisbandingTyped' /\ PacketsTyped'
        /\ ListenersOfRoom' = [ListenersOfRoom EXCEPT ![g] = {}]
        /\ DOMAIN PendingDisbandRooms' = DOMAIN PendingDisbandRooms \ {g}
        /\ \A k \in DOMAIN RedPacketOfRoom' : k \in DOMAIN RedPacketOfRoom /\ k[1] # g
        /\ \A k \in DOMAIN InfoOfDisbandedRoom' :
             k \in DOMAIN InfoOfDisbandedRoom \/ k[2] = g
        /\ \A h : h # g => (Undisbanded(h)' <=> Undisbanded(h))
        /\ ~Undisbanded(g)'
    BY <2>1, DisbandEffect
  <2>4. MoneyTyped'
    BY <2>3 DEF MoneyTyped
  <2>5. NothingOutlivesRoom' /\ RoomIdsFresh'
    BY <1>2, <2>2, <2>3 DEF IndInv, NothingOutlivesRoom, RoomIdsFresh
  <2>6. CountedIn(g)'
    <3>1. ListenersOfRoom'[g] = {} /\ AllRoom'[g] = room
      BY <1>2, <2>1, <2>3
    <3>2. Cardinality({} \cup {room.group_manager}) = 1
      BY FS_Singleton, {} \cup {room.group_manager} = {room.group_manager}
    <3>3. room.now_members_number \in Nat \ {0}
      BY NobodyAlone
    <3>4. room.now_members_number >= Cardinality({} \cup {room.group_manager})
      BY <3>2, <3>3
    <3> QED BY <2>3, <3>1, <3>4 DEF CountedIn
  <2>7. MembersCounted'
    <3> SUFFICES ASSUME NEW h \in DOMAIN AllRoom, h # g PROVE CountedIn(h)'
      BY <2>2, <2>6 DEF MembersCounted
    <3>1. AllRoom'[h] = AllRoom[h] /\ ListenersOfRoom'[h] = ListenersOfRoom[h]
      BY <1>2, <2>1, <2>3
    <3>2. CountedIn(h) /\ (Undisbanded(h)' <=> Undisbanded(h))
      BY <2>3 DEF IndInv, MembersCounted
    <3> QED BY <3>1, <3>2 DEF CountedIn
  <2> QED BY <1>1, <2>2, <2>3, <2>4, <2>5, <2>7 DEF IndInv, TypeOK
<1>4. CASE ~immediate
  <2> DEFINE stored ==
        CASE result = "pass" -> [room EXCEPT !.disband_vote_end_block = now]
          [] result = "not_pass" -> RemoveVoteInfo(room, now)
          [] result = "not_end" -> room
  <2>1. /\ AllRoom' = [AllRoom EXCEPT ![g] = stored]
        /\ PendingDisbandRooms' =
             IF result = "pass"
             THEN Put(PendingDisbandRooms, g, now + DelayDisbandDuration)
             ELSE PendingDisbandRooms
        /\ free' = balances
        /\ UNCHANGED <<ListenersOfRoom, InfoOfDisbandedRoom, RedPacketOfRoom>>
    BY <1>4 DEF JudgeAndInsert
  <2>2. stored \in RoomInfo
    <3>1. [room EXCEPT !.disband_vote_end_block = now] \in RoomInfo
      BY <1>2 DEF RoomInfo
    <3>2. RemoveVoteInfo(room, now) \in RoomInfo
      BY <1>2, VotesRemovedTyped
    <3> HIDE DEF result
    <3> QED BY <3>1, <3>2, VoteResults DEF result
  <2>3. /\ stored.group_manager = room.group_manager
        /\ stored.now_members_number = room.now_members_number
        /\ stored.group_manager_balances = room.group_manager_balances
        /\ stored.total_balances = room.total_balances
    <3>1. result \in {"pass", "not_pass", "not_end"}
      BY VoteResults
    <3> HIDE DEF result
    <3> QED BY <3>1 DEF RemoveVoteInfo, RoomInfo
  <2> HIDE DEF stored
  <2>4. RoomsTyped' /\ ManagerFundsCovered' /\ DOMAIN AllRoom' = DOMAIN AllRoom
    BY <2>1, <2>2, <2>3, RoomReplaced
  <2>5. MoneyTyped'
    BY <2>1 DEF MoneyTyped
  <2>6. /\ DOMAIN PendingDisbandRooms' \subseteq DOMAIN PendingDisbandRooms \cup {g}
        /\ \A h \in DOMAIN PendingDisbandRooms' : PendingDisbandRooms'[h] \in Nat
    <3>1. now + DelayDisbandDuration \in Nat
      BY <1>2, DurationAssumption
    <3>2. \A h \in DOMAIN PendingDisbandRooms : PendingDisbandRooms[h] \in Nat
      BY DEF IndInv, TypeOK, DisbandingTyped
    <3> QED BY <2>1, <3>1, <3>2 DEF Put
  <2>7. DisbandingTyped'
    BY <1>2, <2>1, <2>6 DEF IndInv, TypeOK, DisbandingTyped
  <2>8. MembersTyped' /\ PacketsTyped'
    BY <2>1 DEF IndInv, TypeOK, MembersTyped, PacketsTyped
  <2>9. NothingOutlivesRoom' /\ RoomIdsFresh'
    BY <2>1, <2>4, <2>6 DEF IndInv, NothingOutlivesRoom, RoomIdsFresh
  <2>10. MembersCounted'
    <3> SUFFICES ASSUME NEW h \in DOMAIN AllRoom PROVE CountedIn(h)'
      BY <2>4 DEF MembersCounted
    <3>1. /\ AllRoom'[h].now_members_number = AllRoom[h].now_members_number
          /\ AllRoom'[h].group_manager = AllRoom[h].group_manager
      BY <2>1, <2>3
    <3>2. CountedIn(h)
      BY DEF IndInv, MembersCounted
    <3> QED BY <2>1, <3>1, <3>2 DEF CountedIn, Undisbanded
  <2> QED BY <1>1, <2>4, <2>5, <2>7, <2>8, <2>9, <2>10 DEF IndInv, TypeOK
<1> QED BY <1>3, <1>4

-----------------------------------------------------------------------------
(* Paying.                                                                 *)

\* A withdrawal that CanPay allows leaves a balance.
LEMMA PaidBalance ==
  ASSUME IndInv, NEW who \in Users, NEW amount \in Nat, CanPay(who, amount)
  PROVE  free[who] - amount \in Balance
BY InputAssumption DEF IndInv, TypeOK, MoneyTyped, CanPay, SaturatingSub, Balance

\* A saturating subtraction of a balance leaves a balance.
LEMMA SubBalance ==
  ASSUME NEW x \in Balance, NEW y \in Balance
  PROVE  SaturatingSub(x, y) \in Balance
BY InputAssumption DEF SaturatingSub, Balance

\* A room that exists, as the proofs of the actions need it.
LEMMA RoomFacts ==
  ASSUME IndInv, NEW g \in DOMAIN AllRoom
  PROVE  /\ g \in RoomIds /\ AllRoom[g] \in RoomInfo
         /\ AllRoom[g].group_manager_balances <= AllRoom[g].total_balances
         /\ ListenersOfRoom[g] \subseteq Users
BY DEF IndInv, TypeOK, RoomsTyped, MembersTyped, ManagerFundsCovered, CoveredIn

-----------------------------------------------------------------------------
(* Membership.                                                             *)

\* add_user_extra keeps the type of the membership maps.
LEMMA EntryAppended ==
  ASSUME IndInv, NEW who \in Users, NEW g \in RoomIds, AddUserExtra(who, g)
  PROVE  /\ MembersTyped'
         /\ ListenersOfRoom' = [ListenersOfRoom EXCEPT ![g] = ListenersOfRoom[g] \cup {who}]
<1>1. [room |-> g, status |-> "NotGet"] \in Membership
  BY DEF Membership
<1>2. Append(PurchaseSummary[who], [room |-> g, status |-> "NotGet"]) \in Seq(Membership)
  BY <1>1 DEF IndInv, TypeOK, MembersTyped
<1> QED BY <1>2 DEF IndInv, TypeOK, MembersTyped, AddUserExtra

\* create_room keeps the invariant: the id is fresh, so the room has only its
\* manager in it.
LEMMA CreateRoomStep ==
  ASSUME IndInv, NEW who \in Users, NEW max \in MemberLimits,
         NEW cost \in JoinCosts, NEW private \in BOOLEAN,
         CreateRoom(who, max, cost, private)
  PROVE  IndInv'
<1> USE DEF clock, counters, disbanding
<1>0. PICK g : g = NextGroupId
  OBVIOUS
<1> DEFINE payment == settings.create_cost[MembersConvertType(max)]
           room ==
             [group_manager |-> who,
              create_payment |-> payment, join_cost |-> cost,
              max_members |-> max, now_members_number |-> 1,
              total_balances |-> 0, group_manager_balances |-> 0,
              create_block |-> now, last_block_of_get_the_reward |-> now,
              last_remove_someone_block |-> now,
              disband_vote_end_block |-> now, disband_vote |-> NoVotes,
              consume |-> [u \in Users |-> 0],
              council |-> {}, black_list |-> {}, is_private |-> private]
<1>1. /\ g \in Nat /\ g < MaxRooms /\ MaxRooms \in Nat
      /\ CanPay(who, payment)
      /\ free' = [free EXCEPT ![who] = free[who] - payment]
      /\ treasury' = treasury + payment
      /\ AllRoom' = Put(AllRoom, g, room)
      /\ AddUserExtra(who, g)
      /\ NextGroupId' = g + 1
  BY <1>0, InputAssumption DEF CreateRoom, IndInv, TypeOK, CountersTyped
<1>2. g \in RoomIds
  BY <1>1 DEF RoomIds
<1>3. payment \in Balance /\ payment \in Nat
  BY SizesTyped, InputAssumption DEF IndInv, TypeOK, ClockTyped, Settings, Balance
<1>4. MoneyTyped'
  <2>1. free[who] - payment \in Balance
    BY <1>1, <1>3, PaidBalance
  <2>2. treasury + payment \in Nat
    BY <1>3 DEF IndInv, TypeOK, MoneyTyped
  <2> QED BY <1>1, <2>1, <2>2 DEF IndInv, TypeOK, MoneyTyped
<1>5. room \in RoomInfo
  <2>1. now \in Nat /\ max \in Nat /\ cost \in Balance /\ 0 \in Balance
    BY InputAssumption DEF IndInv, TypeOK, ClockTyped, Balance
  <2>2. [u \in Users |-> 0] \in [Users -> Balance]
    BY <2>1
  <2> QED BY <1>3, <2>1, <2>2, NoVotesTyped DEF RoomInfo
<1>6. /\ room.group_manager = who /\ room.now_members_number = 1
      /\ room.group_manager_balances <= room.total_balances
  OBVIOUS
<1> HIDE DEF room, payment
<1>7. /\ DOMAIN AllRoom' = DOMAIN AllRoom \cup {g} /\ g \notin DOMAIN AllRoom
      /\ AllRoom'[g] = room
      /\ \A h \in DOMAIN AllRoom : h # g /\ AllRoom'[h] = AllRoom[h]
  BY <1>0, <1>1 DEF Put, IndInv, RoomIdsFresh
<1>8. RoomsTyped' /\ ManagerFundsCovered'
  BY <1>2, <1>5, <1>6, <1>7 DEF IndInv, TypeOK, RoomsTyped, ManagerFundsCovered, CoveredIn
<1>9. /\ MembersTyped'
      /\ ListenersOfRoom' = [ListenersOfRoom EXCEPT ![g] = ListenersOfRoom[g] \cup {who}]
      /\ ListenersOfRoom \in [RoomIds -> SUBSET Users]
  BY <1>1, <1>2, EntryAppended DEF IndInv, TypeOK, MembersTyped
<1>10. ClockTyped' /\ CountersTyped' /\ DisbandingTyped' /\ PacketsTyped'
  <2>1. UNCHANGED <<clock, disbanding, RedPacketOfRoom, NextRedPacketId>>
    BY DEF CreateRoom
  <2> QED BY <1>1, <2>1 DEF IndInv, TypeOK, ClockTyped, CountersTyped, DisbandingTyped,
             PacketsTyped
<1>11. UNCHANGED <<PendingDisbandRooms, InfoOfDisbandedRoom, RedPacketOfRoom>>
  BY DEF CreateRoom
<1>12. ListenersOfRoom[g] = {} /\ Undisbanded(g)
  <2>1. ListenersOfRoom[g] = {}
    BY <1>2, <1>7 DEF IndInv, NothingOutlivesRoom
  <2>2. \A k \in DOMAIN InfoOfDisbandedRoom : k[2] < g
    BY <1>0 DEF IndInv, RoomIdsFresh
  <2> QED BY <1>1, <2>1, <2>2 DEF Undisbanded
<1>13. NothingOutlivesRoom'
  BY <1>2, <1>7, <1>9, <1>11 DEF IndInv, NothingOutlivesRoom
<1>14. RoomIdsFresh'
  <2>1. \A h \in DOMAIN AllRoom : h \in Nat /\ h < g
    BY <1>0 DEF IndInv, TypeOK, RoomsTyped, RoomIds, RoomIdsFresh
  <2>2. \A k \in DOMAIN InfoOfDisbandedRoom : k[2] \in Nat /\ k[2] < g
    BY <1>0 DEF IndInv, TypeOK, DisbandingTyped, RoomIds, RoomIdsFresh
  <2> QED BY <1>1, <1>7, <1>11, <2>1, <2>2 DEF RoomIdsFresh
<1>15. CountedIn(g)'
  <2>1. ListenersOfRoom'[g] = {who}
    BY <1>2, <1>9, <1>12
  <2>2. Cardinality({who}) = 1
    BY FS_Singleton
  <2> QED BY <1>6, <1>7, <1>11, <1>12, <2>1, <2>2 DEF CountedIn, Undisbanded
<1>16. MembersCounted'
  <2> SUFFICES ASSUME NEW h \in DOMAIN AllRoom, h # g PROVE CountedIn(h)'
    BY <1>7, <1>15 DEF MembersCounted
  <2>1. AllRoom'[h] = AllRoom[h] /\ ListenersOfRoom'[h] = ListenersOfRoom[h]
    BY <1>7, <1>9, RoomFacts
  <2>2. CountedIn(h)
    BY DEF IndInv, MembersCounted
  <2> QED BY <1>11, <2>1, <2>2 DEF CountedIn, Undisbanded
<1> QED BY <1>4, <1>8, <1>9, <1>10, <1>13, <1>14, <1>16 DEF IndInv, TypeOK

\* into_room keeps the invariant: the listener is new and counted once, and the
\* manager's later part is put into the room with the room's.
LEMMA IntoRoomStep ==
  ASSUME IndInv, NEW inviter \in Users, NEW invitee \in Users \cup {None}, NEW g,
         IntoRoom(inviter, invitee, g)
  PROVE  IndInv'
<1> USE DEF clock, counters, disbanding
<1> DEFINE who == IF invitee = None THEN inviter ELSE invitee
           room == AllRoom[g]
           cost == room.join_cost
           later == PayForManagerLater(cost)
           total == room.total_balances + PayForRoomLater(cost) + later
           joined == [room EXCEPT !.total_balances = total,
                                  !.group_manager_balances = @ + later,
                                  !.now_members_number = @ + 1]
           P == ListenersOfRoom[g]
           m == room.group_manager
<1>1. /\ g \in DOMAIN AllRoom /\ who \in Users /\ who \notin P
      /\ Fits(free') /\ DOMAIN free' = DOMAIN free
      /\ treasury' = treasury + PayForTreasury(cost)
      /\ joined.total_balances \in Balance
      /\ AllRoom' = [AllRoom EXCEPT ![g] = joined]
      /\ AddUserExtra(who, g)
      /\ UNCHANGED <<clock, counters, disbanding, RedPacketOfRoom>>
  BY DEF IntoRoom, InRoom, Joined
<1>2. /\ g \in RoomIds /\ room \in RoomInfo /\ P \subseteq Users
      /\ room.group_manager_balances <= room.total_balances
      /\ total \in Balance
  <2>1. /\ g \in RoomIds /\ room \in RoomInfo /\ P \subseteq Users
        /\ room.group_manager_balances <= room.total_balances
    BY <1>1, RoomFacts
  <2>2. "total_balances" \in DOMAIN room
    BY <2>1 DEF RoomInfo
  <2> HIDE DEF room, later
  <2> QED BY <1>1, <2>1, <2>2
<1>3. cost \in Nat /\ later \in Nat /\ PayForRoomLater(cost) \in Nat
      /\ PayForTreasury(cost) \in Nat
  BY <1>2, PayForSplit DEF RoomInfo, Balance
<1>4. MoneyTyped'
  <2>1. free' \in [Users -> Balance]
    BY <1>1 DEF IntoRoom, Fits, IndInv, TypeOK, MoneyTyped
  <2>2. treasury' \in Nat
    BY <1>1, <1>3 DEF IndInv, TypeOK, MoneyTyped
  <2> QED BY <2>1, <2>2 DEF MoneyTyped
<1>5. /\ joined \in RoomInfo
      /\ joined.group_manager_balances <= joined.total_balances
      /\ joined.group_manager = m
      /\ joined.now_members_number = room.now_members_number + 1
  <2>1. /\ room.group_manager_balances + later \in Balance
        /\ room.group_manager_balances + later <= total
    BY <1>1, <1>2, <1>3, InputAssumption DEF RoomInfo, Balance
  <2>2. room.now_members_number + 1 \in Nat
    BY <1>2 DEF RoomInfo
  <2> HIDE DEF room, later, total
  <2> QED BY <1>1, <1>2, <2>1, <2>2 DEF RoomInfo
<1>6. /\ MembersTyped'
      /\ ListenersOfRoom' = [ListenersOfRoom EXCEPT ![g] = P \cup {who}]
      /\ ListenersOfRoom \in [RoomIds -> SUBSET Users]
  BY <1>1, <1>2, EntryAppended DEF IndInv, TypeOK, MembersTyped
<1> HIDE DEF joined, who, total, later
<1>7. RoomsTyped' /\ ManagerFundsCovered' /\ DOMAIN AllRoom' = DOMAIN AllRoom
  BY <1>1, <1>5, RoomReplaced
<1>8. ClockTyped' /\ CountersTyped' /\ DisbandingTyped' /\ PacketsTyped'
  BY <1>1 DEF IndInv, TypeOK, ClockTyped, CountersTyped, DisbandingTyped, PacketsTyped
<1>9. NothingOutlivesRoom' /\ RoomIdsFresh'
  BY <1>1, <1>2, <1>6, <1>7 DEF IndInv, NothingOutlivesRoom, RoomIdsFresh
<1>10. CountedIn(g)'
  <2>1. ListenersOfRoom'[g] = P \cup {who} /\ AllRoom'[g] = joined
    BY <1>1, <1>2, <1>6
  <2>2. /\ Cardinality(P \cup {who}) = Cardinality(P) + 1
        /\ Cardinality((P \cup {m}) \cup {who}) <= Cardinality(P \cup {m}) + 1
        /\ Cardinality(P) \in Nat /\ Cardinality(P \cup {m}) \in Nat
        /\ Cardinality((P \cup {m}) \cup {who}) \in Nat
    <3>1. IsFiniteSet(P) /\ IsFiniteSet(P \cup {m})
      BY <1>1, PeopleFinite
    <3>2. Cardinality(P \cup {who}) = Cardinality(P) + 1
      BY <1>1, <3>1, FS_AddElement
    <3>3. /\ IsFiniteSet((P \cup {m}) \cup {who})
          /\ Cardinality((P \cup {m}) \cup {who})
               \in {Cardinality(P \cup {m}), Cardinality(P \cup {m}) + 1}
      BY <3>1, FS_AddElement
    <3>4. /\ Cardinality(P) \in Nat /\ Cardinality(P \cup {m}) \in Nat
          /\ Cardinality((P \cup {m}) \cup {who}) \in Nat
      BY <3>1, <3>3, FS_CardinalityType
    <3> QED BY <3>2, <3>3, <3>4
  <2>3. (P \cup {who}) \cup {m} = (P \cup {m}) \cup {who}
    OBVIOUS
  <2>4. CountedIn(g) /\ room.now_members_number \in Nat
    BY <1>1, <1>2 DEF IndInv, MembersCounted, RoomInfo
  <2>5. CASE Undisbanded(g)
    BY <1>1, <1>5, <2>1, <2>2, <2>4, <2>5 DEF CountedIn, Undisbanded
  <2>6. CASE ~Undisbanded(g)
    <3>1. room.now_members_number >= Cardinality(P \cup {m})
      BY <2>4, <2>6 DEF CountedIn
    <3>2. joined.now_members_number >= Cardinality((P \cup {who}) \cup {m})
      <4>1. Cardinality((P \cup {who}) \cup {m}) = Cardinality((P \cup {m}) \cup {who})
        BY <2>3
      <4> HIDE DEF P, m, room
      <4> QED BY <1>5, <2>2, <2>4, <3>1, <4>1
    <3>3. ~Undisbanded(g)'
      BY <1>1, <2>6 DEF Undisbanded
    <3> QED BY <1>5, <2>1, <3>2, <3>3 DEF CountedIn
  <2> QED BY <2>5, <2>6
<1>11. MembersCounted'
  <2> SUFFICES ASSUME NEW h \in DOMAIN AllRoom, h # g PROVE CountedIn(h)'
    BY <1>7, <1>10 DEF MembersCounted
  <2>1. AllRoom'[h] = AllRoom[h] /\ ListenersOfRoom'[h] = ListenersOfRoom[h]
    BY <1>1, <1>6, RoomFacts
  <2>2. CountedIn(h)
    BY DEF IndInv, MembersCounted
  <2> QED BY <1>1, <2>1, <2>2 DEF CountedIn, Undisbanded
<1> QED BY <1>4, <1>6, <1>7, <1>8, <1>9, <1>11 DEF IndInv, TypeOK

\* exit of a room others stay in keeps the invariant: a quitter's share is taken
\* from what is not the manager's.
LEMMA ExitAmongOthersStep ==
  ASSUME IndInv, NEW who \in Users, NEW g, ExitAmongOthers(who, g)
  PROVE  IndInv'
<1> DEFINE room == AllRoom[g]
           amount == QuitShare(room)
           paid == [room EXCEPT !.total_balances = @ - amount]
<1>1. /\ g \in DOMAIN AllRoom /\ who \in ListenersOfRoom[g]
      /\ who # room.group_manager
      /\ Fits(free') /\ DOMAIN free' = DOMAIN free
      /\ UpdateRoom(g, RemoveSomeoneInRoom(paid, who))
      /\ ListenersOfRoom' = [ListenersOfRoom EXCEPT ![g] = @ \ {who}]
      /\ UNCHANGED treasury
  BY DEF ExitAmongOthers, InRoom
<1>2. /\ room \in RoomInfo /\ room.group_manager_balances <= room.total_balances
      /\ room.now_members_number \in Nat \ {0}
  BY <1>1, RoomFacts, NobodyAlone
<1>3. MoneyTyped'
  BY <1>1 DEF ExitAmongOthers, Fits, IndInv, TypeOK, MoneyTyped
<1>4. /\ room.total_balances - amount \in Balance
      /\ room.group_manager_balances <= room.total_balances - amount
  <2> DEFINE shared == room.total_balances - room.group_manager_balances
             share == shared \div room.now_members_number
  <2>1. shared \in Nat
    BY <1>2 DEF RoomInfo, Balance
  <2>2. share \in 0 .. shared
    BY <1>2, <2>1, DivBound
  <2>3. share \div 4 \in 0 .. share
    BY <2>1, <2>2, DivBound
  <2>4. amount = share \div 4
    BY DEF QuitShare
  <2> HIDE DEF share, amount
  <2> QED BY <1>2, <2>2, <2>3, <2>4, InputAssumption DEF RoomInfo, Balance
<1> HIDE DEF amount
<1>5. /\ paid \in RoomInfo /\ paid.group_manager = room.group_manager
      /\ paid.now_members_number = room.now_members_number
      /\ paid.group_manager_balances <= paid.total_balances
  BY <1>2, <1>4 DEF RoomInfo
<1> QED BY <1>1, <1>3, <1>5, LeaveStep

\* remove_someone keeps the invariant.
LEMMA RemoveSomeoneStep ==
  ASSUME IndInv, NEW g, NEW who \in Users, NEW by_root \in BOOLEAN,
         RemoveSomeone(g, who, by_root)
  PROVE  IndInv'
<1> DEFINE room == AllRoom[g]
           banned == [room EXCEPT
             !.black_list = @ \cup {who},
             !.last_remove_someone_block = IF by_root THEN now ELSE @]
<1>1. /\ g \in DOMAIN AllRoom /\ who \in ListenersOfRoom[g]
      /\ who # room.group_manager
      /\ UpdateRoom(g, RemoveSomeoneInRoom(banned, who))
      /\ ListenersOfRoom' = [ListenersOfRoom EXCEPT ![g] = @ \ {who}]
      /\ UNCHANGED money
  BY DEF RemoveSomeone, InRoom
<1>2. room \in RoomInfo /\ room.group_manager_balances <= room.total_balances
  BY <1>1, RoomFacts
<1>3. MoneyTyped' /\ now \in Nat
  BY <1>1 DEF IndInv, TypeOK, MoneyTyped, money, ClockTyped
<1>4. /\ banned \in RoomInfo /\ banned.group_manager = room.group_manager
      /\ banned.now_members_number = room.now_members_number
      /\ banned.group_manager_balances <= banned.total_balances
  BY <1>2, <1>3 DEF RoomInfo
<1> QED BY <1>1, <1>3, <1>4, LeaveStep

\* exit of the last member keeps the invariant: the room is gone with all that
\* was in it.
LEMMA ExitAsLastStep ==
  ASSUME IndInv, NEW who \in Users, NEW g, ExitAsLast(who, g)
  PROVE  IndInv'
<1> USE DEF ExitAsLast, clock, counters, disbanding
<1>1. /\ g \in DOMAIN AllRoom /\ g \notin DOMAIN PendingDisbandRooms
      /\ UNCHANGED <<clock, counters, treasury, PurchaseSummary, disbanding>>
  BY DEF InRoom, Pending
<1>2. AllRoom' = [h \in DOMAIN AllRoom \ {g} |-> AllRoom[h]]
  BY DEF Remove, Restrict
<1>3. RedPacketOfRoom' =
        [k \in DOMAIN RedPacketOfRoom \ PacketsOf(g) |-> RedPacketOfRoom[k]]
  BY DEF Remove, Restrict
<1>4. /\ ListenersOfRoom \in [RoomIds -> SUBSET Users] /\ g \in RoomIds
      /\ ListenersOfRoom' = [ListenersOfRoom EXCEPT ![g] = {}]
  BY <1>1, RoomFacts DEF IndInv, TypeOK, MembersTyped
<1>5. MoneyTyped'
  <2>1. free' \in [Users -> Balance]
    BY DEF Refund, Fits
  <2> QED BY <1>1, <2>1 DEF IndInv, TypeOK, MoneyTyped
<1>6. RoomsTyped' /\ ManagerFundsCovered'
  BY <1>2 DEF IndInv, TypeOK, RoomsTyped, ManagerFundsCovered, CoveredIn
<1>7. ClockTyped' /\ CountersTyped' /\ DisbandingTyped'
  BY <1>1 DEF IndInv, TypeOK, ClockTyped, CountersTyped, DisbandingTyped
<1>8. PacketsTyped' /\ MembersTyped'
  BY <1>1, <1>3, <1>4 DEF IndInv, TypeOK, PacketsTyped, MembersTyped
<1>9. NothingOutlivesRoom'
  BY <1>1, <1>2, <1>3, <1>4 DEF IndInv, NothingOutlivesRoom, PacketsOf
<1>10. RoomIdsFresh'
  BY <1>1, <1>2 DEF IndInv, RoomIdsFresh
<1>11. MembersCounted'
  <2> SUFFICES ASSUME NEW h \in DOMAIN AllRoom, h # g PROVE CountedIn(h)'
    BY <1>2 DEF MembersCounted
  <2>1. AllRoom'[h] = AllRoom[h] /\ ListenersOfRoom'[h] = ListenersOfRoom[h]
    BY <1>2, <1>4, RoomFacts
  <2>2. CountedIn(h)
    BY DEF IndInv, MembersCounted
  <2> QED BY <1>1, <2>1, <2>2 DEF CountedIn, Undisbanded
<1> QED BY <1>5, <1>6, <1>7, <1>8, <1>9, <1>10, <1>11 DEF IndInv, TypeOK

-----------------------------------------------------------------------------
(* Spending and voting.                                                    *)

\* Storing a vote in a room's record changes nothing else in it.
LEMMA VotesTyped ==
  ASSUME NEW room \in RoomInfo, NEW votes \in DisbandVote
  PROVE  /\ [room EXCEPT !.disband_vote = votes] \in RoomInfo
         /\ LET voted == [room EXCEPT !.disband_vote = votes]
            IN /\ voted.group_manager = room.group_manager
               /\ voted.now_members_number = room.now_members_number
               /\ voted.group_manager_balances = room.group_manager_balances
               /\ voted.total_balances = room.total_balances
BY DEF RoomInfo

\* An approval leaves a well typed vote.
LEMMA ApproveTyped ==
  ASSUME NEW votes \in DisbandVote, NEW who \in Users, NEW amount \in Balance,
         Approve(votes, who, amount).approve_total_amount \in Balance
  PROVE  Approve(votes, who, amount) \in DisbandVote
<1>1. SaturatingSub(votes.reject_total_amount, amount) \in Balance
  BY SubBalance DEF DisbandVote
<1> QED BY <1>1 DEF Approve, DisbandVote

\* A rejection leaves a well typed vote.
LEMMA RejectTyped ==
  ASSUME NEW votes \in DisbandVote, NEW who \in Users, NEW amount \in Balance,
         Reject(votes, who, amount).reject_total_amount \in Balance
  PROVE  Reject(votes, who, amount) \in DisbandVote
<1>1. SaturatingSub(votes.approve_total_amount, amount) \in Balance
  BY SubBalance DEF DisbandVote
<1> QED BY <1>1 DEF Reject, DisbandVote

\* A purchase of a voter leaves a well typed vote.
LEMMA WeightTyped ==
  ASSUME NEW votes \in DisbandVote, NEW who, NEW amount,
         AddWeight(votes, who, amount).approve_total_amount \in Balance,
         AddWeight(votes, who, amount).reject_total_amount \in Balance
  PROVE  AddWeight(votes, who, amount) \in DisbandVote
BY DEF AddWeight, DisbandVote

\* vote keeps the invariant, whether or not it ends the vote.
LEMMA VoteStep ==
  ASSUME IndInv, NEW who \in Users, NEW g, NEW approves \in BOOLEAN,
         Vote(who, g, approves)
  PROVE  IndInv'
<1> DEFINE room == AllRoom[g]
           amount == room.consume[who]
           votes == IF approves THEN Approve(room.disband_vote, who, amount)
                                ELSE Reject(room.disband_vote, who, amount)
<1>1. /\ g \in DOMAIN AllRoom
      /\ votes.approve_total_amount \in Balance
      /\ votes.reject_total_amount \in Balance
      /\ JudgeAndInsert(g, [room EXCEPT !.disband_vote = votes], free)
      /\ UNCHANGED <<clock, counters, treasury, PurchaseSummary>>
  BY DEF Vote, InRoom
<1>2. room \in RoomInfo /\ room.group_manager_balances <= room.total_balances
  BY <1>1, RoomFacts
<1>3. amount \in Balance /\ room.disband_vote \in DisbandVote
  BY <1>2 DEF RoomInfo
<1>4. votes \in DisbandVote
  BY <1>1, <1>3, ApproveTyped, RejectTyped
<1>5. free \in [Users -> Balance] /\ treasury' \in Nat
  BY <1>1 DEF IndInv, TypeOK, MoneyTyped
<1> DEFINE voted == [room EXCEPT !.disband_vote = votes]
<1>6. /\ voted \in RoomInfo
      /\ voted.group_manager = AllRoom[g].group_manager
      /\ voted.now_members_number = AllRoom[g].now_members_number
      /\ voted.group_manager_balances <= voted.total_balances
  <2> HIDE DEF votes
  <2> QED BY <1>2, <1>4, VotesTyped
<1> HIDE DEF voted
<1>7. JudgeAndInsert(g, voted, free)
  BY <1>1 DEF voted
<1> QED BY <1>1, <1>5, <1>6, <1>7, JudgeStep

\* ask_for_disband_room keeps the invariant, whether it starts a vote or disbands
\* the room at once.
LEMMA AskStep ==
  ASSUME IndInv, NEW who \in Users, NEW g, AskForDisbandRoom(who, g)
  PROVE  IndInv'
<1> DEFINE room == AllRoom[g]
           payment == Percent(10, room.create_payment)
           votes == Approve(NoVotes, who, room.consume[who])
           asked == [room EXCEPT !.disband_vote = votes,
                                 !.disband_vote_end_block = now + VoteExpire]
           balances == [free EXCEPT ![who] = free[who] - payment]
<1>1. /\ g \in DOMAIN AllRoom
      /\ CanPay(who, payment)
      /\ treasury' = treasury + payment
      /\ JudgeAndInsert(g, asked, balances)
      /\ UNCHANGED <<clock, counters, PurchaseSummary>>
  BY DEF AskForDisbandRoom, InRoom
<1>2. /\ room \in RoomInfo /\ room.group_manager_balances <= room.total_balances
      /\ room.consume[who] \in Balance /\ payment \in Nat
  BY <1>1, RoomFacts, PercentNat DEF RoomInfo, Balance
<1>3. votes \in DisbandVote
  <2>1. votes.approve_total_amount \in Balance
    BY <1>2 DEF Approve, NoVotes, Balance
  <2> QED BY <1>2, <2>1, NoVotesTyped, ApproveTyped
<1>4. now + VoteExpire \in Nat
  BY DurationAssumption DEF IndInv, TypeOK, ClockTyped
<1>5. /\ asked \in RoomInfo
      /\ asked.group_manager = AllRoom[g].group_manager
      /\ asked.now_members_number = AllRoom[g].now_members_number
      /\ asked.group_manager_balances <= asked.total_balances
  <2> HIDE DEF votes
  <2> QED BY <1>2, <1>3, <1>4 DEF RoomInfo
<1>6. free[who] - payment \in Balance
  BY <1>1, <1>2, PaidBalance
<1>7. balances \in [Users -> Balance] /\ treasury' \in Nat
  BY <1>1, <1>2, <1>6 DEF IndInv, TypeOK, MoneyTyped
<1> HIDE DEF asked, balances
<1> QED BY <1>1, <1>5, <1>7, JudgeStep

\* buy_props_in_room and buy_audio_in_room keep the invariant, whether or not
\* they end a vote.
LEMMA BuyStep ==
  ASSUME IndInv, NEW call, NEW item \in {"props", "audio"}, NEW who \in Users,
         NEW g, NEW quantity \in Quantities, Buy(call, item, who, g, quantity)
  PROVE  IndInv'
<1> DEFINE room == AllRoom[g]
           amount == quantity * settings.price[item]
           paid == [room EXCEPT !.total_balances = @ + amount,
                                !.consume[who] = @ + amount]
           votes == AddWeight(room.disband_vote, who, amount)
           counts == IsVoting(g, room) /\ HasVoted(room, who)
           balances == [free EXCEPT ![who] = free[who] - amount]
<1>1. /\ g \in DOMAIN AllRoom
      /\ CanPay(who, amount)
      /\ paid.total_balances \in Balance /\ paid.consume[who] \in Balance
      /\ \/ /\ counts
            /\ votes.approve_total_amount \in Balance
            /\ votes.reject_total_amount \in Balance
            /\ JudgeAndInsert(g, [paid EXCEPT !.disband_vote = votes], balances)
         \/ /\ ~counts
            /\ free' = balances
            /\ AllRoom' = [AllRoom EXCEPT ![g] = paid]
            /\ UNCHANGED <<ListenersOfRoom, disbanding, RedPacketOfRoom>>
      /\ UNCHANGED <<clock, counters, treasury, PurchaseSummary>>
  BY DEF Buy, InRoom
<1>2. room \in RoomInfo /\ room.group_manager_balances <= room.total_balances
  BY <1>1, RoomFacts
<1>3. amount \in Nat
  <2>1. settings.price[item] \in Nat /\ quantity \in Nat
    BY InputAssumption DEF IndInv, TypeOK, ClockTyped, Settings, Balance
  <2> QED BY <2>1, MulNat
<1> HIDE DEF amount
<1>4. paid = [room EXCEPT !.total_balances = room.total_balances + amount,
                          !.consume = [room.consume EXCEPT ![who] = room.consume[who] + amount]]
  BY <1>2 DEF RoomInfo
<1>5. /\ paid \in RoomInfo
      /\ paid.group_manager = AllRoom[g].group_manager
      /\ paid.now_members_number = AllRoom[g].now_members_number
      /\ paid.group_manager_balances <= paid.total_balances
  <2>1. room.consume[who] + amount \in Balance
    BY <1>1, <1>2 DEF RoomInfo
  <2>2. [room.consume EXCEPT ![who] = room.consume[who] + amount] \in [Users -> Balance]
    BY <1>2, <2>1 DEF RoomInfo
  <2>3. /\ room.total_balances + amount \in Balance
        /\ room.group_manager_balances <= room.total_balances + amount
    BY <1>1, <1>2, <1>3, <1>4 DEF RoomInfo, Balance
  <2> HIDE DEF paid
  <2> QED BY <1>2, <1>4, <2>2, <2>3 DEF RoomInfo
<1>6. balances \in [Users -> Balance] /\ treasury' \in Nat
  <2>1. free[who] - amount \in Balance
    BY <1>1, <1>3, PaidBalance
  <2> QED BY <1>1, <2>1 DEF IndInv, TypeOK, MoneyTyped
<1>7. CASE counts
  <2> DEFINE voted == [paid EXCEPT !.disband_vote = votes]
  <2>1. JudgeAndInsert(g, voted, balances) /\ votes \in DisbandVote
    BY <1>1, <1>2, <1>7, WeightTyped DEF RoomInfo
  <2>2. /\ voted \in RoomInfo
        /\ voted.group_manager = AllRoom[g].group_manager
        /\ voted.now_members_number = AllRoom[g].now_members_number
        /\ voted.group_manager_balances <= voted.total_balances
    <3> HIDE DEF votes, paid
    <3> QED BY <1>5, <2>1, VotesTyped
  <2> HIDE DEF voted, balances
  <2> QED BY <1>1, <1>6, <2>1, <2>2, JudgeStep
<1>8. CASE ~counts
  <2>1. MoneyTyped'
    BY <1>1, <1>6, <1>8 DEF MoneyTyped
  <2>2. UpdateRoom(g, paid) /\ UNCHANGED ListenersOfRoom
    BY <1>1, <1>8 DEF UpdateRoom
  <2> HIDE DEF paid
  <2> QED BY <1>1, <1>5, <2>1, <2>2, RecordStep
<1> QED BY <1>7, <1>8

-----------------------------------------------------------------------------
(* Rewards.                                                                *)

\* The room's part of a reward is at least the manager's, so that what is the
\* manager's of a room's balance stays covered.
LEMMA RewardCovered ==
  ASSUME NEW room \in RoomInfo, NEW reward \in Nat,
         room.total_balances + Percent(RoomProportion, reward) \in Balance
  PROVE  /\ RewardedBalances(room, reward) \in Balance
         /\ room.total_balances <= RewardedBalances(room, reward)
<1>1. /\ ManagerProportion \in Nat /\ RoomProportion \in Nat
      /\ ManagerProportion <= RoomProportion
  BY ProportionAssumption
<1>2. /\ Percent(ManagerProportion, reward) \in Nat
      /\ Percent(RoomProportion, reward) \in Nat
      /\ Percent(ManagerProportion, reward) <= Percent(RoomProportion, reward)
  BY <1>1, PercentNat, PercentMonotone
<1>3. room.total_balances \in Nat
  BY DEF RoomInfo, Balance
<1> QED BY <1>2, <1>3, InputAssumption DEF RewardedBalances, SaturatingSub, Balance

\* manager_get_reward keeps the invariant.
LEMMA RewardStep ==
  ASSUME IndInv, NEW g, ManagerGetReward(g)
  PROVE  IndInv'
<1> DEFINE room == AllRoom[g]
           reward == TotalReward(room)
           last == room.last_block_of_get_the_reward + RewardPeriods(room) * RewardDuration
           rewarded == [room EXCEPT !.total_balances = RewardedBalances(room, reward),
                                    !.last_block_of_get_the_reward = last]
<1>1. /\ g \in DOMAIN AllRoom /\ reward \in Balance
      /\ Fits(free') /\ DOMAIN free' = DOMAIN free
      /\ free' = [free EXCEPT ![room.group_manager] =
                     @ + Percent(ManagerProportion, reward)]
      /\ room.total_balances + Percent(RoomProportion, reward) \in Balance
      /\ UpdateRoom(g, rewarded)
      /\ UNCHANGED <<treasury, ListenersOfRoom>>
  BY DEF ManagerGetReward, RoomOrigin
<1>2. room \in RoomInfo /\ room.group_manager_balances <= room.total_balances
  BY <1>1, RoomFacts
<1> HIDE DEF reward
<1>3. MoneyTyped'
  BY <1>1 DEF Fits, IndInv, TypeOK, MoneyTyped
<1>4. /\ RewardedBalances(room, reward) \in Balance
      /\ room.total_balances <= RewardedBalances(room, reward)
  BY <1>1, <1>2, RewardCovered DEF Balance
<1>5. last \in Nat
  <2>1. SaturatingSub(now, room.last_block_of_get_the_reward) \in Nat
    BY <1>2 DEF SaturatingSub, RoomInfo, IndInv, TypeOK, ClockTyped
  <2>2. RewardPeriods(room) \in Nat /\ RewardDuration \in Nat
    BY <2>1, DurationAssumption, DivBound DEF RewardPeriods
  <2>3. RewardPeriods(room) * RewardDuration \in Nat
    BY <2>2, MulNat
  <2> QED BY <1>2, <2>3 DEF RoomInfo
<1> HIDE DEF last
<1>6. /\ rewarded \in RoomInfo
      /\ rewarded.group_manager = AllRoom[g].group_manager
      /\ rewarded.now_members_number = AllRoom[g].now_members_number
      /\ rewarded.group_manager_balances <= rewarded.total_balances
  <2>1. room.group_manager_balances <= RewardedBalances(room, reward)
    BY <1>2, <1>4, InputAssumption DEF RoomInfo, Balance
  <2> QED BY <1>2, <1>4, <1>5, <2>1 DEF RoomInfo
<1> HIDE DEF rewarded
<1> QED BY <1>1, <1>3, <1>6, RecordStep

\* A member has a natural number of entries of a room to be paid.
LEMMA SharesNat ==
  ASSUME IndInv, NEW who \in Users, NEW g
  PROVE  Cardinality(NotGetEntries(who, g)) \in Nat
<1>1. PurchaseSummary[who] \in Seq(Membership)
  BY DEF IndInv, TypeOK, MembersTyped
<1>2. /\ DOMAIN PurchaseSummary[who] = 1 .. Len(PurchaseSummary[who])
      /\ Len(PurchaseSummary[who]) \in Nat
  BY <1>1
<1>3. IsFiniteSet(DOMAIN PurchaseSummary[who])
  BY <1>2, FS_Interval
<1>4. NotGetEntries(who, g) \subseteq DOMAIN PurchaseSummary[who]
  BY DEF NotGetEntries
<1> QED BY <1>3, <1>4, FS_Subset, FS_CardinalityType

\* pay_out marks entries and keeps them entries.
LEMMA MarkedTyped ==
  ASSUME NEW entries \in Seq(Membership), NEW due, NEW found
  PROVE  MarkPaid(entries, due, found) \in Seq(Membership)
<1> DEFINE status(i) == IF entries[i].room \in found THEN "Get" ELSE "Expire"
           first(i) == /\ entries[i].room \in due
                       /\ \A j \in 1 .. i - 1 : entries[j].room # entries[i].room
           mark(i) == IF first(i) THEN [entries[i] EXCEPT !.status = status(i)]
                                  ELSE entries[i]
<1>1. ASSUME NEW i \in 1 .. Len(entries) PROVE mark(i) \in Membership
  <2>1. entries[i] \in Membership
    OBVIOUS
  <2>2. status(i) \in {"NotGet", "Get", "Expire"}
    OBVIOUS
  <2> HIDE DEF status, first
  <2> QED BY <2>1, <2>2 DEF Membership
<1>2. MarkPaid(entries, due, found) = [i \in 1 .. Len(entries) |-> mark(i)]
  BY DEF MarkPaid
<1> HIDE DEF mark
<1>3. [i \in 1 .. Len(entries) |-> mark(i)] \in [1 .. Len(entries) -> Membership]
  BY <1>1
<1>4. Len(entries) \in Nat
  OBVIOUS
<1> QED BY <1>2, <1>3, <1>4, SeqDef

\* A reward of which pay_out paid shares is well typed when the total paid is a
\* balance.
LEMMA PaidTyped ==
  ASSUME NEW info \in RoomRewardInfo, NEW shares \in Nat,
         PaidShares(info, shares).already_get_reward \in Balance
  PROVE  PaidShares(info, shares) \in RoomRewardInfo
<1> DEFINE reward == info.already_get_reward + shares * info.per_man_reward
<1>1. PaidShares(info, shares) =
        [info EXCEPT !.already_get_count = info.already_get_count + shares,
                     !.already_get_reward = reward]
  BY DEF PaidShares
<1>2. info.already_get_count + shares \in Nat
  BY DEF RoomRewardInfo
<1> HIDE DEF reward
<1>3. reward \in Balance
  BY <1>1 DEF RoomRewardInfo
<1> QED BY <1>1, <1>2, <1>3 DEF RoomRewardInfo

\* pay_out keeps the invariant: it changes listeners only of rooms that are gone.
LEMMA PayOutStep ==
  ASSUME IndInv, NEW who \in Users, PayOut(who)
  PROVE  IndInv'
<1> USE DEF clock, counters
<1> DEFINE due == {g \in RoomIds \ DOMAIN AllRoom : NotGetEntries(who, g) # {}}
           found == {g \in due : RewardSessions(g) # {}}
           shares(g) == Cardinality(NotGetEntries(who, g))
           paid == {LatestReward(g) : g \in found}
<1>1. /\ Fits(free') /\ DOMAIN free' = DOMAIN free
      /\ \A k \in paid : InfoOfDisbandedRoom'[k].already_get_reward \in Balance
      /\ InfoOfDisbandedRoom' =
           [k \in DOMAIN InfoOfDisbandedRoom |->
              IF k \in paid THEN PaidShares(InfoOfDisbandedRoom[k], shares(k[2]))
                            ELSE InfoOfDisbandedRoom[k]]
      /\ PurchaseSummary' =
           [PurchaseSummary EXCEPT ![who] = MarkPaid(PurchaseSummary[who], due, found)]
      /\ UNCHANGED <<clock, counters, treasury, AllRoom, PendingDisbandRooms,
                      RedPacketOfRoom>>
  BY DEF PayOut
<1>2. MoneyTyped'
  BY <1>1 DEF PayOut, Fits, IndInv, TypeOK, MoneyTyped
<1>3. ListenersOfRoom' = ListenersOfRoom
  <2>1. \A g \in found : ListenersOfRoom[g] = {}
    BY DEF IndInv, NothingOutlivesRoom
  <2>2. ListenersOfRoom \in [RoomIds -> SUBSET Users]
    BY DEF IndInv, TypeOK, MembersTyped
  <2>3. ListenersOfRoom' =
          [g \in RoomIds |->
             IF g \notin found THEN ListenersOfRoom[g]
             ELSE LET info == InfoOfDisbandedRoom[LatestReward(g)]
                  IN IF info.total_person - info.already_get_count \in 1 .. shares(g)
                     THEN {} ELSE ListenersOfRoom[g] \ {who}]
    BY DEF PayOut
  <2> HIDE DEF found, shares
  <2> QED BY <2>1, <2>2, <2>3
<1>4. MembersTyped'
  BY <1>1, <1>3, MarkedTyped DEF IndInv, TypeOK, MembersTyped
<1>5. DisbandingTyped'
  <2> SUFFICES ASSUME NEW k \in DOMAIN InfoOfDisbandedRoom
               PROVE  InfoOfDisbandedRoom'[k] \in RoomRewardInfo
    BY <1>1 DEF IndInv, TypeOK, DisbandingTyped
  <2> DEFINE info == InfoOfDisbandedRoom[k]
  <2>1. info \in RoomRewardInfo /\ shares(k[2]) \in Nat
    BY SharesNat DEF IndInv, TypeOK, DisbandingTyped
  <2> HIDE DEF shares, paid
  <2>2. CASE k \in paid
    <3>1. InfoOfDisbandedRoom'[k] = PaidShares(info, shares(k[2]))
      BY <1>1, <2>2
    <3>2. PaidShares(info, shares(k[2])).already_get_reward \in Balance
      BY <1>1, <2>2, <3>1
    <3> QED BY <2>1, <3>1, <3>2, PaidTyped
  <2>3. CASE k \notin paid
    BY <1>1, <2>1, <2>3
  <2> QED BY <2>2, <2>3
<1>6. ClockTyped' /\ CountersTyped' /\ RoomsTyped' /\ PacketsTyped'
  BY <1>1 DEF IndInv, TypeOK, ClockTyped, CountersTyped, RoomsTyped, PacketsTyped
<1>7. ManagerFundsCovered' /\ NothingOutlivesRoom' /\ RoomIdsFresh'
  BY <1>1, <1>3 DEF IndInv, ManagerFundsCovered, CoveredIn, NothingOutlivesRoom, RoomIdsFresh
<1>8. MembersCounted'
  <2>1. \A g : Undisbanded(g)' <=> Undisbanded(g)
    BY <1>1 DEF Undisbanded
  <2> SUFFICES ASSUME NEW g \in DOMAIN AllRoom PROVE CountedIn(g)'
    BY <1>1 DEF MembersCounted
  <2>2. CountedIn(g)
    BY DEF IndInv, MembersCounted
  <2> QED BY <1>1, <1>3, <2>1, <2>2 DEF CountedIn
<1> QED BY <1>2, <1>4, <1>5, <1>6, <1>7, <1>8 DEF IndInv, TypeOK

-----------------------------------------------------------------------------
(* Red packets.                                                            *)

\* send_redpacket_in_room keeps the invariant.
LEMMA SendStep ==
  ASSUME IndInv, NEW who \in Users, NEW g, NEW lucky \in LuckyNumbers,
         NEW amount \in PacketAmounts, SendRedpacketInRoom(who, g, lucky, amount)
  PROVE  IndInv'
<1> DEFINE packet ==
             [boss |-> who, total |-> amount, lucky_man_number |-> lucky,
              already_get_man |-> {}, min_amount_of_per_man |-> settings.min_redpack,
              already_get_amount |-> 0, end_time |-> now + RedPackExpire]
           key == <<g, NextRedPacketId>>
<1>1. /\ g \in DOMAIN AllRoom /\ CanPay(who, amount)
      /\ free' = [free EXCEPT ![who] = free[who] - amount]
      /\ RedPacketOfRoom' = Put(RedPacketOfRoom, key, packet)
      /\ NextRedPacketId' = NextRedPacketId + 1
      /\ UNCHANGED <<clock, NextGroupId, treasury, AllRoom, members, disbanding>>
  BY DEF SendRedpacketInRoom, InRoom
<1>2. amount \in Balance /\ amount \in Nat /\ lucky \in Nat
  BY InputAssumption DEF Balance
<1>3. MoneyTyped'
  <2>1. free[who] - amount \in Balance
    BY <1>1, <1>2, PaidBalance
  <2> QED BY <1>1, <2>1 DEF IndInv, TypeOK, MoneyTyped
<1>4. CountersTyped'
  BY <1>1 DEF IndInv, TypeOK, CountersTyped
<1>5. key \in RoomIds \X Nat /\ key[1] = g
  BY <1>1, RoomFacts DEF IndInv, TypeOK, CountersTyped
<1>6. packet \in RedPacket
  <2>1. settings.min_redpack \in Balance /\ now \in Nat
    BY DEF IndInv, TypeOK, ClockTyped, Settings
  <2>2. now + RedPackExpire \in Nat /\ 0 \in Balance
    BY <2>1, DurationAssumption, InputAssumption DEF Balance
  <2> QED BY <1>2, <2>1, <2>2 DEF RedPacket
<1> HIDE DEF key, packet
<1>7. PacketsTyped'
  BY <1>1, <1>5, <1>6 DEF IndInv, TypeOK, PacketsTyped, Put
<1>8. \A k \in DOMAIN RedPacketOfRoom' : k[1] \in DOMAIN AllRoom
  BY <1>1, <1>5 DEF Put, IndInv, NothingOutlivesRoom
<1> QED BY <1>1, <1>3, <1>4, <1>7, <1>8, PacketStep

\* get_redpacket_in_room keeps the invariant.
LEMMA GetStep ==
  ASSUME IndInv, NEW g, NEW id, NEW who \in Users, NEW amount \in PacketAmounts,
         GetRedpacketInRoom(g, id, who, amount)
  PROVE  IndInv'
<1> DEFINE key == <<g, id>>
           packet == RedPacketOfRoom[key]
           got == [packet EXCEPT !.already_get_man = @ \cup {who},
                                 !.already_get_amount = @ + amount]
<1>1. /\ key \in DOMAIN RedPacketOfRoom
      /\ amount <= Remain(packet)
      /\ Fits(free') /\ DOMAIN free' = DOMAIN free
      /\ \/ RedPacketOfRoom' = Remove(RedPacketOfRoom, {key})
         \/ RedPacketOfRoom' = [RedPacketOfRoom EXCEPT ![key] = got]
      /\ UNCHANGED <<clock, counters, treasury, AllRoom, members, disbanding>>
  BY DEF GetRedpacketInRoom, Claimable
<1>2. packet \in RedPacket /\ amount \in Balance
  BY <1>1, InputAssumption DEF IndInv, TypeOK, PacketsTyped
<1>3. MoneyTyped'
  BY <1>1 DEF GetRedpacketInRoom, Fits, IndInv, TypeOK, MoneyTyped
<1>4. CountersTyped'
  BY <1>1 DEF IndInv, TypeOK, CountersTyped, counters
<1>5. got \in RedPacket
  <2>1. packet.already_get_amount + amount \in Balance
    BY <1>1, <1>2, InputAssumption DEF Remain, SaturatingSub, RedPacket, Balance
  <2> QED BY <1>2, <2>1 DEF RedPacket
<1> HIDE DEF got, key
<1>6. CASE RedPacketOfRoom' = Remove(RedPacketOfRoom, {key})
  <2>1. RedPacketOfRoom' = [k \in DOMAIN RedPacketOfRoom \ {key} |-> RedPacketOfRoom[k]]
    BY <1>6 DEF Remove, Restrict
  <2>2. PacketsTyped' /\ \A k \in DOMAIN RedPacketOfRoom' : k[1] \in DOMAIN AllRoom
    BY <2>1 DEF IndInv, TypeOK, PacketsTyped, NothingOutlivesRoom
  <2> QED BY <1>1, <1>3, <1>4, <2>2, PacketStep DEF counters
<1>7. CASE RedPacketOfRoom' = [RedPacketOfRoom EXCEPT ![key] = got]
  <2>1. PacketsTyped' /\ \A k \in DOMAIN RedPacketOfRoom' : k[1] \in DOMAIN AllRoom
    BY <1>1, <1>5, <1>7 DEF IndInv, TypeOK, PacketsTyped, NothingOutlivesRoom
  <2> QED BY <1>1, <1>3, <1>4, <2>1, PacketStep DEF counters
<1> QED BY <1>1, <1>6, <1>7

\* give_back_expired_redpacket keeps the invariant.
LEMMA GiveBackStep ==
  ASSUME IndInv, NEW g, GiveBackExpiredRedpacket(g)
  PROVE  IndInv'
<1> DEFINE expired == ExpiredPacketsOf(g)
<1>1. /\ free' = Refund(free, expired) /\ Fits(free')
      /\ RedPacketOfRoom' = Remove(RedPacketOfRoom, expired)
      /\ UNCHANGED <<clock, counters, treasury, AllRoom, members, disbanding>>
  BY DEF GiveBackExpiredRedpacket
<1> HIDE DEF expired
<1>2. MoneyTyped'
  <2>1. free' \in [Users -> Balance]
    BY <1>1 DEF Refund, Fits
  <2> QED BY <1>1, <2>1 DEF IndInv, TypeOK, MoneyTyped
<1>3. RedPacketOfRoom' = [k \in DOMAIN RedPacketOfRoom \ expired |-> RedPacketOfRoom[k]]
  BY <1>1 DEF Remove, Restrict
<1>4. PacketsTyped' /\ \A k \in DOMAIN RedPacketOfRoom' : k[1] \in DOMAIN AllRoom
  BY <1>3 DEF IndInv, TypeOK, PacketsTyped, NothingOutlivesRoom
<1>5. CountersTyped'
  BY <1>1 DEF IndInv, TypeOK, CountersTyped, counters
<1> QED BY <1>1, <1>2, <1>4, <1>5, PacketStep DEF counters

-----------------------------------------------------------------------------
(* What the manager, the council, the room treasury and root do.           *)

\* One of the setters of the manager and the council.
SetterCalled(g) ==
  \/ \E council \in SUBSET Users : SetCouncilMembers(g, council)
  \/ \E who \in Users : \/ AddCouncilMember(g, who)
                        \/ RemoveCouncilMember(g, who)
                        \/ RemoveSomeoneFromBlacklist(g, who)
  \/ \E cost \in JoinCosts : UpdateJoinCost(g, cost)
  \/ \E private \in BOOLEAN : SetRoomPrivacy(g, private)

\* Such a call stores the record of its room with another council, black list,
\* cost or privacy, and that is all.
LEMMA SetterRecord ==
  ASSUME IndInv, NEW g, SetterCalled(g)
  PROVE  \E room :
           /\ g \in DOMAIN AllRoom
           /\ UpdateRoom(g, room)
           /\ UNCHANGED <<money, ListenersOfRoom>>
           /\ \/ \E council \in SUBSET Users : room = [AllRoom[g] EXCEPT !.council = council]
              \/ \E black_list \in SUBSET Users :
                   room = [AllRoom[g] EXCEPT !.black_list = black_list]
              \/ \E cost \in JoinCosts : room = [AllRoom[g] EXCEPT !.join_cost = cost]
              \/ \E private \in BOOLEAN : room = [AllRoom[g] EXCEPT !.is_private = private]
<1> DEFINE old == AllRoom[g]
<1>1. g \in DOMAIN AllRoom
  BY DEF SetterCalled, SetCouncilMembers, AddCouncilMember, RemoveCouncilMember,
         RemoveSomeoneFromBlacklist, UpdateJoinCost, SetRoomPrivacy, RoomOrigin
<1>2. old.council \subseteq Users /\ old.black_list \subseteq Users
  BY <1>1, RoomFacts DEF RoomInfo
<1>3. CASE \E council \in SUBSET Users : SetCouncilMembers(g, council)
  BY <1>1, <1>3 DEF SetCouncilMembers
<1>4. CASE \E who \in Users : AddCouncilMember(g, who)
  <2>1. PICK who \in Users : AddCouncilMember(g, who)
    BY <1>4
  <2>2. old.council \cup {who} \in SUBSET Users
    BY <1>2
  <2> QED BY <1>1, <2>1, <2>2 DEF AddCouncilMember
<1>5. CASE \E who \in Users : RemoveCouncilMember(g, who)
  <2>1. PICK who \in Users : RemoveCouncilMember(g, who)
    BY <1>5
  <2>2. old.council \ {who} \in SUBSET Users
    BY <1>2
  <2> QED BY <1>1, <2>1, <2>2 DEF RemoveCouncilMember
<1>6. CASE \E who \in Users : RemoveSomeoneFromBlacklist(g, who)
  <2>1. PICK who \in Users : RemoveSomeoneFromBlacklist(g, who)
    BY <1>6
  <2>2. old.black_list \ {who} \in SUBSET Users
    BY <1>2
  <2> QED BY <1>1, <2>1, <2>2 DEF RemoveSomeoneFromBlacklist
<1>7. CASE \E cost \in JoinCosts : UpdateJoinCost(g, cost)
  BY <1>1, <1>7 DEF UpdateJoinCost
<1>8. CASE \E private \in BOOLEAN : SetRoomPrivacy(g, private)
  BY <1>1, <1>8 DEF SetRoomPrivacy
<1> QED BY <1>3, <1>4, <1>5, <1>6, <1>7, <1>8 DEF SetterCalled

\* The setters keep the invariant.
LEMMA ManagerStep ==
  ASSUME IndInv, NEW g, SetterCalled(g)
  PROVE  IndInv'
<1>1. PICK room :
        /\ g \in DOMAIN AllRoom
        /\ UpdateRoom(g, room)
        /\ UNCHANGED <<money, ListenersOfRoom>>
        /\ \/ \E council \in SUBSET Users : room = [AllRoom[g] EXCEPT !.council = council]
           \/ \E black_list \in SUBSET Users :
                room = [AllRoom[g] EXCEPT !.black_list = black_list]
           \/ \E cost \in JoinCosts : room = [AllRoom[g] EXCEPT !.join_cost = cost]
           \/ \E private \in BOOLEAN : room = [AllRoom[g] EXCEPT !.is_private = private]
  BY SetterRecord
<1>2. /\ AllRoom[g] \in RoomInfo
      /\ AllRoom[g].group_manager_balances <= AllRoom[g].total_balances
  BY <1>1, RoomFacts
<1>3. /\ room \in RoomInfo
      /\ room.group_manager = AllRoom[g].group_manager
      /\ room.now_members_number = AllRoom[g].now_members_number
      /\ room.group_manager_balances <= room.total_balances
  BY <1>1, <1>2, InputAssumption DEF RoomInfo
<1>4. MoneyTyped'
  BY <1>1 DEF IndInv, TypeOK, MoneyTyped, money
<1> QED BY <1>1, <1>3, <1>4, RecordStep

\* set_max_number_for_room_members keeps the invariant.
LEMMA SetMaxStep ==
  ASSUME IndInv, NEW g, NEW new_max \in MemberLimits,
         SetMaxNumberForRoomMembers(g, new_max)
  PROVE  IndInv'
<1> DEFINE room == AllRoom[g]
           new_amount == settings.create_cost[MembersConvertType(new_max)]
           old_amount == settings.create_cost[MembersConvertType(room.max_members)]
           add_amount == SaturatingSub(new_amount, old_amount)
           resized == [room EXCEPT !.max_members = new_max, !.create_payment = new_amount]
           manager == room.group_manager
<1>1. /\ g \in DOMAIN AllRoom /\ CanPay(manager, add_amount)
      /\ free' = [free EXCEPT ![manager] = free[manager] - add_amount]
      /\ treasury' = treasury + add_amount
      /\ UpdateRoom(g, resized) /\ UNCHANGED ListenersOfRoom
  BY DEF SetMaxNumberForRoomMembers, RoomOrigin
<1>2. /\ room \in RoomInfo /\ room.group_manager_balances <= room.total_balances
      /\ manager \in Users
  BY <1>1, RoomFacts DEF RoomInfo
<1>3. new_amount \in Balance /\ old_amount \in Balance
  BY SizesTyped DEF IndInv, TypeOK, ClockTyped, Settings
<1> HIDE DEF new_amount, old_amount
<1>4. add_amount \in Nat
  <2>1. add_amount \in Balance
    BY <1>3, SubBalance
  <2> HIDE DEF add_amount
  <2> QED BY <2>1 DEF Balance
<1> HIDE DEF add_amount
<1>5. MoneyTyped'
  <2>1. free[manager] - add_amount \in Balance
    BY <1>1, <1>2, <1>4, PaidBalance
  <2> HIDE DEF manager
  <2> QED BY <1>1, <1>2, <1>4, <2>1 DEF IndInv, TypeOK, MoneyTyped
<1>6. /\ resized \in RoomInfo
      /\ resized.group_manager = AllRoom[g].group_manager
      /\ resized.now_members_number = AllRoom[g].now_members_number
      /\ resized.group_manager_balances <= resized.total_balances
  BY <1>2, <1>3, InputAssumption DEF RoomInfo
<1> HIDE DEF resized
<1> QED BY <1>1, <1>5, <1>6, RecordStep

\* sub_room_free_amount keeps the invariant: the room treasury takes only what is
\* not the manager's.
LEMMA SubFreeStep ==
  ASSUME IndInv, NEW g, NEW amount \in PacketAmounts, SubRoomFreeAmount(g, amount)
  PROVE  IndInv'
<1> DEFINE room == AllRoom[g]
           spent == [room EXCEPT !.total_balances = @ - amount]
<1>1. /\ g \in DOMAIN AllRoom /\ RoomFreeAmount(room) >= amount
      /\ UpdateRoom(g, spent) /\ UNCHANGED <<money, ListenersOfRoom>>
  BY DEF SubRoomFreeAmount
<1>2. /\ room \in RoomInfo /\ room.group_manager_balances <= room.total_balances
      /\ amount \in Balance
  BY <1>1, RoomFacts, InputAssumption
<1>3. /\ room.total_balances - amount \in Balance
      /\ room.group_manager_balances <= room.total_balances - amount
  BY <1>1, <1>2, InputAssumption DEF RoomFreeAmount, SaturatingSub, RoomInfo, Balance
<1>4. /\ spent \in RoomInfo
      /\ spent.group_manager = AllRoom[g].group_manager
      /\ spent.now_members_number = AllRoom[g].now_members_number
      /\ spent.group_manager_balances <= spent.total_balances
  BY <1>2, <1>3 DEF RoomInfo
<1>5. MoneyTyped'
  BY <1>1 DEF IndInv, TypeOK, MoneyTyped, money
<1> HIDE DEF spent
<1> QED BY <1>1, <1>4, <1>5, RecordStep

\* What root sets keeps the invariant: the stored prices and intervals stay typed.
LEMMA RootStep == ASSUME IndInv, RootNext PROVE IndInv'
<1>1. settings \in Settings /\ now \in Nat
  BY DEF IndInv, TypeOK, ClockTyped
<1>2. \A max : MembersConvertType(max) \in RoomSizes
  BY SizesTyped
<1>3. CostChoices \subseteq Balance /\ IntervalChoices \subseteq Nat
      /\ SizesInUse \subseteq RoomSizes
  BY <1>2, InputAssumption DEF SizesInUse
<1>4. PICK call, new : ChangeSettings(call, new) /\ new \in Settings
  <2>1. CASE \E size \in SizesInUse, amount \in CostChoices : SetCreateCost(size, amount)
    <3>1. PICK size \in SizesInUse, amount \in CostChoices : SetCreateCost(size, amount)
      BY <2>1
    <3>2. [settings EXCEPT !.create_cost[size] = amount] \in Settings
      BY <1>1, <1>3 DEF Settings
    <3> QED BY <3>1, <3>2 DEF SetCreateCost
  <2>2. CASE \E size \in SizesInUse, interval \in IntervalChoices :
               SetRemoveInterval(size, interval) \/ SetDisbandInterval(size, interval)
    <3>1. PICK size \in SizesInUse, interval \in IntervalChoices :
            SetRemoveInterval(size, interval) \/ SetDisbandInterval(size, interval)
      BY <2>2
    <3>2. /\ [settings EXCEPT !.remove_interval[size] = interval] \in Settings
          /\ [settings EXCEPT !.disband_interval[size] = interval] \in Settings
      BY <1>1, <1>3 DEF Settings
    <3> QED BY <3>1, <3>2 DEF SetRemoveInterval, SetDisbandInterval
  <2>3. CASE \E amount \in CostChoices :
               SetPropsPrice(amount) \/ SetAudioPrice(amount) \/ SetRedpackMinAmount(amount)
    <3>1. PICK amount \in CostChoices :
            SetPropsPrice(amount) \/ SetAudioPrice(amount) \/ SetRedpackMinAmount(amount)
      BY <2>3
    <3>2. /\ [settings EXCEPT !.price["props"] = amount] \in Settings
          /\ [settings EXCEPT !.price["audio"] = amount] \in Settings
          /\ [settings EXCEPT !.min_redpack = amount] \in Settings
      BY <1>1, <1>3 DEF Settings
    <3> QED BY <3>1, <3>2 DEF SetPropsPrice, SetAudioPrice, SetRedpackMinAmount
  <2> QED BY <2>1, <2>2, <2>3 DEF RootNext
<1> QED BY <1>1, <1>4, SettingsStep DEF ChangeSettings

-----------------------------------------------------------------------------
(* The invariants, for every value of the constants.                       *)

\* IndInv is inductive: it holds initially and every dispatchable and every new
\* block keeps it.
LEMMA NextInv == ASSUME IndInv, [Next]_vars PROVE IndInv'
<1>1. CASE NewBlock
  <2>1. now' \in Nat /\ settings' \in Settings
    BY <1>1 DEF NewBlock, IndInv, TypeOK, ClockTyped
  <2> QED BY <1>1, <2>1, SettingsStep DEF NewBlock
<1>2. CASE RootNext
  BY <1>2, RootStep
<1>3. CASE \E who \in Users, max \in MemberLimits, cost \in JoinCosts,
             private \in BOOLEAN : CreateRoom(who, max, cost, private)
  BY <1>3, CreateRoomStep
<1>4. CASE \E g \in RoomIds : ManagerNext(g)
  <2> SUFFICES ASSUME NEW g \in RoomIds, ManagerNext(g) PROVE IndInv'
    BY <1>4
  <2>1. CASE \E who \in Users, by_root \in BOOLEAN : RemoveSomeone(g, who, by_root)
    BY <2>1, RemoveSomeoneStep
  <2>2. CASE \E new_max \in MemberLimits : SetMaxNumberForRoomMembers(g, new_max)
    BY <2>2, SetMaxStep
  <2>3. CASE ManagerGetReward(g)
    BY <2>3, RewardStep
  <2>4. CASE \E amount \in PacketAmounts : SubRoomFreeAmount(g, amount)
    BY <2>4, SubFreeStep
  <2> QED BY <2>1, <2>2, <2>3, <2>4, ManagerStep DEF ManagerNext, SetterCalled
<1>5. CASE \E who \in Users, g \in RoomIds : MemberNext(who, g)
  <2> SUFFICES ASSUME NEW who \in Users, NEW g \in RoomIds, MemberNext(who, g)
               PROVE  IndInv'
    BY <1>5
  <2>1. CASE \E invitee \in Users \cup {None} : IntoRoom(who, invitee, g)
    BY <2>1, IntoRoomStep
  <2>2. CASE ExitAmongOthers(who, g) \/ ExitAsLast(who, g)
    BY <2>2, ExitAmongOthersStep, ExitAsLastStep
  <2>3. CASE \E quantity \in Quantities :
               BuyPropsInRoom(who, g, quantity) \/ BuyAudioInRoom(who, g, quantity)
    BY <2>3, BuyStep DEF BuyPropsInRoom, BuyAudioInRoom
  <2>4. CASE AskForDisbandRoom(who, g)
    BY <2>4, AskStep
  <2>5. CASE \E approves \in BOOLEAN : Vote(who, g, approves)
    BY <2>5, VoteStep
  <2>6. CASE \E lucky \in LuckyNumbers, amount \in PacketAmounts :
               SendRedpacketInRoom(who, g, lucky, amount)
    BY <2>6, SendStep
  <2> QED BY <2>1, <2>2, <2>3, <2>4, <2>5, <2>6 DEF MemberNext
<1>6. CASE \E g \in RoomIds : DisbandRoom(g) \/ GiveBackExpiredRedpacket(g)
  BY <1>6, DisbandRoomStep, GiveBackStep
<1>7. CASE \E who \in Users : PayOut(who)
  BY <1>7, PayOutStep
<1>8. CASE \E k \in DOMAIN RedPacketOfRoom, who \in Users, amount \in PacketAmounts :
             GetRedpacketInRoom(k[1], k[2], who, amount)
  BY <1>8, GetStep
<1>9. CASE UNCHANGED vars
  <2>1. /\ settings' \in Settings /\ now' \in Nat
        /\ UNCHANGED <<counters, members, money, AllRoom, disbanding, RedPacketOfRoom>>
    BY <1>9 DEF vars, counters, members, money, disbanding, IndInv, TypeOK, ClockTyped
  <2> QED BY <2>1, SettingsStep
<1> QED BY <1>1, <1>2, <1>3, <1>4, <1>5, <1>6, <1>7, <1>8, <1>9 DEF Next

\* The inductive invariant of the room pallet holds in every reachable state.
THEOREM InductiveInvariant == Spec => []IndInv
<1>1. Init => IndInv
  BY InitInv
<1>2. IndInv /\ [Next]_vars => IndInv'
  BY NextInv
<1> QED BY <1>1, <1>2, PTL DEF Spec

\* Every value the pallet stores has its type: in particular no balance leaves
\* the range of the code's u128, in do_disband and exit where nothing checks it
\* as little as where checked_add does.
THEOREM TypeCorrect == Spec => []TypeOK
<1>1. IndInv => TypeOK
  BY DEF IndInv
<1> QED BY <1>1, InductiveInvariant, PTL

\* now_members_number, which do_disband and exit divide by, counts the listeners
\* of every room that was never disbanded, and is never zero in any.
THEOREM MembersAlwaysCounted == Spec => []MembersCounted
<1>1. IndInv => MembersCounted
  BY DEF IndInv
<1> QED BY <1>1, InductiveInvariant, PTL

\* The manager's part of a room's balance is always there, whatever members
\* that quit, rewards and the room treasury take.
THEOREM ManagerAlwaysCovered == Spec => []ManagerFundsCovered
<1>1. IndInv => ManagerFundsCovered
  BY DEF IndInv
<1> QED BY <1>1, InductiveInvariant, PTL

\* Listeners, pending disbandings and red packets are gone when their room is.
THEOREM NothingEverOutlivesRoom == Spec => []NothingOutlivesRoom
<1>1. IndInv => NothingOutlivesRoom
  BY DEF IndInv
<1> QED BY <1>1, InductiveInvariant, PTL

-----------------------------------------------------------------------------
(* Red packets stay within what they hold and their places.                *)

\* No packet is added or changed.
PacketsKept ==
  \E gone : RedPacketOfRoom' = Remove(RedPacketOfRoom, gone)

\* What a step leaves of the packets is bounded if it was.
LEMMA KeptBounded ==
  ASSUME PacketsBounded, UNCHANGED RedPacketOfRoom \/ PacketsKept
  PROVE  PacketsBounded'
<1>1. /\ DOMAIN RedPacketOfRoom' \subseteq DOMAIN RedPacketOfRoom
      /\ \A k \in DOMAIN RedPacketOfRoom' : RedPacketOfRoom'[k] = RedPacketOfRoom[k]
  BY DEF PacketsKept, Remove, Restrict
<1> QED BY <1>1 DEF PacketsBounded

\* A new packet has given nothing.
LEMMA SendBounded ==
  ASSUME IndInv, PacketsBounded, 0 \notin PacketAmounts,
         NEW who \in Users, NEW g, NEW lucky \in LuckyNumbers,
         NEW amount \in PacketAmounts, SendRedpacketInRoom(who, g, lucky, amount)
  PROVE  PacketsBounded'
<1> DEFINE packet ==
             [boss |-> who, total |-> amount, lucky_man_number |-> lucky,
              already_get_man |-> {}, min_amount_of_per_man |-> settings.min_redpack,
              already_get_amount |-> 0, end_time |-> now + RedPackExpire]
           key == <<g, NextRedPacketId>>
<1>1. RedPacketOfRoom' = Put(RedPacketOfRoom, key, packet) /\ lucky # 0
  BY DEF SendRedpacketInRoom
<1>2. amount \in Nat \ {0} /\ lucky \in Nat \ {0}
  BY <1>1, InputAssumption DEF Balance
<1>3. Cardinality(packet.already_get_man) = 0
  BY FS_EmptySet
<1>4. settings.min_redpack \in Nat
  BY DEF IndInv, TypeOK, ClockTyped, Settings, Balance
<1>5. /\ packet.already_get_amount < packet.total
      /\ Cardinality(packet.already_get_man) < packet.lucky_man_number
      /\ packet.already_get_amount
           >= Cardinality(packet.already_get_man) * packet.min_amount_of_per_man
  BY <1>2, <1>3, <1>4
<1> HIDE DEF packet, key
<1>6. \A k \in DOMAIN RedPacketOfRoom' :
        RedPacketOfRoom'[k] = packet
          \/ (k \in DOMAIN RedPacketOfRoom /\ RedPacketOfRoom'[k] = RedPacketOfRoom[k])
  BY <1>1 DEF Put
<1> QED BY <1>5, <1>6 DEF PacketsBounded

\* A claim gives one place and at least the minimum of the packet; the last place
\* or the last of the money takes the packet away.
LEMMA GetBounded ==
  ASSUME IndInv, PacketsBounded, NEW g, NEW id, NEW who \in Users,
         NEW amount \in PacketAmounts, GetRedpacketInRoom(g, id, who, amount)
  PROVE  PacketsBounded'
<1> DEFINE key == <<g, id>>
           packet == RedPacketOfRoom[key]
           got == [packet EXCEPT !.already_get_man = @ \cup {who},
                                 !.already_get_amount = @ + amount]
           lucky == Cardinality(packet.already_get_man)
<1>1. /\ key \in DOMAIN RedPacketOfRoom
      /\ Claimable(packet, who, amount)
      /\ \/ PacketsKept
         \/ /\ RedPacketOfRoom' = [RedPacketOfRoom EXCEPT ![key] = got]
            /\ Cardinality(got.already_get_man) # packet.lucky_man_number
            /\ got.already_get_amount # packet.total
  BY DEF GetRedpacketInRoom, PacketsKept
<1>2. packet \in RedPacket /\ amount \in Nat
  BY <1>1, InputAssumption DEF IndInv, TypeOK, PacketsTyped, Balance
<1>3. /\ packet.already_get_amount \in Nat /\ packet.total \in Nat
      /\ packet.lucky_man_number \in Nat /\ packet.min_amount_of_per_man \in Nat
      /\ packet.already_get_man \subseteq Users
  BY <1>2, InputAssumption DEF RedPacket, Balance
<1>4. /\ IsFiniteSet(packet.already_get_man) /\ lucky \in Nat
      /\ Cardinality(packet.already_get_man \cup {who}) = lucky + 1
  <2>1. IsFiniteSet(packet.already_get_man)
    BY <1>3, InputAssumption, FS_Subset
  <2>2. who \notin packet.already_get_man
    BY <1>1 DEF Claimable
  <2> HIDE DEF packet
  <2> QED BY <2>1, <2>2, FS_AddElement, FS_CardinalityType
<1>5. /\ got.already_get_man = packet.already_get_man \cup {who}
      /\ got.already_get_amount = packet.already_get_amount + amount
      /\ got.total = packet.total /\ got.lucky_man_number = packet.lucky_man_number
      /\ got.min_amount_of_per_man = packet.min_amount_of_per_man
  BY <1>2 DEF RedPacket
<1>6. /\ packet.already_get_amount < packet.total
      /\ lucky < packet.lucky_man_number
      /\ packet.already_get_amount >= lucky * packet.min_amount_of_per_man
  BY <1>1 DEF PacketsBounded
<1>7. packet.min_amount_of_per_man <= amount
      /\ packet.already_get_amount + amount <= packet.total
  BY <1>1, <1>2, <1>3, <1>6 DEF Claimable, Remain, SaturatingSub
<1> HIDE DEF got, packet, key, lucky
<1>8. CASE PacketsKept
  BY <1>8, KeptBounded
<1>9. CASE /\ RedPacketOfRoom' = [RedPacketOfRoom EXCEPT ![key] = got]
           /\ Cardinality(got.already_get_man) # packet.lucky_man_number
           /\ got.already_get_amount # packet.total
  <2>1. (lucky + 1) * packet.min_amount_of_per_man
          = lucky * packet.min_amount_of_per_man + packet.min_amount_of_per_man
    BY <1>3, <1>4
  <2>2. lucky * packet.min_amount_of_per_man \in Nat
    BY <1>3, <1>4, MulNat
  <2>3. /\ got.already_get_amount < got.total
        /\ Cardinality(got.already_get_man) < got.lucky_man_number
        /\ got.already_get_amount
             >= Cardinality(got.already_get_man) * got.min_amount_of_per_man
    <3>1. got.already_get_amount < got.total
      BY <1>2, <1>3, <1>5, <1>7, <1>9
    <3>2. Cardinality(got.already_get_man) < got.lucky_man_number
      BY <1>3, <1>4, <1>5, <1>6, <1>9
    <3>3. Cardinality(got.already_get_man) * got.min_amount_of_per_man
            = lucky * packet.min_amount_of_per_man + packet.min_amount_of_per_man
      BY <1>4, <1>5, <2>1
    <3>4. got.already_get_amount
            >= lucky * packet.min_amount_of_per_man + packet.min_amount_of_per_man
      BY <1>2, <1>3, <1>5, <1>6, <1>7, <2>2
    <3> QED BY <3>1, <3>2, <3>3, <3>4
  <2>4. \A k \in DOMAIN RedPacketOfRoom' :
          IF k = key THEN RedPacketOfRoom'[k] = got
          ELSE k \in DOMAIN RedPacketOfRoom /\ RedPacketOfRoom'[k] = RedPacketOfRoom[k]
    BY <1>9
  <2> QED BY <2>3, <2>4 DEF PacketsBounded
<1> QED BY <1>1, <1>8, <1>9

\* Everything else leaves the packets alone, or takes away all of a room or all
\* that are expired.
LEMMA NextBounded ==
  ASSUME IndInv, PacketsBounded, 0 \notin PacketAmounts, [Next]_vars
  PROVE  PacketsBounded'
<1>1. CASE UNCHANGED RedPacketOfRoom
  BY <1>1, KeptBounded
<1>2. ASSUME NEW g, NEW room, NEW balances, JudgeAndInsert(g, room, balances)
      PROVE  UNCHANGED RedPacketOfRoom \/ PacketsKept
  BY <1>2 DEF JudgeAndInsert, DoDisband, PacketsKept
<1>3. CASE UNCHANGED vars
  BY <1>1, <1>3 DEF vars
<1>4. CASE NewBlock \/ RootNext \/ \E who \in Users : PayOut(who)
  BY <1>1, <1>4 DEF NewBlock, RootNext, SetCreateCost, SetRemoveInterval,
     SetDisbandInterval, SetPropsPrice, SetAudioPrice, SetRedpackMinAmount,
     ChangeSettings, PayOut
<1>5. CASE \E who \in Users, max \in MemberLimits, cost \in JoinCosts,
             private \in BOOLEAN : CreateRoom(who, max, cost, private)
  BY <1>1, <1>5 DEF CreateRoom
<1>6. CASE \E g \in RoomIds : ManagerNext(g)
  <2>1. PICK g \in RoomIds : ManagerNext(g)
    BY <1>6
  <2>2. ASSUME NEW who \in Users,
               \/ AddCouncilMember(g, who) \/ RemoveCouncilMember(g, who)
               \/ RemoveSomeoneFromBlacklist(g, who)
        PROVE  UNCHANGED RedPacketOfRoom
    BY <2>2 DEF AddCouncilMember, RemoveCouncilMember, RemoveSomeoneFromBlacklist,
                UpdateRoom
  <2>3. ASSUME NEW who \in Users, NEW by_root \in BOOLEAN, RemoveSomeone(g, who, by_root)
        PROVE  UNCHANGED RedPacketOfRoom
    BY <2>3 DEF RemoveSomeone, UpdateRoom
  <2>4. ASSUME \/ \E council \in SUBSET Users : SetCouncilMembers(g, council)
               \/ \E cost \in JoinCosts : UpdateJoinCost(g, cost)
               \/ \E private \in BOOLEAN : SetRoomPrivacy(g, private)
        PROVE  UNCHANGED RedPacketOfRoom
    BY <2>4 DEF SetCouncilMembers, UpdateJoinCost, SetRoomPrivacy, UpdateRoom
  <2>5. ASSUME NEW new_max, SetMaxNumberForRoomMembers(g, new_max)
        PROVE  UNCHANGED RedPacketOfRoom
    BY <2>5 DEF SetMaxNumberForRoomMembers, UpdateRoom
  <2>6. ASSUME ManagerGetReward(g)
        PROVE  UNCHANGED RedPacketOfRoom
    BY <2>6 DEF ManagerGetReward, UpdateRoom
  <2>7. ASSUME NEW amount, SubRoomFreeAmount(g, amount)
        PROVE  UNCHANGED RedPacketOfRoom
    BY <2>7 DEF SubRoomFreeAmount, UpdateRoom
  <2>8. UNCHANGED RedPacketOfRoom
    BY <2>1, <2>2, <2>3, <2>4, <2>5, <2>6, <2>7 DEF ManagerNext
  <2> QED BY <1>1, <2>8
<1>7. CASE \E who \in Users, g \in RoomIds : MemberNext(who, g)
  <2> SUFFICES ASSUME NEW who \in Users, NEW g \in RoomIds, MemberNext(who, g)
               PROVE  PacketsBounded'
    BY <1>7
  <2>1. CASE \E invitee \in Users \cup {None} : IntoRoom(who, invitee, g)
    BY <1>1, <2>1 DEF IntoRoom
  <2>2. CASE ExitAmongOthers(who, g)
    BY <1>1, <2>2 DEF ExitAmongOthers, UpdateRoom
  <2>3. CASE ExitAsLast(who, g)
    BY <2>3, KeptBounded DEF ExitAsLast, PacketsKept
  <2>4. CASE \E quantity \in Quantities :
               BuyPropsInRoom(who, g, quantity) \/ BuyAudioInRoom(who, g, quantity)
    BY <1>2, <2>4, KeptBounded DEF BuyPropsInRoom, BuyAudioInRoom, Buy
  <2>5. CASE AskForDisbandRoom(who, g)
    BY <1>2, <2>5, KeptBounded DEF AskForDisbandRoom
  <2>6. CASE \E approves \in BOOLEAN : Vote(who, g, approves)
    BY <1>2, <2>6, KeptBounded DEF Vote
  <2>7. CASE \E lucky \in LuckyNumbers, amount \in PacketAmounts :
               SendRedpacketInRoom(who, g, lucky, amount)
    BY <2>7, SendBounded
  <2> QED BY <2>1, <2>2, <2>3, <2>4, <2>5, <2>6, <2>7 DEF MemberNext
<1>8. CASE \E g \in RoomIds : DisbandRoom(g) \/ GiveBackExpiredRedpacket(g)
  BY <1>8, KeptBounded
  DEF DisbandRoom, DoDisband, GiveBackExpiredRedpacket, PacketsKept
<1>9. CASE \E k \in DOMAIN RedPacketOfRoom, who \in Users, amount \in PacketAmounts :
             GetRedpacketInRoom(k[1], k[2], who, amount)
  BY <1>9, GetBounded
<1> QED BY <1>3, <1>4, <1>5, <1>6, <1>7, <1>8, <1>9 DEF Next

\* A red packet that is still there gave less than it holds, to fewer than it has
\* places, and at least its own minimum to each, in whatever order members claim
\* and root changes the minimum (send_redpacket_in_room, get_redpacket_in_room).
\* That packets hold something is the minimum that root sets.
THEOREM PacketsStayBounded ==
  ASSUME 0 \notin PacketAmounts
  PROVE  Spec => []PacketsBounded
<1>1. Init => PacketsBounded
  BY DEF Init, EmptyMap, PacketsBounded
<1>2. IndInv /\ PacketsBounded /\ [Next]_vars => PacketsBounded'
  BY NextBounded
<1> QED BY <1>1, <1>2, InductiveInvariant, PTL DEF Spec

-----------------------------------------------------------------------------
(* No room is overfull or holds someone it has black-listed, and without   *)
(* the calls the system's filter rejects no room is ever disbanded.        *)
(*                                                                         *)
(* RoomNotOverfull is inductive once IndInv holds: that the id of a new    *)
(* room has no listeners yet is NothingOutlivesRoom, that a room which is  *)
(* emptied does not get below zero members is MembersCounted.              *)

\* What a step leaves of a room it does not fill.
Looser(g) ==
  /\ AllRoom'[g].now_members_number = AllRoom[g].now_members_number
  /\ AllRoom'[g].max_members = AllRoom[g].max_members
  /\ AllRoom'[g].black_list \subseteq AllRoom[g].black_list
  /\ ListenersOfRoom'[g] \subseteq ListenersOfRoom[g]

-----------------------------------------------------------------------------
(* Kinds of steps.                                                         *)

\* Rooms that are emptied, deleted or opened to people do not get overfull.
LEMMA LooserFits ==
  ASSUME RoomNotOverfull, DOMAIN AllRoom' \subseteq DOMAIN AllRoom,
         \A g \in DOMAIN AllRoom' : Looser(g)
  PROVE  RoomNotOverfull'
<1> SUFFICES ASSUME NEW g \in DOMAIN AllRoom'
             PROVE  /\ AllRoom'[g].now_members_number <= AllRoom'[g].max_members
                    /\ AllRoom'[g].black_list \cap ListenersOfRoom'[g] = {}
  BY DEF RoomNotOverfull
<1> QED BY DEF RoomNotOverfull, Looser

\* Neither does a room whose new record has its people.
LEMMA StoredFits ==
  ASSUME IndInv, RoomNotOverfull, NEW g \in DOMAIN AllRoom, NEW room,
         AllRoom' = [AllRoom EXCEPT ![g] = room],
         room.now_members_number <= room.max_members,
         room.black_list \cap ListenersOfRoom'[g] = {},
         \A h \in RoomIds : h # g => ListenersOfRoom'[h] = ListenersOfRoom[h]
  PROVE  RoomNotOverfull'
<1> SUFFICES ASSUME NEW h \in DOMAIN AllRoom
             PROVE  /\ AllRoom'[h].now_members_number <= AllRoom'[h].max_members
                    /\ AllRoom'[h].black_list \cap ListenersOfRoom'[h] = {}
  BY DEF RoomNotOverfull
<1>1. h \in RoomIds
  BY RoomFacts
<1>2. CASE h = g
  BY <1>2
<1>3. CASE h # g
  BY <1>1, <1>3 DEF RoomNotOverfull
<1> QED BY <1>2, <1>3

\* The end of every call that may count votes changes no limit and adds no one.
LEMMA JudgeFits ==
  ASSUME IndInv, RoomNotOverfull, NEW g \in DOMAIN AllRoom, NEW room, NEW balances,
         JudgeAndInsert(g, room, balances), DOMAIN room = DOMAIN AllRoom[g],
         room.now_members_number = AllRoom[g].now_members_number,
         room.max_members = AllRoom[g].max_members,
         room.black_list = AllRoom[g].black_list
  PROVE  RoomNotOverfull'
<1> DEFINE result == VoteEndResult(room, now)
           immediate == result = "pass" /\ GetRoomConsumeAmount(room) = 0
<1>1. ListenersOfRoom \in [RoomIds -> SUBSET Users] /\ DOMAIN AllRoom \subseteq RoomIds
  BY DEF IndInv, TypeOK, MembersTyped, RoomsTyped
<1>2. CASE immediate
  <2>1. /\ AllRoom' = [AllRoom EXCEPT ![g] = room]
        /\ ListenersOfRoom' = [ListenersOfRoom EXCEPT ![g] = {}]
    BY <1>2 DEF JudgeAndInsert, DoDisband
  <2>2. \A h \in DOMAIN AllRoom : Looser(h)
    BY <1>1, <2>1 DEF Looser
  <2> QED BY <2>1, <2>2, LooserFits
<1>3. CASE ~immediate
  <2> DEFINE stored ==
        CASE result = "pass" -> [room EXCEPT !.disband_vote_end_block = now]
          [] result = "not_pass" -> RemoveVoteInfo(room, now)
          [] result = "not_end" -> room
  <2>1. AllRoom' = [AllRoom EXCEPT ![g] = stored] /\ UNCHANGED ListenersOfRoom
    BY <1>3 DEF JudgeAndInsert
  <2>2. /\ stored.now_members_number = room.now_members_number
        /\ stored.max_members = room.max_members
        /\ stored.black_list = room.black_list
    <3>1. result \in {"pass", "not_pass", "not_end"}
      BY VoteResults
    <3>2. {"disband_vote", "disband_vote_end_block", "now_members_number",
           "max_members", "black_list"} \subseteq DOMAIN room
      BY RoomFacts DEF RoomInfo
    <3> HIDE DEF result
    <3> QED BY <3>1, <3>2 DEF RemoveVoteInfo
  <2> HIDE DEF stored
  <2>3. \A h \in DOMAIN AllRoom : Looser(h)
    BY <2>1, <2>2 DEF Looser
  <2> QED BY <2>1, <2>3, LooserFits
<1> QED BY <1>2, <1>3

-----------------------------------------------------------------------------
(* The steps one by one.                                                   *)

\* A step that touches no room's record and adds no listener.
LEMMA UntouchedFits ==
  ASSUME RoomNotOverfull, UNCHANGED AllRoom,
         \A g \in DOMAIN AllRoom : ListenersOfRoom'[g] \subseteq ListenersOfRoom[g]
  PROVE  RoomNotOverfull'
BY LooserFits DEF Looser

\* create_room leaves room for its manager.
LEMMA CreateRoomFits ==
  ASSUME IndInv, RoomNotOverfull, NEW who, NEW max \in MemberLimits, NEW cost,
         NEW private, CreateRoom(who, max, cost, private)
  PROVE  RoomNotOverfull'
<1>1. /\ ListenersOfRoom \in [RoomIds -> SUBSET Users] /\ DOMAIN AllRoom \subseteq RoomIds
      /\ \A g \in DOMAIN AllRoom : g < NextGroupId
      /\ NextGroupId \in Nat /\ max \in Nat \ {0}
  BY InputAssumption
     DEF IndInv, TypeOK, MembersTyped, RoomsTyped, CountersTyped, RoomIdsFresh
<1> SUFFICES ASSUME NEW g \in DOMAIN AllRoom'
             PROVE  /\ AllRoom'[g].now_members_number <= AllRoom'[g].max_members
                    /\ AllRoom'[g].black_list \cap ListenersOfRoom'[g] = {}
  BY DEF RoomNotOverfull
<1>2. CASE g = NextGroupId
  <2>1. /\ AllRoom'[g].now_members_number = 1 /\ AllRoom'[g].max_members = max
        /\ AllRoom'[g].black_list = {}
    BY <1>2 DEF CreateRoom, Put
  <2> QED BY <1>1, <2>1
<1>3. CASE g # NextGroupId
  <2>1. g \in DOMAIN AllRoom /\ AllRoom'[g] = AllRoom[g]
    BY <1>3 DEF CreateRoom, Put
  <2>2. ListenersOfRoom'[g] = ListenersOfRoom[g]
    BY <1>1, <1>3, <2>1 DEF CreateRoom, AddUserExtra
  <2> QED BY <2>1, <2>2 DEF RoomNotOverfull
<1> QED BY <1>2, <1>3

\* into_room admits one more where there is a place, and no one on the black list.
LEMMA IntoRoomFits ==
  ASSUME IndInv, RoomNotOverfull, NEW inviter, NEW invitee, NEW g,
         IntoRoom(inviter, invitee, g)
  PROVE  RoomNotOverfull'
<1> DEFINE who == IF invitee = None THEN inviter ELSE invitee
           old == AllRoom[g]
           manager_later == PayForManagerLater(old.join_cost)
           total == old.total_balances + PayForRoomLater(old.join_cost) + manager_later
           room == [old EXCEPT !.total_balances = total,
                               !.group_manager_balances = @ + manager_later,
                               !.now_members_number = @ + 1]
<1>1. /\ g \in DOMAIN AllRoom /\ MayEnter(old, inviter, invitee, who)
      /\ AllRoom' = [AllRoom EXCEPT ![g] = room]
      /\ ListenersOfRoom' = [ListenersOfRoom EXCEPT ![g] = @ \cup {who}]
  BY DEF IntoRoom, AddUserExtra, Joined
<1>2. old \in RoomInfo /\ ListenersOfRoom \in [RoomIds -> SUBSET Users] /\ g \in RoomIds
  BY <1>1, RoomFacts DEF IndInv, TypeOK, MembersTyped
<1>3. /\ who \notin old.black_list
      /\ old.max_members >= old.now_members_number + 1
  BY <1>1 DEF MayEnter
<1> HIDE DEF who, total, manager_later
<1>4. /\ room.now_members_number = old.now_members_number + 1
      /\ room.max_members = old.max_members
      /\ room.black_list = old.black_list
  BY <1>2 DEF RoomInfo
<1>5. room.now_members_number <= room.max_members
  BY <1>2, <1>3, <1>4 DEF RoomInfo
<1>6. old.black_list \cap ListenersOfRoom[g] = {}
  BY <1>1 DEF RoomNotOverfull
<1> HIDE DEF room, old
<1> QED BY <1>1, <1>2, <1>3, <1>4, <1>5, <1>6, StoredFits

\* Whoever leaves or is removed makes room, and is black-listed only when he is
\* out.
LEMMA LeaveFits ==
  ASSUME IndInv, RoomNotOverfull, NEW g \in DOMAIN AllRoom, NEW who, NEW room,
         DOMAIN room = DOMAIN AllRoom[g],
         room.now_members_number = AllRoom[g].now_members_number,
         room.max_members = AllRoom[g].max_members,
         room.black_list \subseteq AllRoom[g].black_list \cup {who},
         AllRoom' = [AllRoom EXCEPT ![g] = RemoveSomeoneInRoom(room, who)],
         ListenersOfRoom' = [ListenersOfRoom EXCEPT ![g] = @ \ {who}]
  PROVE  RoomNotOverfull'
<1> DEFINE left == RemoveSomeoneInRoom(room, who)
<1>1. /\ AllRoom[g] \in RoomInfo /\ g \in RoomIds
      /\ ListenersOfRoom \in [RoomIds -> SUBSET Users]
  BY RoomFacts DEF IndInv, TypeOK, MembersTyped
<1>2. {"now_members_number", "max_members", "black_list", "consume"} \subseteq DOMAIN room
  BY <1>1 DEF RoomInfo
<1>3. /\ left.now_members_number = SaturatingSub(room.now_members_number, 1)
      /\ left.max_members = room.max_members
      /\ left.black_list = room.black_list
  BY <1>2 DEF RemoveSomeoneInRoom
<1>4. /\ AllRoom[g].now_members_number <= AllRoom[g].max_members
      /\ AllRoom[g].black_list \cap ListenersOfRoom[g] = {}
  BY DEF RoomNotOverfull
<1>5. left.now_members_number <= left.max_members
  BY <1>1, <1>3, <1>4 DEF SaturatingSub, RoomInfo
<1>6. left.black_list \cap ListenersOfRoom'[g] = {}
  BY <1>1, <1>3, <1>4
<1> HIDE DEF left
<1> QED BY <1>1, <1>5, <1>6, StoredFits DEF left

\* exit of a room others stay in, and remove_someone.
LEMMA RemovedFits ==
  ASSUME IndInv, RoomNotOverfull, NEW g, NEW who,
         ExitAmongOthers(who, g) \/ \E by_root \in BOOLEAN : RemoveSomeone(g, who, by_root)
  PROVE  RoomNotOverfull'
<1>1. g \in DOMAIN AllRoom
  BY DEF ExitAmongOthers, RemoveSomeone, InRoom
<1>2. AllRoom[g] \in RoomInfo
  BY <1>1, RoomFacts
<1>3. CASE ExitAmongOthers(who, g)
  <2> DEFINE room == [AllRoom[g] EXCEPT
                        !.total_balances = @ - QuitShare(AllRoom[g])]
  <2>1. /\ AllRoom' = [AllRoom EXCEPT ![g] = RemoveSomeoneInRoom(room, who)]
        /\ ListenersOfRoom' = [ListenersOfRoom EXCEPT ![g] = @ \ {who}]
    BY <1>3 DEF ExitAmongOthers, UpdateRoom
  <2>2. /\ DOMAIN room = DOMAIN AllRoom[g]
        /\ room.now_members_number = AllRoom[g].now_members_number
        /\ room.max_members = AllRoom[g].max_members
        /\ room.black_list = AllRoom[g].black_list
    BY <1>2 DEF RoomInfo
  <2> HIDE DEF room
  <2> QED BY <1>1, <2>1, <2>2, LeaveFits
<1>4. CASE \E by_root \in BOOLEAN : RemoveSomeone(g, who, by_root)
  <2>1. PICK by_root \in BOOLEAN : RemoveSomeone(g, who, by_root)
    BY <1>4
  <2> DEFINE block == IF by_root THEN now ELSE AllRoom[g].last_remove_someone_block
             room == [AllRoom[g] EXCEPT !.black_list = @ \cup {who},
                                        !.last_remove_someone_block = block]
  <2>2. /\ AllRoom' = [AllRoom EXCEPT ![g] = RemoveSomeoneInRoom(room, who)]
        /\ ListenersOfRoom' = [ListenersOfRoom EXCEPT ![g] = @ \ {who}]
    BY <2>1 DEF RemoveSomeone, UpdateRoom
  <2> HIDE DEF block
  <2>3. /\ DOMAIN room = DOMAIN AllRoom[g]
        /\ room.now_members_number = AllRoom[g].now_members_number
        /\ room.max_members = AllRoom[g].max_members
        /\ room.black_list = AllRoom[g].black_list \cup {who}
    BY <1>2 DEF RoomInfo
  <2> HIDE DEF room
  <2> QED BY <1>1, <2>2, <2>3, LeaveFits
<1> QED BY <1>3, <1>4

\* The calls that delete the record of a room.
LEMMA DeletedFits ==
  ASSUME IndInv, RoomNotOverfull, NEW g,
         DisbandRoom(g) \/ \E who \in Users : ExitAsLast(who, g)
  PROVE  RoomNotOverfull'
<1>1. /\ AllRoom' = [r \in DOMAIN AllRoom \ {g} |-> AllRoom[r]]
      /\ ListenersOfRoom' = [ListenersOfRoom EXCEPT ![g] = {}]
  BY DEF DisbandRoom, DoDisband, ExitAsLast, Remove, Restrict
<1>2. ListenersOfRoom \in [RoomIds -> SUBSET Users] /\ DOMAIN AllRoom \subseteq RoomIds
  BY DEF IndInv, TypeOK, MembersTyped, RoomsTyped
<1>3. \A h \in DOMAIN AllRoom' : Looser(h)
  BY <1>1, <1>2 DEF Looser
<1> QED BY <1>1, <1>3, LooserFits

\* Spending, asking and voting.
LEMMA VotingFits ==
  ASSUME IndInv, RoomNotOverfull, NEW who \in Users, NEW g,
         \/ \E call, item, quantity : Buy(call, item, who, g, quantity)
         \/ AskForDisbandRoom(who, g)
         \/ \E approves : Vote(who, g, approves)
  PROVE  RoomNotOverfull'
<1> DEFINE Same(room) ==
      /\ DOMAIN room = DOMAIN AllRoom[g]
      /\ room.now_members_number = AllRoom[g].now_members_number
      /\ room.max_members = AllRoom[g].max_members
      /\ room.black_list = AllRoom[g].black_list
<1>1. g \in DOMAIN AllRoom
  BY DEF Buy, AskForDisbandRoom, Vote, InRoom
<1>2. AllRoom[g] \in RoomInfo
  BY <1>1, RoomFacts
<1>3. \E room, balances :
        /\ Same(room)
        /\ \/ JudgeAndInsert(g, room, balances)
           \/ AllRoom' = [AllRoom EXCEPT ![g] = room] /\ UNCHANGED ListenersOfRoom
  <2>1. CASE \E call, item, quantity : Buy(call, item, who, g, quantity)
    <3>1. PICK call, item, quantity : Buy(call, item, who, g, quantity)
      BY <2>1
    <3> DEFINE amount == quantity * settings.price[item]
               paid == [AllRoom[g] EXCEPT !.total_balances = @ + amount,
                                          !.consume[who] = @ + amount]
               votes == AddWeight(AllRoom[g].disband_vote, who, amount)
               voted == [paid EXCEPT !.disband_vote = votes]
               balances == [free EXCEPT ![who] = free[who] - amount]
    <3>2. \/ JudgeAndInsert(g, voted, balances)
          \/ AllRoom' = [AllRoom EXCEPT ![g] = paid] /\ UNCHANGED ListenersOfRoom
      BY <3>1 DEF Buy
    <3> HIDE DEF amount, votes, balances
    <3>3. Same(paid) /\ Same(voted)
      BY <1>2 DEF RoomInfo
    <3> HIDE DEF voted, paid, Same
    <3> QED BY <3>2, <3>3
  <2>2. CASE AskForDisbandRoom(who, g)
    <3> DEFINE votes == Approve(NoVotes, who, AllRoom[g].consume[who])
               end == now + VoteExpire
               asked == [AllRoom[g] EXCEPT !.disband_vote = votes,
                                           !.disband_vote_end_block = end]
               balances == [free EXCEPT ![who] =
                              free[who] - Percent(10, AllRoom[g].create_payment)]
    <3>1. JudgeAndInsert(g, asked, balances)
      BY <2>2 DEF AskForDisbandRoom
    <3> HIDE DEF votes, end, balances
    <3>2. Same(asked)
      BY <1>2 DEF RoomInfo
    <3> HIDE DEF asked, Same
    <3> QED BY <3>1, <3>2
  <2>3. CASE \E approves : Vote(who, g, approves)
    <3>1. PICK approves : Vote(who, g, approves)
      BY <2>3
    <3> DEFINE votes == IF approves
                        THEN Approve(AllRoom[g].disband_vote, who, AllRoom[g].consume[who])
                        ELSE Reject(AllRoom[g].disband_vote, who, AllRoom[g].consume[who])
               voted == [AllRoom[g] EXCEPT !.disband_vote = votes]
    <3>2. JudgeAndInsert(g, voted, free)
      BY <3>1 DEF Vote
    <3> HIDE DEF votes
    <3>3. Same(voted)
      BY <1>2 DEF RoomInfo
    <3> HIDE DEF voted, Same
    <3> QED BY <3>2, <3>3
  <2> QED BY <2>1, <2>2, <2>3
<1>4. PICK room, balances :
        /\ Same(room)
        /\ \/ JudgeAndInsert(g, room, balances)
           \/ AllRoom' = [AllRoom EXCEPT ![g] = room] /\ UNCHANGED ListenersOfRoom
  BY <1>3
<1>5. CASE JudgeAndInsert(g, room, balances)
  BY <1>1, <1>4, <1>5, JudgeFits
<1>6. CASE AllRoom' = [AllRoom EXCEPT ![g] = room] /\ UNCHANGED ListenersOfRoom
  <2>1. \A h \in DOMAIN AllRoom : Looser(h)
    BY <1>1, <1>4, <1>6 DEF Looser
  <2> QED BY <1>6, <2>1, LooserFits
<1> QED BY <1>4, <1>5, <1>6

\* The size of a room is not set below the number of its members.
LEMMA SetMaxFits ==
  ASSUME IndInv, RoomNotOverfull, NEW g, NEW new_max,
         SetMaxNumberForRoomMembers(g, new_max)
  PROVE  RoomNotOverfull'
<1> DEFINE amount == settings.create_cost[MembersConvertType(new_max)]
           room == [AllRoom[g] EXCEPT !.max_members = new_max,
                                      !.create_payment = amount]
<1>1. /\ g \in DOMAIN AllRoom /\ AllRoom[g].now_members_number <= new_max
      /\ AllRoom' = [AllRoom EXCEPT ![g] = room] /\ UNCHANGED ListenersOfRoom
  BY DEF SetMaxNumberForRoomMembers, RoomOrigin, UpdateRoom
<1> HIDE DEF amount
<1>2. /\ room.now_members_number = AllRoom[g].now_members_number
      /\ room.max_members = new_max
      /\ room.black_list = AllRoom[g].black_list
  BY <1>1, RoomFacts DEF RoomInfo
<1>3. AllRoom[g].black_list \cap ListenersOfRoom[g] = {}
  BY <1>1 DEF RoomNotOverfull
<1> HIDE DEF room
<1> QED BY <1>1, <1>2, <1>3, StoredFits

\* The other calls of the manager and the council open the room or change nothing
\* of who may be in it.
LEMMA ManagerFits ==
  ASSUME IndInv, RoomNotOverfull, NEW g, ManagerNext(g)
  PROVE  RoomNotOverfull'
<1>1. CASE \E who \in Users, by_root \in BOOLEAN : RemoveSomeone(g, who, by_root)
  BY <1>1, RemovedFits
<1>2. CASE \E new_max \in MemberLimits : SetMaxNumberForRoomMembers(g, new_max)
  BY <1>2, SetMaxFits
<1>3. ASSUME \/ \E council \in SUBSET Users : SetCouncilMembers(g, council)
             \/ \E who \in Users : \/ AddCouncilMember(g, who)
                                   \/ RemoveCouncilMember(g, who)
                                   \/ RemoveSomeoneFromBlacklist(g, who)
             \/ \E cost \in JoinCosts : UpdateJoinCost(g, cost)
             \/ \E private \in BOOLEAN : SetRoomPrivacy(g, private)
             \/ ManagerGetReward(g)
             \/ \E amount \in PacketAmounts : SubRoomFreeAmount(g, amount)
      PROVE  RoomNotOverfull'
  <2>1. g \in DOMAIN AllRoom /\ UNCHANGED ListenersOfRoom
    BY <1>3 DEF SetCouncilMembers, AddCouncilMember, RemoveCouncilMember,
       RemoveSomeoneFromBlacklist, UpdateJoinCost, SetRoomPrivacy, ManagerGetReward,
       SubRoomFreeAmount, RoomOrigin
  <2>2. AllRoom[g] \in RoomInfo
    BY <2>1, RoomFacts
  <2>3. /\ DOMAIN AllRoom' = DOMAIN AllRoom
        /\ \A h \in DOMAIN AllRoom : h # g => AllRoom'[h] = AllRoom[h]
    BY <1>3 DEF SetCouncilMembers, AddCouncilMember, RemoveCouncilMember,
       RemoveSomeoneFromBlacklist, UpdateJoinCost, SetRoomPrivacy, ManagerGetReward,
       SubRoomFreeAmount, UpdateRoom
  <2>4. /\ AllRoom'[g].now_members_number = AllRoom[g].now_members_number
        /\ AllRoom'[g].max_members = AllRoom[g].max_members
        /\ AllRoom'[g].black_list \subseteq AllRoom[g].black_list
    <3>1. CASE \E council \in SUBSET Users : SetCouncilMembers(g, council)
      BY <2>1, <2>2, <3>1 DEF SetCouncilMembers, UpdateRoom, RoomInfo
    <3>2. CASE \E who \in Users : AddCouncilMember(g, who)
      BY <2>1, <2>2, <3>2 DEF AddCouncilMember, UpdateRoom, RoomInfo
    <3>3. CASE \E who \in Users : RemoveCouncilMember(g, who)
      BY <2>1, <2>2, <3>3 DEF RemoveCouncilMember, UpdateRoom, RoomInfo
    <3>4. CASE \E who \in Users : RemoveSomeoneFromBlacklist(g, who)
      BY <2>1, <2>2, <3>4 DEF RemoveSomeoneFromBlacklist, UpdateRoom, RoomInfo
    <3>5. CASE \E cost \in JoinCosts : UpdateJoinCost(g, cost)
      BY <2>1, <2>2, <3>5 DEF UpdateJoinCost, UpdateRoom, RoomInfo
    <3>6. CASE \E private \in BOOLEAN : SetRoomPrivacy(g, private)
      BY <2>1, <2>2, <3>6 DEF SetRoomPrivacy, UpdateRoom, RoomInfo
    <3>7. CASE ManagerGetReward(g)
      <4> DEFINE last == AllRoom[g].last_block_of_get_the_reward
                           + RewardPeriods(AllRoom[g]) * RewardDuration
                 balances == RewardedBalances(AllRoom[g], TotalReward(AllRoom[g]))
      <4>1. AllRoom'[g] = [AllRoom[g] EXCEPT !.total_balances = balances,
                                             !.last_block_of_get_the_reward = last]
        BY <2>1, <3>7 DEF ManagerGetReward, UpdateRoom
      <4> HIDE DEF last, balances
      <4> QED BY <2>2, <4>1 DEF RoomInfo
    <3>8. CASE \E amount \in PacketAmounts : SubRoomFreeAmount(g, amount)
      BY <2>1, <2>2, <3>8 DEF SubRoomFreeAmount, UpdateRoom, RoomInfo
    <3> QED BY <1>3, <3>1, <3>2, <3>3, <3>4, <3>5, <3>6, <3>7, <3>8
  <2>5. \A h \in DOMAIN AllRoom : Looser(h)
    BY <2>1, <2>3, <2>4 DEF Looser
  <2> QED BY <2>3, <2>5, LooserFits
<1> QED BY <1>1, <1>2, <1>3 DEF ManagerNext

\* The calls that touch no room's record: root's, those on red packets, pay_out,
\* and a new block.
LEMMA OthersFit ==
  ASSUME RoomNotOverfull,
         \/ NewBlock \/ RootNext \/ UNCHANGED vars
         \/ \E who : PayOut(who)
         \/ \E g : GiveBackExpiredRedpacket(g)
         \/ \E who, g, lucky, amount : SendRedpacketInRoom(who, g, lucky, amount)
         \/ \E g, id, who, amount : GetRedpacketInRoom(g, id, who, amount),
         IndInv
  PROVE  RoomNotOverfull'
<1>1. CASE \E who : PayOut(who)
  <2>1. PICK who : PayOut(who)
    BY <1>1
  <2>2. UNCHANGED AllRoom /\ \A g \in RoomIds : ListenersOfRoom'[g] \subseteq ListenersOfRoom[g]
    BY <2>1 DEF PayOut
  <2>3. DOMAIN AllRoom \subseteq RoomIds
    BY DEF IndInv, TypeOK, RoomsTyped
  <2> QED BY <2>2, <2>3, UntouchedFits
<1>2. ASSUME \/ NewBlock \/ RootNext \/ UNCHANGED vars
             \/ \E g : GiveBackExpiredRedpacket(g)
             \/ \E who, g, lucky, amount : SendRedpacketInRoom(who, g, lucky, amount)
             \/ \E g, id, who, amount : GetRedpacketInRoom(g, id, who, amount)
      PROVE  UNCHANGED <<AllRoom, ListenersOfRoom>>
  <2>1. CASE NewBlock \/ UNCHANGED vars
    BY <2>1 DEF NewBlock, members, vars
  <2>2. CASE RootNext
    <3>1. PICK call, new : ChangeSettings(call, new)
      BY <2>2 DEF RootNext, SetCreateCost, SetRemoveInterval, SetDisbandInterval,
                  SetPropsPrice, SetAudioPrice, SetRedpackMinAmount
    <3> QED BY <3>1 DEF ChangeSettings, members
  <2>3. CASE \E g : GiveBackExpiredRedpacket(g)
    BY <2>3 DEF GiveBackExpiredRedpacket, members
  <2>4. CASE \E who, g, lucky, amount : SendRedpacketInRoom(who, g, lucky, amount)
    BY <2>4 DEF SendRedpacketInRoom, members
  <2>5. CASE \E g, id, who, amount : GetRedpacketInRoom(g, id, who, amount)
    <3>1. PICK g, id, who, amount : GetRedpacketInRoom(g, id, who, amount)
      BY <2>5
    <3>2. UNCHANGED <<clock, counters, treasury, AllRoom, members, disbanding>>
      BY <3>1 DEF GetRedpacketInRoom
    <3> QED BY <3>2 DEF members
  <2> QED BY <1>2, <2>1, <2>2, <2>3, <2>4, <2>5
<1> QED BY <1>1, <1>2, UntouchedFits

\* Every step keeps rooms from being overfull.
LEMMA NextFits == ASSUME IndInv, RoomNotOverfull, [Next]_vars PROVE RoomNotOverfull'
<1>1. CASE \E who \in Users, g \in RoomIds : MemberNext(who, g)
  <2> SUFFICES ASSUME NEW who \in Users, NEW g \in RoomIds, MemberNext(who, g)
               PROVE  RoomNotOverfull'
    BY <1>1
  <2>1. CASE \E invitee \in Users \cup {None} : IntoRoom(who, invitee, g)
    BY <2>1, IntoRoomFits
  <2>2. CASE ExitAmongOthers(who, g)
    BY <2>2, RemovedFits
  <2>3. CASE ExitAsLast(who, g)
    BY <2>3, DeletedFits
  <2>4. CASE \/ \E quantity \in Quantities :
                  BuyPropsInRoom(who, g, quantity) \/ BuyAudioInRoom(who, g, quantity)
             \/ AskForDisbandRoom(who, g)
             \/ \E approves \in BOOLEAN : Vote(who, g, approves)
    BY <2>4, VotingFits DEF BuyPropsInRoom, BuyAudioInRoom
  <2>5. CASE \E lucky \in LuckyNumbers, amount \in PacketAmounts :
               SendRedpacketInRoom(who, g, lucky, amount)
    BY <2>5, OthersFit
  <2> QED BY <2>1, <2>2, <2>3, <2>4, <2>5 DEF MemberNext
<1>2. CASE \E who \in Users, max \in MemberLimits, cost \in JoinCosts,
             private \in BOOLEAN : CreateRoom(who, max, cost, private)
  BY <1>2, CreateRoomFits
<1>3. CASE \E g \in RoomIds : ManagerNext(g)
  BY <1>3, ManagerFits
<1>4. CASE \E g \in RoomIds : DisbandRoom(g)
  BY <1>4, DeletedFits
<1> QED BY <1>1, <1>2, <1>3, <1>4, OthersFit DEF Next

\* No room ever has more members than it may, or a member it has black-listed,
\* through any order of joining, resizing, removing and disbanding.
THEOREM NeverOverfull == Spec => []RoomNotOverfull
<1>1. Init => RoomNotOverfull
  BY DEF Init, EmptyMap, RoomNotOverfull
<1> QED BY <1>1, NextFits, InductiveInvariant, PTL DEF Spec

-----------------------------------------------------------------------------
(* The filter of the calls that ask for a vote and vote.                   *)

\* A step that stores at most the record of one room, without votes in it, and
\* announces and carries out no disbanding.
LEMMA VotesUntouched ==
  ASSUME IndInv, NoDisbandingUnderFilter, UNCHANGED disbanding,
         NEW g \in DOMAIN AllRoom, NEW room, DOMAIN room = DOMAIN AllRoom[g],
         AllRoom' = [AllRoom EXCEPT ![g] = room],
         room.disband_vote = AllRoom[g].disband_vote
  PROVE  NoDisbandingUnderFilter'
BY DEF NoDisbandingUnderFilter, disbanding

\* No one has voted, so a purchase counts no vote.
LEMMA BuyUntouched ==
  ASSUME IndInv, NoDisbandingUnderFilter, NEW call, NEW item, NEW who, NEW g,
         NEW quantity, Buy(call, item, who, g, quantity)
  PROVE  NoDisbandingUnderFilter'
<1> DEFINE amount == quantity * settings.price[item]
           paid == [AllRoom[g] EXCEPT !.total_balances = @ + amount,
                                      !.consume[who] = @ + amount]
<1>1. g \in DOMAIN AllRoom /\ ~HasVoted(AllRoom[g], who)
  BY DEF Buy, InRoom, HasVoted, NoDisbandingUnderFilter, NoVotes
<1>2. AllRoom' = [AllRoom EXCEPT ![g] = paid] /\ UNCHANGED disbanding
  BY <1>1 DEF Buy
<1> HIDE DEF amount
<1>3. DOMAIN paid = DOMAIN AllRoom[g] /\ paid.disband_vote = AllRoom[g].disband_vote
  BY <1>1, RoomFacts DEF RoomInfo
<1> HIDE DEF paid
<1> QED BY <1>1, <1>2, <1>3, VotesUntouched

\* What the manager, the council and the room treasury do starts no vote.
LEMMA ManagerUntouched ==
  ASSUME IndInv, NoDisbandingUnderFilter, NEW g, ManagerNext(g)
  PROVE  NoDisbandingUnderFilter'
<1>1. PICK room : UpdateRoom(g, room)
  BY DEF ManagerNext, SetCouncilMembers, AddCouncilMember, RemoveCouncilMember,
     RemoveSomeoneFromBlacklist, UpdateJoinCost, SetRoomPrivacy, RemoveSomeone,
     SetMaxNumberForRoomMembers, ManagerGetReward, SubRoomFreeAmount
<1>2. g \in DOMAIN AllRoom
  BY DEF ManagerNext, SetCouncilMembers, AddCouncilMember, RemoveCouncilMember,
     RemoveSomeoneFromBlacklist, UpdateJoinCost, SetRoomPrivacy, RemoveSomeone,
     SetMaxNumberForRoomMembers, ManagerGetReward, SubRoomFreeAmount, RoomOrigin
<1>3. AllRoom[g] \in RoomInfo
  BY <1>2, RoomFacts
<1>4. AllRoom'[g].disband_vote = AllRoom[g].disband_vote
  <2>1. CASE \E council \in SUBSET Users : SetCouncilMembers(g, council)
    BY <1>2, <1>3, <2>1 DEF SetCouncilMembers, UpdateRoom, RoomInfo
  <2>2. CASE \E who \in Users : AddCouncilMember(g, who)
    BY <1>2, <1>3, <2>2 DEF AddCouncilMember, UpdateRoom, RoomInfo
  <2>3. CASE \E who \in Users : RemoveCouncilMember(g, who)
    BY <1>2, <1>3, <2>3 DEF RemoveCouncilMember, UpdateRoom, RoomInfo
  <2>4. CASE \E who \in Users : RemoveSomeoneFromBlacklist(g, who)
    BY <1>2, <1>3, <2>4 DEF RemoveSomeoneFromBlacklist, UpdateRoom, RoomInfo
  <2>5. CASE \E who \in Users, by_root \in BOOLEAN : RemoveSomeone(g, who, by_root)
    <3>1. PICK who \in Users, by_root \in BOOLEAN : RemoveSomeone(g, who, by_root)
      BY <2>5
    <3> DEFINE block == IF by_root THEN now ELSE AllRoom[g].last_remove_someone_block
               removed == [AllRoom[g] EXCEPT !.black_list = @ \cup {who},
                                             !.last_remove_someone_block = block]
    <3>2. AllRoom'[g] = RemoveSomeoneInRoom(removed, who)
      BY <1>2, <3>1 DEF RemoveSomeone, UpdateRoom
    <3> HIDE DEF block
    <3>3. /\ {"now_members_number", "consume", "disband_vote"} \subseteq DOMAIN removed
          /\ removed.disband_vote = AllRoom[g].disband_vote
      BY <1>3 DEF RoomInfo
    <3> HIDE DEF removed
    <3> QED BY <3>2, <3>3 DEF RemoveSomeoneInRoom
  <2>6. CASE \E cost \in JoinCosts : UpdateJoinCost(g, cost)
    BY <1>2, <1>3, <2>6 DEF UpdateJoinCost, UpdateRoom, RoomInfo
  <2>7. CASE \E private \in BOOLEAN : SetRoomPrivacy(g, private)
    BY <1>2, <1>3, <2>7 DEF SetRoomPrivacy, UpdateRoom, RoomInfo
  <2>8. CASE \E new_max \in MemberLimits : SetMaxNumberForRoomMembers(g, new_max)
    BY <1>2, <1>3, <2>8 DEF SetMaxNumberForRoomMembers, UpdateRoom, RoomInfo
  <2>9. CASE ManagerGetReward(g)
    <3> DEFINE last == AllRoom[g].last_block_of_get_the_reward
                         + RewardPeriods(AllRoom[g]) * RewardDuration
               balances == RewardedBalances(AllRoom[g], TotalReward(AllRoom[g]))
    <3>1. AllRoom'[g] = [AllRoom[g] EXCEPT !.total_balances = balances,
                                           !.last_block_of_get_the_reward = last]
      BY <1>2, <2>9 DEF ManagerGetReward, UpdateRoom
    <3> HIDE DEF last, balances
    <3> QED BY <1>3, <3>1 DEF RoomInfo
  <2>10. CASE \E amount \in PacketAmounts : SubRoomFreeAmount(g, amount)
    BY <1>2, <1>3, <2>10 DEF SubRoomFreeAmount, UpdateRoom, RoomInfo
  <2> QED BY <2>1, <2>2, <2>3, <2>4, <2>5, <2>6, <2>7, <2>8, <2>9, <2>10 DEF ManagerNext
<1> QED BY <1>1, <1>2, <1>4 DEF UpdateRoom, NoDisbandingUnderFilter, disbanding

\* What members do that are not let vote starts no vote.
LEMMA MembersUntouched ==
  ASSUME IndInv, NoDisbandingUnderFilter,
         "vote" \notin Permitted, "ask_for_disband_room" \notin Permitted,
         NEW who \in Users, NEW g \in RoomIds, MemberNext(who, g)
  PROVE  NoDisbandingUnderFilter'
<1>1. CASE \E quantity \in Quantities :
             BuyPropsInRoom(who, g, quantity) \/ BuyAudioInRoom(who, g, quantity)
  BY <1>1, BuyUntouched DEF BuyPropsInRoom, BuyAudioInRoom
<1>2. CASE \E invitee \in Users \cup {None} : IntoRoom(who, invitee, g)
  <2>1. PICK invitee \in Users \cup {None} : IntoRoom(who, invitee, g)
    BY <1>2
  <2> DEFINE later == PayForManagerLater(AllRoom[g].join_cost)
             total == AllRoom[g].total_balances
                        + PayForRoomLater(AllRoom[g].join_cost) + later
             room == [AllRoom[g] EXCEPT !.total_balances = total,
                                        !.group_manager_balances = @ + later,
                                        !.now_members_number = @ + 1]
  <2>2. /\ g \in DOMAIN AllRoom /\ AllRoom' = [AllRoom EXCEPT ![g] = room]
        /\ UNCHANGED disbanding
    BY <2>1 DEF IntoRoom, Joined
  <2> HIDE DEF later, total
  <2>3. DOMAIN room = DOMAIN AllRoom[g] /\ room.disband_vote = AllRoom[g].disband_vote
    BY <2>2, RoomFacts DEF RoomInfo
  <2> HIDE DEF room
  <2> QED BY <2>2, <2>3, VotesUntouched
<1>3. CASE ExitAmongOthers(who, g)
  <2> DEFINE shared == [AllRoom[g] EXCEPT
                          !.total_balances = @ - QuitShare(AllRoom[g])]
             room == RemoveSomeoneInRoom(shared, who)
  <2>1. /\ g \in DOMAIN AllRoom /\ AllRoom' = [AllRoom EXCEPT ![g] = room]
        /\ UNCHANGED disbanding
    BY <1>3 DEF ExitAmongOthers, InRoom, UpdateRoom
  <2>2. /\ DOMAIN shared = DOMAIN AllRoom[g]
        /\ shared.disband_vote = AllRoom[g].disband_vote
        /\ {"now_members_number", "consume", "disband_vote"} \subseteq DOMAIN shared
    BY <2>1, RoomFacts DEF RoomInfo
  <2> HIDE DEF shared
  <2>3. DOMAIN room = DOMAIN AllRoom[g] /\ room.disband_vote = AllRoom[g].disband_vote
    BY <2>2 DEF RemoveSomeoneInRoom
  <2> HIDE DEF room
  <2> QED BY <2>1, <2>3, VotesUntouched
<1>4. CASE ExitAsLast(who, g)
  BY <1>4 DEF ExitAsLast, Remove, Restrict, disbanding, NoDisbandingUnderFilter
<1>5. CASE \E lucky \in LuckyNumbers, amount \in PacketAmounts :
             SendRedpacketInRoom(who, g, lucky, amount)
  BY <1>5 DEF SendRedpacketInRoom, disbanding, NoDisbandingUnderFilter
<1> QED BY <1>1, <1>2, <1>3, <1>4, <1>5 DEF MemberNext, Vote, AskForDisbandRoom

\* Without those two calls no step starts a vote, announces or carries out a
\* disbanding.
LEMMA NextUntouched ==
  ASSUME IndInv, NoDisbandingUnderFilter,
         "vote" \notin Permitted, "ask_for_disband_room" \notin Permitted, [Next]_vars
  PROVE  NoDisbandingUnderFilter'
<1>1. CASE NewBlock \/ UNCHANGED vars
  BY <1>1 DEF NewBlock, vars, disbanding, NoDisbandingUnderFilter
<1>2. CASE RootNext
  <2>1. PICK call, new : ChangeSettings(call, new)
    BY <1>2 DEF RootNext, SetCreateCost, SetRemoveInterval, SetDisbandInterval,
                SetPropsPrice, SetAudioPrice, SetRedpackMinAmount
  <2> QED BY <2>1 DEF ChangeSettings, disbanding, NoDisbandingUnderFilter
<1>3. CASE \E who \in Users, max \in MemberLimits, cost \in JoinCosts,
             private \in BOOLEAN : CreateRoom(who, max, cost, private)
  BY <1>3 DEF CreateRoom, Put, disbanding, NoDisbandingUnderFilter
<1>4. CASE \E g \in RoomIds : ManagerNext(g)
  BY <1>4, ManagerUntouched
<1>5. CASE \E who \in Users, g \in RoomIds : MemberNext(who, g)
  BY <1>5, MembersUntouched
<1>6. CASE \E g \in RoomIds : DisbandRoom(g)
  BY <1>6 DEF DisbandRoom, IsCanDisband, NoDisbandingUnderFilter, EmptyMap
<1>7. CASE \E g \in RoomIds : GiveBackExpiredRedpacket(g)
  BY <1>7 DEF GiveBackExpiredRedpacket, disbanding, NoDisbandingUnderFilter
<1>8. CASE \E who \in Users : PayOut(who)
  <2>1. PICK who \in Users : PayOut(who)
    BY <1>8
  <2>2. /\ DOMAIN InfoOfDisbandedRoom' = DOMAIN InfoOfDisbandedRoom
        /\ \E f : InfoOfDisbandedRoom' = [k \in DOMAIN InfoOfDisbandedRoom |-> f[k]]
        /\ UNCHANGED <<AllRoom, PendingDisbandRooms>>
    BY <2>1 DEF PayOut
  <2>3. InfoOfDisbandedRoom' = EmptyMap
    BY <2>2 DEF NoDisbandingUnderFilter, EmptyMap
  <2> QED BY <2>2, <2>3 DEF NoDisbandingUnderFilter
<1>9. CASE \E k \in DOMAIN RedPacketOfRoom, who \in Users, amount \in PacketAmounts :
             GetRedpacketInRoom(k[1], k[2], who, amount)
  <2>1. PICK g, id, who, amount : GetRedpacketInRoom(g, id, who, amount)
    BY <1>9
  <2>2. UNCHANGED <<clock, counters, treasury, AllRoom, members, disbanding>>
    BY <2>1 DEF GetRedpacketInRoom
  <2> QED BY <2>2 DEF disbanding, NoDisbandingUnderFilter
<1> QED BY <1>1, <1>2, <1>3, <1>4, <1>5, <1>6, <1>7, <1>8, <1>9 DEF Next

\* Under the runtimes' filter no room is ever disbanded, although buying in a room
\* counts votes as well: that ask_for_disband_room and vote are rejected is all it
\* takes.
THEOREM FilterStopsDisbanding ==
  ASSUME \A call \in Permitted : SystemBaseCallFilter(call)
  PROVE  Spec => []NoDisbandingUnderFilter
<1> "vote" \notin Permitted /\ "ask_for_disband_room" \notin Permitted
  BY DEF SystemBaseCallFilter
<1>1. Init => NoDisbandingUnderFilter
  BY DEF Init, EmptyMap, NoDisbandingUnderFilter
<1>2. IndInv /\ NoDisbandingUnderFilter /\ [Next]_vars => NoDisbandingUnderFilter'
  BY NextUntouched
<1> QED BY <1>1, <1>2, InductiveInvariant, PTL DEF Spec

-----------------------------------------------------------------------------
(* Room implements RoomLifecycle, and while a disbanding is pending nobody *)
(* changes who its room is shared by, nor what, once its block is come.    *)
(*                                                                         *)
(* Both rest on one more invariant, NoticesBacked: a room has a notice only*)
(* if something was spent in it, and nothing of that is taken back while   *)
(* the notice runs. Without it a second request could disband the room at  *)
(* once and store its record again, without its notice.                    *)

\* The notices are a storage map, and something was spent in every room that has
\* one.
NoticesBacked ==
  /\ PendingDisbandRooms =
       [g \in DOMAIN PendingDisbandRooms |-> PendingDisbandRooms[g]]
  /\ \A g \in DOMAIN PendingDisbandRooms : GetRoomConsumeAmount(AllRoom[g]) # 0

\* Who shares room g, and the manager's part of it, stay as they are.
Frozen(g) ==
  /\ ListenersOfRoom'[g] = ListenersOfRoom[g]
  /\ AllRoom'[g].now_members_number = AllRoom[g].now_members_number
  /\ AllRoom'[g].consume = AllRoom[g].consume
  /\ AllRoom'[g].group_manager_balances = AllRoom[g].group_manager_balances

\* A step of the abstract specification or none.
LifecycleStep == [Lifecycle!LifecycleNext]_(Lifecycle!lifecycle)

\* What every step does.
Kept ==
  /\ \A g \in DOMAIN PendingDisbandRooms \cap DOMAIN PendingDisbandRooms' : Frozen(g)
  /\ NoticesBacked'
  /\ LifecycleStep

\* What a step does that no room starts, ends or gets a notice by.
Quiet ==
  /\ UNCHANGED <<now, NextGroupId, PendingDisbandRooms>>
  /\ DOMAIN AllRoom' = DOMAIN AllRoom
  /\ \A g \in DOMAIN PendingDisbandRooms : Frozen(g)

-----------------------------------------------------------------------------
(* Kinds of steps.                                                         *)

\* The rooms with a notice exist.
LEMMA PendingExist ==
  ASSUME IndInv
  PROVE  /\ DOMAIN PendingDisbandRooms \subseteq DOMAIN AllRoom
         /\ DOMAIN AllRoom \subseteq RoomIds
         /\ NextGroupId \notin DOMAIN AllRoom
         /\ NextGroupId \in Nat
<1>1. DOMAIN PendingDisbandRooms \subseteq DOMAIN AllRoom
  BY DEF IndInv, NothingOutlivesRoom
<1>2. DOMAIN AllRoom \subseteq RoomIds /\ NextGroupId \in Nat
  BY DEF IndInv, TypeOK, RoomsTyped, CountersTyped
<1>3. \A g \in DOMAIN AllRoom : g < NextGroupId
  BY DEF IndInv, RoomIdsFresh
<1> QED BY <1>1, <1>2, <1>3

\* A quiet step is a stutter of the abstract specification.
LEMMA QuietKept == ASSUME IndInv, NoticesBacked, Quiet PROVE Kept
<1>1. NoticesBacked'
  BY DEF Quiet, Frozen, NoticesBacked, GetRoomConsumeAmount
<1>2. UNCHANGED Lifecycle!lifecycle
  BY DEF Quiet, Lifecycle!lifecycle
<1> QED BY <1>1, <1>2 DEF Kept, Quiet, LifecycleStep

\* A step that touches no room's record and no listener is quiet.
LEMMA UntouchedQuiet ==
  ASSUME UNCHANGED <<now, NextGroupId, PendingDisbandRooms, AllRoom, ListenersOfRoom>>
  PROVE  Quiet
BY DEF Quiet, Frozen

\* A call that stores the record of a room without a notice is quiet.
LEMMA OpenRoomQuiet ==
  ASSUME IndInv, NEW g \in DOMAIN AllRoom, ~Pending(g), NEW room,
         AllRoom' = [AllRoom EXCEPT ![g] = room],
         \A h \in RoomIds : h # g => ListenersOfRoom'[h] = ListenersOfRoom[h],
         UNCHANGED <<now, NextGroupId, PendingDisbandRooms>>
  PROVE  Quiet
BY PendingExist DEF Quiet, Frozen, Pending

\* So is one that changes nothing of a room's record that is shared.
LEMMA SettingQuiet ==
  ASSUME IndInv, NEW g \in DOMAIN AllRoom, NEW room,
         AllRoom' = [AllRoom EXCEPT ![g] = room],
         room.now_members_number = AllRoom[g].now_members_number,
         room.consume = AllRoom[g].consume,
         room.group_manager_balances = AllRoom[g].group_manager_balances,
         UNCHANGED <<now, NextGroupId, PendingDisbandRooms, ListenersOfRoom>>
  PROVE  Quiet
BY PendingExist DEF Quiet, Frozen

\* The end of every call that may count votes: it gives notice, or starts and
\* ends nothing. A room that has a notice is not disbanded at once.
LEMMA JudgeKept ==
  ASSUME IndInv, NoticesBacked, NEW g \in DOMAIN AllRoom, NEW room,
         NEW balances, JudgeAndInsert(g, room, balances),
         DOMAIN room = DOMAIN AllRoom[g],
         UNCHANGED <<now, NextGroupId>>,
         Pending(g) => /\ room.now_members_number = AllRoom[g].now_members_number
                       /\ room.consume = AllRoom[g].consume
                       /\ room.group_manager_balances = AllRoom[g].group_manager_balances
  PROVE  Kept
<1> DEFINE result == VoteEndResult(room, now)
           immediate == result = "pass" /\ GetRoomConsumeAmount(room) = 0
<1>1. ListenersOfRoom \in [RoomIds -> SUBSET Users] /\ g \in RoomIds
  BY PendingExist DEF IndInv, TypeOK, MembersTyped
<1>2. CASE immediate
  <2>1. DoDisband(g, room, balances) /\ AllRoom' = [AllRoom EXCEPT ![g] = room]
    BY <1>2 DEF JudgeAndInsert
  <2>2. ~Pending(g)
    BY <1>2 DEF NoticesBacked, Pending, GetRoomConsumeAmount
  <2>3. PendingDisbandRooms' =
          [k \in DOMAIN PendingDisbandRooms \ {g} |-> PendingDisbandRooms[k]]
    BY <2>1 DEF DoDisband, Remove, Restrict
  <2>4. PendingDisbandRooms' = PendingDisbandRooms
    BY <2>2, <2>3 DEF Pending, NoticesBacked
  <2>5. \A h \in RoomIds : h # g => ListenersOfRoom'[h] = ListenersOfRoom[h]
    BY <1>1, <2>1 DEF DoDisband
  <2> QED BY <2>1, <2>2, <2>4, <2>5, OpenRoomQuiet, QuietKept
<1>3. CASE ~immediate
  <2> DEFINE stored ==
        CASE result = "pass" -> [room EXCEPT !.disband_vote_end_block = now]
          [] result = "not_pass" -> RemoveVoteInfo(room, now)
          [] result = "not_end" -> room
  <2>1. /\ AllRoom' = [AllRoom EXCEPT ![g] = stored]
        /\ PendingDisbandRooms' =
             IF result = "pass"
             THEN Put(PendingDisbandRooms, g, now + DelayDisbandDuration)
             ELSE PendingDisbandRooms
        /\ UNCHANGED ListenersOfRoom
    BY <1>3 DEF JudgeAndInsert
  <2>2. /\ stored.now_members_number = room.now_members_number
        /\ stored.consume = room.consume
        /\ stored.group_manager_balances = room.group_manager_balances
    <3>1. result \in {"pass", "not_pass", "not_end"}
      BY VoteResults
    <3>2. DOMAIN room = DOMAIN AllRoom[g] /\ AllRoom[g] \in RoomInfo
      BY RoomFacts
    <3>3. {"disband_vote", "disband_vote_end_block", "now_members_number", "consume",
           "group_manager_balances"} \subseteq DOMAIN room
      BY <3>2 DEF RoomInfo
    <3> HIDE DEF result
    <3> QED BY <3>1, <3>3 DEF RemoveVoteInfo
  <2>3. result = "pass" => GetRoomConsumeAmount(room) # 0
    BY <1>3
  <2> HIDE DEF stored, result
  <2>4. \A h \in DOMAIN PendingDisbandRooms : Frozen(h)
    BY <2>1, <2>2, PendingExist DEF Frozen, Pending
  <2>5. DOMAIN AllRoom' = DOMAIN AllRoom /\ AllRoom'[g] = stored
    BY <2>1
  <2>6. CASE result = "pass"
    <3>1. PendingDisbandRooms' =
            [r \in DOMAIN PendingDisbandRooms \cup {g} |->
               IF r = g THEN now + DelayDisbandDuration ELSE PendingDisbandRooms[r]]
      BY <2>1, <2>6 DEF Put
    <3>2. DOMAIN PendingDisbandRooms' = DOMAIN PendingDisbandRooms \cup {g}
      BY <3>1
    <3>3. NoticesBacked'
      <4>1. \A h \in DOMAIN PendingDisbandRooms : GetRoomConsumeAmount(AllRoom'[h]) # 0
        BY <2>4 DEF Frozen, NoticesBacked, GetRoomConsumeAmount
      <4>2. GetRoomConsumeAmount(AllRoom'[g]) # 0
        BY <2>2, <2>3, <2>5, <2>6 DEF GetRoomConsumeAmount
      <4>3. PendingDisbandRooms' =
              [r \in DOMAIN PendingDisbandRooms' |-> PendingDisbandRooms'[r]]
        BY <3>1
      <4> QED BY <3>2, <4>1, <4>2, <4>3 DEF NoticesBacked
    <3>4. Lifecycle!GiveNotice(g)
      BY <2>5, <3>1, <3>2 DEF Lifecycle!GiveNotice, Lifecycle!Rooms
    <3>5. LifecycleStep
      BY <3>4 DEF LifecycleStep, Lifecycle!LifecycleNext, Lifecycle!Rooms
    <3> QED BY <2>4, <3>3, <3>5 DEF Kept
  <2>7. CASE result # "pass"
    BY <2>1, <2>4, <2>5, <2>7, QuietKept DEF Quiet
  <2> QED BY <2>6, <2>7
<1> QED BY <1>2, <1>3

-----------------------------------------------------------------------------
(* The steps one by one.                                                   *)

\* A block is a tick.
LEMMA NewBlockKept == ASSUME IndInv, NoticesBacked, NewBlock PROVE Kept
<1>1. UNCHANGED <<NextGroupId, PendingDisbandRooms, AllRoom, ListenersOfRoom>>
  BY DEF NewBlock, counters, members, disbanding
<1>2. Lifecycle!Tick
  BY <1>1 DEF NewBlock, Lifecycle!Tick
<1>3. NoticesBacked'
  BY <1>1 DEF NoticesBacked, GetRoomConsumeAmount
<1> QED BY <1>1, <1>2, <1>3 DEF Kept, Frozen, LifecycleStep, Lifecycle!LifecycleNext

\* What root sets is quiet.
LEMMA RootQuiet == ASSUME RootNext PROVE Quiet
<1>1. PICK call, new : ChangeSettings(call, new)
  BY DEF RootNext, SetCreateCost, SetRemoveInterval, SetDisbandInterval, SetPropsPrice,
         SetAudioPrice, SetRedpackMinAmount
<1> QED BY <1>1, UntouchedQuiet DEF ChangeSettings, counters, members, disbanding

\* create_room opens the room of the next id.
LEMMA CreateRoomKept ==
  ASSUME IndInv, NoticesBacked, NEW who, NEW max, NEW cost, NEW private,
         CreateRoom(who, max, cost, private)
  PROVE  Kept
<1>1. /\ NextGroupId' = NextGroupId + 1
      /\ UNCHANGED <<now, PendingDisbandRooms>>
      /\ DOMAIN AllRoom' = DOMAIN AllRoom \cup {NextGroupId}
      /\ \A g \in DOMAIN AllRoom : g # NextGroupId => AllRoom'[g] = AllRoom[g]
  BY DEF CreateRoom, clock, disbanding, Put
<1>2. \A g \in DOMAIN AllRoom : ListenersOfRoom'[g] = ListenersOfRoom[g]
  BY PendingExist DEF CreateRoom, AddUserExtra, IndInv, TypeOK, MembersTyped
<1>3. \A g \in DOMAIN PendingDisbandRooms : Frozen(g)
  BY <1>1, <1>2, PendingExist DEF Frozen
<1>4. NoticesBacked'
  BY <1>1, <1>3 DEF NoticesBacked, Frozen, GetRoomConsumeAmount
<1>5. Lifecycle!Open
  BY <1>1, PendingExist DEF Lifecycle!Open
<1> QED BY <1>3, <1>4, <1>5 DEF Kept, LifecycleStep, Lifecycle!LifecycleNext

\* Joining a room, and leaving one others stay in, are quiet.
LEMMA MembersQuiet ==
  ASSUME IndInv, NEW g,
         \/ \E who \in Users, invitee \in Users \cup {None} : IntoRoom(who, invitee, g)
         \/ \E who \in Users : ExitAmongOthers(who, g)
         \/ \E who \in Users, by_root \in BOOLEAN : RemoveSomeone(g, who, by_root)
  PROVE  Quiet
<1>1. ListenersOfRoom \in [RoomIds -> SUBSET Users]
  BY DEF IndInv, TypeOK, MembersTyped
<1>2. /\ g \in DOMAIN AllRoom /\ ~Pending(g)
      /\ \E room : AllRoom' = [AllRoom EXCEPT ![g] = room]
      /\ \A h \in RoomIds : h # g => ListenersOfRoom'[h] = ListenersOfRoom[h]
      /\ UNCHANGED <<now, NextGroupId, PendingDisbandRooms>>
  <2>1. CASE \E who \in Users, invitee \in Users \cup {None} : IntoRoom(who, invitee, g)
    BY <1>1, <2>1 DEF IntoRoom, AddUserExtra, clock, counters, disbanding
  <2>2. CASE \E who \in Users : ExitAmongOthers(who, g)
    BY <1>1, <2>2 DEF ExitAmongOthers, InRoom, UpdateRoom, clock, counters, disbanding
  <2>3. CASE \E who \in Users, by_root \in BOOLEAN : RemoveSomeone(g, who, by_root)
    BY <1>1, <2>3 DEF RemoveSomeone, InRoom, UpdateRoom, clock, counters, disbanding
  <2> QED BY <2>1, <2>2, <2>3
<1> QED BY <1>2, OpenRoomQuiet

\* The exit of the last one gives the room up.
LEMMA ExitAsLastKept ==
  ASSUME IndInv, NoticesBacked, NEW who \in Users, NEW g, ExitAsLast(who, g)
  PROVE  Kept
<1>1. /\ g \in DOMAIN AllRoom /\ g \notin DOMAIN PendingDisbandRooms
      /\ AllRoom' = [r \in DOMAIN AllRoom \ {g} |-> AllRoom[r]]
      /\ ListenersOfRoom' = [ListenersOfRoom EXCEPT ![g] = {}]
      /\ UNCHANGED <<now, NextGroupId, PendingDisbandRooms>>
  BY DEF ExitAsLast, InRoom, Pending, Remove, Restrict, clock, counters, disbanding
<1>2. \A h \in DOMAIN PendingDisbandRooms : Frozen(h)
  BY <1>1, PendingExist DEF Frozen, IndInv, TypeOK, MembersTyped
<1>3. NoticesBacked'
  BY <1>1, <1>2 DEF NoticesBacked, Frozen, GetRoomConsumeAmount
<1>4. Lifecycle!GiveUp(g) /\ g \in Lifecycle!Rooms
  BY <1>1 DEF Lifecycle!GiveUp, Lifecycle!Rooms
<1> QED BY <1>2, <1>3, <1>4 DEF Kept, LifecycleStep, Lifecycle!LifecycleNext

\* disband_room closes a room whose notice has run out.
LEMMA DisbandRoomKept ==
  ASSUME IndInv, NoticesBacked, NEW g, DisbandRoom(g)
  PROVE  Kept
<1>1. /\ g \in DOMAIN PendingDisbandRooms /\ now >= PendingDisbandRooms[g]
      /\ PendingDisbandRooms' =
           [r \in DOMAIN PendingDisbandRooms \ {g} |-> PendingDisbandRooms[r]]
      /\ AllRoom' = [r \in DOMAIN AllRoom \ {g} |-> AllRoom[r]]
      /\ ListenersOfRoom' = [ListenersOfRoom EXCEPT ![g] = {}]
      /\ UNCHANGED <<now, NextGroupId>>
  BY DEF DisbandRoom, DoDisband, IsCanDisband, Remove, Restrict, clock, counters
<1>2. \A h \in DOMAIN PendingDisbandRooms' : Frozen(h)
  BY <1>1, PendingExist DEF Frozen, IndInv, TypeOK, MembersTyped
<1>3. NoticesBacked'
  <2>1. \A h \in DOMAIN PendingDisbandRooms' :
          AllRoom'[h].consume = AllRoom[h].consume /\ h \in DOMAIN PendingDisbandRooms
    BY <1>1, <1>2 DEF Frozen
  <2>2. \A h \in DOMAIN PendingDisbandRooms' : GetRoomConsumeAmount(AllRoom'[h]) # 0
    BY <2>1 DEF NoticesBacked, GetRoomConsumeAmount
  <2>3. PendingDisbandRooms' =
          [r \in DOMAIN PendingDisbandRooms' |-> PendingDisbandRooms'[r]]
    BY <1>1
  <2> QED BY <2>2, <2>3 DEF NoticesBacked
<1>4. Lifecycle!Close(g) /\ g \in Lifecycle!Rooms
  BY <1>1, PendingExist DEF Lifecycle!Close, Lifecycle!Rooms
<1> QED BY <1>2, <1>3, <1>4 DEF Kept, LifecycleStep, Lifecycle!LifecycleNext

\* ask_for_disband_room gives notice, if it decides at once, or starts a vote.
LEMMA AskKept ==
  ASSUME IndInv, NoticesBacked, NEW who \in Users, NEW g, AskForDisbandRoom(who, g)
  PROVE  Kept
<1> DEFINE room == AllRoom[g]
           asked == [room EXCEPT
             !.disband_vote = Approve(NoVotes, who, room.consume[who]),
             !.disband_vote_end_block = now + VoteExpire]
           balances == [free EXCEPT ![who] = free[who] - Percent(10, room.create_payment)]
<1>1. /\ g \in DOMAIN AllRoom
      /\ JudgeAndInsert(g, asked, balances)
      /\ UNCHANGED <<now, NextGroupId>>
  BY DEF AskForDisbandRoom, InRoom, clock, counters
<1>2. /\ DOMAIN asked = DOMAIN room
      /\ asked.now_members_number = room.now_members_number
      /\ asked.consume = room.consume
      /\ asked.group_manager_balances = room.group_manager_balances
  BY <1>1, RoomFacts DEF RoomInfo
<1> HIDE DEF asked, balances
<1> QED BY <1>1, <1>2, JudgeKept

\* vote gives notice or goes on.
LEMMA VoteKept ==
  ASSUME IndInv, NoticesBacked, NEW who, NEW g, NEW approves, Vote(who, g, approves)
  PROVE  Kept
<1> DEFINE votes == IF approves
                    THEN Approve(AllRoom[g].disband_vote, who, AllRoom[g].consume[who])
                    ELSE Reject(AllRoom[g].disband_vote, who, AllRoom[g].consume[who])
           voted == [AllRoom[g] EXCEPT !.disband_vote = votes]
<1>1. /\ g \in DOMAIN AllRoom /\ ~Pending(g)
      /\ JudgeAndInsert(g, voted, free)
      /\ UNCHANGED <<now, NextGroupId>>
  BY DEF Vote, InRoom, clock, counters
<1>2. DOMAIN voted = DOMAIN AllRoom[g]
  OBVIOUS
<1> HIDE DEF voted
<1> QED BY <1>1, <1>2, JudgeKept

\* buy_props_in_room and buy_audio_in_room give notice, if they decide a vote.
LEMMA BuyKept ==
  ASSUME IndInv, NoticesBacked, NEW call, NEW item, NEW who, NEW g, NEW quantity,
         Buy(call, item, who, g, quantity)
  PROVE  Kept
<1> DEFINE amount == quantity * settings.price[item]
           paid == [AllRoom[g] EXCEPT !.total_balances = @ + amount,
                                      !.consume[who] = @ + amount]
           voted == [paid EXCEPT
                       !.disband_vote = AddWeight(AllRoom[g].disband_vote, who, amount)]
           balances == [free EXCEPT ![who] = free[who] - amount]
<1>1. /\ g \in DOMAIN AllRoom /\ ~Pending(g)
      /\ UNCHANGED <<now, NextGroupId>>
      /\ \/ JudgeAndInsert(g, voted, balances)
         \/ /\ AllRoom' = [AllRoom EXCEPT ![g] = paid]
            /\ UNCHANGED <<ListenersOfRoom, disbanding>>
  BY DEF Buy, InRoom, clock, counters
<1>2. DOMAIN paid = DOMAIN AllRoom[g] /\ DOMAIN voted = DOMAIN AllRoom[g]
  BY <1>1, RoomFacts DEF RoomInfo
<1> HIDE DEF paid, voted, balances
<1>3. CASE JudgeAndInsert(g, voted, balances)
  BY <1>1, <1>2, <1>3, JudgeKept
<1>4. CASE /\ AllRoom' = [AllRoom EXCEPT ![g] = paid]
           /\ UNCHANGED <<ListenersOfRoom, disbanding>>
  BY <1>1, <1>4, OpenRoomQuiet, QuietKept DEF disbanding
<1> QED BY <1>1, <1>3, <1>4

\* pay_out is quiet: no listener is left in the rooms it pays for.
LEMMA PayOutQuiet == ASSUME IndInv, NEW who, PayOut(who) PROVE Quiet
<1> DEFINE due == {g \in RoomIds \ DOMAIN AllRoom : NotGetEntries(who, g) # {}}
           found == {g \in due : RewardSessions(g) # {}}
           left(g) == LET info == InfoOfDisbandedRoom[LatestReward(g)]
                      IN IF info.total_person - info.already_get_count
                              \in 1 .. Cardinality(NotGetEntries(who, g))
                         THEN {} ELSE ListenersOfRoom[g] \ {who}
<1>1. /\ ListenersOfRoom' =
           [g \in RoomIds |-> IF g \notin found THEN ListenersOfRoom[g] ELSE left(g)]
      /\ UNCHANGED <<now, NextGroupId, PendingDisbandRooms, AllRoom>>
  BY DEF PayOut, clock, counters
<1>2. found \cap DOMAIN AllRoom = {}
  OBVIOUS
<1> HIDE DEF found, left
<1>3. \A g \in DOMAIN AllRoom : ListenersOfRoom'[g] = ListenersOfRoom[g]
  BY <1>1, <1>2, PendingExist
<1> QED BY <1>1, <1>3, PendingExist DEF Quiet, Frozen

\* So are the calls on red packets.
LEMMA PacketsQuiet ==
  ASSUME \/ \E who, g, lucky, amount : SendRedpacketInRoom(who, g, lucky, amount)
         \/ \E g, id, who, amount : GetRedpacketInRoom(g, id, who, amount)
         \/ \E g : GiveBackExpiredRedpacket(g)
  PROVE  Quiet
<1>1. UNCHANGED <<now, NextGroupId, PendingDisbandRooms, AllRoom, ListenersOfRoom>>
  <2>1. CASE \E who, g, lucky, amount : SendRedpacketInRoom(who, g, lucky, amount)
    BY <2>1 DEF SendRedpacketInRoom, clock, members, disbanding
  <2>2. CASE \E g, id, who, amount : GetRedpacketInRoom(g, id, who, amount)
    <3>1. PICK g, id, who, amount : GetRedpacketInRoom(g, id, who, amount)
      BY <2>2
    <3>2. UNCHANGED <<clock, counters, treasury, AllRoom, members, disbanding>>
      BY <3>1 DEF GetRedpacketInRoom
    <3> QED BY <3>2 DEF clock, counters, members, disbanding
  <2>3. CASE \E g : GiveBackExpiredRedpacket(g)
    BY <2>3 DEF GiveBackExpiredRedpacket, clock, counters, members, disbanding
  <2> QED BY <2>1, <2>2, <2>3
<1> QED BY <1>1, UntouchedQuiet

\* What the manager, the council and the room treasury do is quiet: the room
\* treasury may spend what the members would share, and a reward may add to it,
\* but the divisor and the manager's part stay.
LEMMA ManagerQuiet == ASSUME IndInv, NEW g, ManagerNext(g) PROVE Quiet
<1>1. CASE \E who \in Users, by_root \in BOOLEAN : RemoveSomeone(g, who, by_root)
  BY <1>1, MembersQuiet
<1>2. CASE ~ \E who \in Users, by_root \in BOOLEAN : RemoveSomeone(g, who, by_root)
  <2>1. /\ g \in DOMAIN AllRoom
        /\ UNCHANGED <<now, NextGroupId, PendingDisbandRooms, ListenersOfRoom>>
    BY <1>2 DEF ManagerNext, SetCouncilMembers, AddCouncilMember, RemoveCouncilMember,
           RemoveSomeoneFromBlacklist, UpdateJoinCost, SetRoomPrivacy,
           SetMaxNumberForRoomMembers, ManagerGetReward, SubRoomFreeAmount, RoomOrigin,
           UpdateRoom, clock, counters, disbanding
  <2>2. AllRoom[g] \in RoomInfo
    BY <2>1, RoomFacts
  <2>3. PICK room :
          /\ AllRoom' = [AllRoom EXCEPT ![g] = room]
          /\ room.now_members_number = AllRoom[g].now_members_number
          /\ room.consume = AllRoom[g].consume
          /\ room.group_manager_balances = AllRoom[g].group_manager_balances
    <3>1. CASE \E council \in SUBSET Users : SetCouncilMembers(g, council)
      BY <2>2, <3>1 DEF SetCouncilMembers, UpdateRoom, RoomInfo
    <3>2. CASE \E who \in Users : AddCouncilMember(g, who) \/ RemoveCouncilMember(g, who)
                                    \/ RemoveSomeoneFromBlacklist(g, who)
      <4>1. CASE \E who \in Users : AddCouncilMember(g, who)
        BY <2>2, <4>1 DEF AddCouncilMember, UpdateRoom, RoomInfo
      <4>2. CASE \E who \in Users : RemoveCouncilMember(g, who)
        BY <2>2, <4>2 DEF RemoveCouncilMember, UpdateRoom, RoomInfo
      <4>3. CASE \E who \in Users : RemoveSomeoneFromBlacklist(g, who)
        BY <2>2, <4>3 DEF RemoveSomeoneFromBlacklist, UpdateRoom, RoomInfo
      <4> QED BY <3>2, <4>1, <4>2, <4>3
    <3>3. CASE \E cost \in JoinCosts : UpdateJoinCost(g, cost)
      BY <2>2, <3>3 DEF UpdateJoinCost, UpdateRoom, RoomInfo
    <3>4. CASE \E private \in BOOLEAN : SetRoomPrivacy(g, private)
      BY <2>2, <3>4 DEF SetRoomPrivacy, UpdateRoom, RoomInfo
    <3>5. CASE \E new_max \in MemberLimits : SetMaxNumberForRoomMembers(g, new_max)
      BY <2>2, <3>5 DEF SetMaxNumberForRoomMembers, UpdateRoom, RoomInfo
    <3>6. CASE ManagerGetReward(g)
      <4> DEFINE last == AllRoom[g].last_block_of_get_the_reward
                           + RewardPeriods(AllRoom[g]) * RewardDuration
                 balances == RewardedBalances(AllRoom[g], TotalReward(AllRoom[g]))
                 rewarded == [AllRoom[g] EXCEPT !.total_balances = balances,
                                                !.last_block_of_get_the_reward = last]
      <4>1. AllRoom' = [AllRoom EXCEPT ![g] = rewarded]
        BY <3>6 DEF ManagerGetReward, UpdateRoom
      <4> HIDE DEF last, balances
      <4>2. /\ rewarded.now_members_number = AllRoom[g].now_members_number
            /\ rewarded.consume = AllRoom[g].consume
            /\ rewarded.group_manager_balances = AllRoom[g].group_manager_balances
        BY <2>2 DEF RoomInfo
      <4> HIDE DEF rewarded
      <4> QED BY <4>1, <4>2
    <3>7. CASE \E amount \in PacketAmounts : SubRoomFreeAmount(g, amount)
      BY <2>2, <3>7 DEF SubRoomFreeAmount, UpdateRoom, RoomInfo
    <3> QED BY <1>2, <3>1, <3>2, <3>3, <3>4, <3>5, <3>6, <3>7 DEF ManagerNext
  <2> QED BY <2>1, <2>3, SettingQuiet
<1> QED BY <1>1, <1>2

-----------------------------------------------------------------------------
(* What every step does.                                                   *)

\* Every dispatchable and every new block is a step of RoomLifecycle or none, and
\* keeps who rooms with a notice are shared by.
LEMMA NextKept == ASSUME IndInv, NoticesBacked, [Next]_vars PROVE Kept
<1>1. CASE NewBlock
  BY <1>1, NewBlockKept
<1>2. CASE RootNext
  BY <1>2, RootQuiet, QuietKept
<1>3. CASE \E who \in Users, max \in MemberLimits, cost \in JoinCosts,
             private \in BOOLEAN : CreateRoom(who, max, cost, private)
  BY <1>3, CreateRoomKept
<1>4. CASE \E g \in RoomIds : ManagerNext(g)
  BY <1>4, ManagerQuiet, QuietKept
<1>5. CASE \E who \in Users, g \in RoomIds : MemberNext(who, g)
  <2> SUFFICES ASSUME NEW who \in Users, NEW g \in RoomIds, MemberNext(who, g)
               PROVE  Kept
    BY <1>5
  <2>1. CASE \/ \E invitee \in Users \cup {None} : IntoRoom(who, invitee, g)
             \/ ExitAmongOthers(who, g)
    BY <2>1, MembersQuiet, QuietKept
  <2>2. CASE ExitAsLast(who, g)
    BY <2>2, ExitAsLastKept
  <2>3. CASE \E quantity \in Quantities :
               BuyPropsInRoom(who, g, quantity) \/ BuyAudioInRoom(who, g, quantity)
    BY <2>3, BuyKept DEF BuyPropsInRoom, BuyAudioInRoom
  <2>4. CASE AskForDisbandRoom(who, g)
    BY <2>4, AskKept
  <2>5. CASE \E approves \in BOOLEAN : Vote(who, g, approves)
    BY <2>5, VoteKept
  <2>6. CASE \E lucky \in LuckyNumbers, amount \in PacketAmounts :
               SendRedpacketInRoom(who, g, lucky, amount)
    BY <2>6, PacketsQuiet, QuietKept
  <2> QED BY <2>1, <2>2, <2>3, <2>4, <2>5, <2>6 DEF MemberNext
<1>6. CASE \E g \in RoomIds : DisbandRoom(g) \/ GiveBackExpiredRedpacket(g)
  BY <1>6, DisbandRoomKept, PacketsQuiet, QuietKept
<1>7. CASE \E who \in Users : PayOut(who)
  BY <1>7, PayOutQuiet, QuietKept
<1>8. CASE \E k \in DOMAIN RedPacketOfRoom, who \in Users, amount \in PacketAmounts :
             GetRedpacketInRoom(k[1], k[2], who, amount)
  BY <1>8, PacketsQuiet, QuietKept
<1>9. CASE UNCHANGED vars
  BY <1>9, UntouchedQuiet, QuietKept DEF vars
<1> QED BY <1>1, <1>2, <1>3, <1>4, <1>5, <1>6, <1>7, <1>8, <1>9 DEF Next

-----------------------------------------------------------------------------
(* What is shared, from the announced block on.                            *)

\* Of no room with a notice does a step change what is shared, but before its
\* block by a reward or by what the room treasury spends.
AllSettled ==
  \A g \in DOMAIN PendingDisbandRooms \cap DOMAIN PendingDisbandRooms' : SharesSettled(g)

\* A step that touches the record of no room but one is right, if it is so of
\* that one.
LEMMA OthersSettled ==
  ASSUME NEW g,
         \A h \in DOMAIN PendingDisbandRooms : h # g => AllRoom'[h] = AllRoom[h],
         g \in DOMAIN PendingDisbandRooms \cap DOMAIN PendingDisbandRooms'
           => SharesSettled(g)
  PROVE  AllSettled
BY DEF AllSettled, SharesSettled

\* So is one that stores, or removes, the record of a room without a notice.
LEMMA OpenSettled ==
  ASSUME IndInv, NEW g, g \notin DOMAIN PendingDisbandRooms,
         NEW room,
         \/ AllRoom' = [AllRoom EXCEPT ![g] = room]
         \/ AllRoom' = Put(AllRoom, g, room)
         \/ AllRoom' = Remove(AllRoom, {g})
  PROVE  AllSettled
<1>1. \A h \in DOMAIN PendingDisbandRooms : h # g => AllRoom'[h] = AllRoom[h]
  BY PendingExist DEF Put, Remove, Restrict
<1> QED BY <1>1, OthersSettled

\* The end of every call that may count votes leaves alone what the room holds.
LEMMA JudgeSettled ==
  ASSUME IndInv, NEW g \in DOMAIN AllRoom, NEW room,
         NEW balances, JudgeAndInsert(g, room, balances),
         DOMAIN room = DOMAIN AllRoom[g],
         Pending(g) => room.total_balances = AllRoom[g].total_balances
  PROVE  AllSettled
<1> DEFINE result == VoteEndResult(room, now)
           stored == CASE result = "pass" -> [room EXCEPT !.disband_vote_end_block = now]
                       [] result = "not_pass" -> RemoveVoteInfo(room, now)
                       [] result = "not_end" -> room
<1>1. AllRoom' = [AllRoom EXCEPT ![g] = room] \/ AllRoom' = [AllRoom EXCEPT ![g] = stored]
  BY DEF JudgeAndInsert
<1>2. stored.total_balances = room.total_balances
  <2>1. result \in {"pass", "not_pass", "not_end"}
    BY VoteResults
  <2>2. AllRoom[g] \in RoomInfo
    BY RoomFacts
  <2>3. {"disband_vote", "disband_vote_end_block", "total_balances"} \subseteq DOMAIN room
    BY <2>2 DEF RoomInfo
  <2> HIDE DEF result
  <2> QED BY <2>1, <2>3 DEF RemoveVoteInfo
<1> HIDE DEF stored
<1>3. AllRoom'[g].total_balances = room.total_balances
  BY <1>1, <1>2
<1>4. \A h \in DOMAIN PendingDisbandRooms : h # g => AllRoom'[h] = AllRoom[h]
  BY <1>1, PendingExist
<1> QED BY <1>3, <1>4, OthersSettled DEF SharesSettled, Pending

\* The manager's call comes before the announced block and adds to the room.
LEMMA RewardSettled ==
  ASSUME IndInv, NEW g, ManagerGetReward(g)
  PROVE  AllSettled
<1> DEFINE room == AllRoom[g]
           reward == TotalReward(room)
           last == room.last_block_of_get_the_reward + RewardPeriods(room) * RewardDuration
           balances == RewardedBalances(room, reward)
           rewarded == [room EXCEPT !.total_balances = balances,
                                    !.last_block_of_get_the_reward = last]
<1>1. /\ g \in DOMAIN AllRoom /\ reward \in Balance /\ RewardPeriods(room) # 0
      /\ ~IsCanDisband(g)
      /\ room.total_balances + Percent(RoomProportion, reward) \in Balance
      /\ AllRoom' = [AllRoom EXCEPT ![g] = rewarded]
  BY DEF ManagerGetReward, RoomOrigin, UpdateRoom
<1>2. room \in RoomInfo
  BY <1>1, RoomFacts
<1> HIDE DEF reward
<1>3. room.total_balances <= balances /\ balances \in Nat
  BY <1>1, <1>2, RewardCovered DEF Balance
<1>4. last # room.last_block_of_get_the_reward
  <2>1. SaturatingSub(now, room.last_block_of_get_the_reward) \in Nat
    BY <1>2 DEF SaturatingSub, RoomInfo, IndInv, TypeOK, ClockTyped
  <2>2. RewardPeriods(room) \in Nat \ {0} /\ RewardDuration \in Nat \ {0}
    BY <1>1, <2>1, DurationAssumption, DivBound DEF RewardPeriods
  <2>3. \A x, y \in Nat \ {0} : x * y \in Nat \ {0}
    OBVIOUS
  <2>4. RewardPeriods(room) * RewardDuration \in Nat \ {0}
    BY <2>2, <2>3
  <2>5. room.last_block_of_get_the_reward \in Nat
    BY <1>2 DEF RoomInfo
  <2> QED BY <2>4, <2>5
<1> HIDE DEF last, balances
<1>5. /\ rewarded.total_balances = balances
      /\ rewarded.last_block_of_get_the_reward = last
  BY <1>2 DEF RoomInfo
<1> HIDE DEF rewarded
<1>6. AllRoom'[g] = rewarded /\ DOMAIN AllRoom' = DOMAIN AllRoom
  BY <1>1
<1>7. g \in Rewarded
  BY <1>1, <1>4, <1>5, <1>6 DEF Rewarded
<1>8. room.total_balances \in Nat
  BY <1>2 DEF RoomInfo, Balance
<1>9. g \in DOMAIN PendingDisbandRooms => now < PendingDisbandRooms[g]
  BY <1>1 DEF IsCanDisband, IndInv, TypeOK, ClockTyped, DisbandingTyped
<1>10. g \in DOMAIN PendingDisbandRooms => SharesSettled(g)
  BY <1>3, <1>5, <1>6, <1>7, <1>8, <1>9 DEF SharesSettled
<1>11. \A h \in DOMAIN PendingDisbandRooms : h # g => AllRoom'[h] = AllRoom[h]
  BY <1>1, PendingExist
<1> QED BY <1>10, <1>11, OthersSettled

\* So does what the room treasury spends, and takes it from the room.
LEMMA SpendingSettled ==
  ASSUME IndInv, NEW g, NEW amount \in PacketAmounts, SubRoomFreeAmount(g, amount)
  PROVE  AllSettled
<1> DEFINE room == AllRoom[g]
           spent == [room EXCEPT !.total_balances = @ - amount]
<1>1. /\ g \in DOMAIN AllRoom /\ ~IsCanDisband(g)
      /\ AllRoom' = [AllRoom EXCEPT ![g] = spent]
  BY DEF SubRoomFreeAmount, UpdateRoom
<1>2. room \in RoomInfo
  BY <1>1, RoomFacts
<1>3. /\ spent.total_balances = room.total_balances - amount
      /\ spent.last_block_of_get_the_reward = room.last_block_of_get_the_reward
  BY <1>2 DEF RoomInfo
<1>4. room.total_balances \in Nat /\ amount \in Nat
  BY <1>2, InputAssumption DEF RoomInfo, Balance
<1> HIDE DEF spent
<1>5. AllRoom'[g] = spent
  BY <1>1
<1>6. g \notin Rewarded
  BY <1>3, <1>5 DEF Rewarded
<1>7. g \in DOMAIN PendingDisbandRooms => now < PendingDisbandRooms[g]
  BY <1>1 DEF IsCanDisband, IndInv, TypeOK, ClockTyped, DisbandingTyped
<1>8. g \in DOMAIN PendingDisbandRooms => SharesSettled(g)
  BY <1>3, <1>4, <1>5, <1>6, <1>7 DEF SharesSettled
<1>9. \A h \in DOMAIN PendingDisbandRooms : h # g => AllRoom'[h] = AllRoom[h]
  BY <1>1, PendingExist
<1> QED BY <1>8, <1>9, OthersSettled

\* What else the manager and the council do changes nothing a room holds.
LEMMA ManagerSettled == ASSUME IndInv, NEW g, ManagerNext(g) PROVE AllSettled
<1>1. CASE ManagerGetReward(g)
  BY <1>1, RewardSettled
<1>2. CASE \E amount \in PacketAmounts : SubRoomFreeAmount(g, amount)
  BY <1>2, SpendingSettled
<1>3. CASE \E who \in Users, by_root \in BOOLEAN : RemoveSomeone(g, who, by_root)
  <2>1. \E room : AllRoom' = [AllRoom EXCEPT ![g] = room] /\ ~Pending(g)
    BY <1>3 DEF RemoveSomeone, UpdateRoom
  <2> QED BY <2>1, OpenSettled DEF Pending
<1>4. ASSUME \/ \E council \in SUBSET Users : SetCouncilMembers(g, council)
             \/ \E who \in Users : \/ AddCouncilMember(g, who)
                                   \/ RemoveCouncilMember(g, who)
                                   \/ RemoveSomeoneFromBlacklist(g, who)
             \/ \E cost \in JoinCosts : UpdateJoinCost(g, cost)
             \/ \E private \in BOOLEAN : SetRoomPrivacy(g, private)
             \/ \E new_max \in MemberLimits : SetMaxNumberForRoomMembers(g, new_max)
      PROVE  AllSettled
  <2>1. g \in DOMAIN AllRoom /\ \E room : UpdateRoom(g, room)
    BY <1>4 DEF SetCouncilMembers, AddCouncilMember, RemoveCouncilMember,
       RemoveSomeoneFromBlacklist, UpdateJoinCost, SetRoomPrivacy,
       SetMaxNumberForRoomMembers, RoomOrigin
  <2>2. AllRoom[g] \in RoomInfo
    BY <2>1, RoomFacts
  <2>3. AllRoom'[g].total_balances = AllRoom[g].total_balances
    <3>1. CASE \E council \in SUBSET Users : SetCouncilMembers(g, council)
      BY <2>1, <2>2, <3>1 DEF SetCouncilMembers, UpdateRoom, RoomInfo
    <3>2. CASE \E who \in Users : AddCouncilMember(g, who)
      BY <2>1, <2>2, <3>2 DEF AddCouncilMember, UpdateRoom, RoomInfo
    <3>3. CASE \E who \in Users : RemoveCouncilMember(g, who)
      BY <2>1, <2>2, <3>3 DEF RemoveCouncilMember, UpdateRoom, RoomInfo
    <3>4. CASE \E who \in Users : RemoveSomeoneFromBlacklist(g, who)
      BY <2>1, <2>2, <3>4 DEF RemoveSomeoneFromBlacklist, UpdateRoom, RoomInfo
    <3>5. CASE \E cost \in JoinCosts : UpdateJoinCost(g, cost)
      BY <2>1, <2>2, <3>5 DEF UpdateJoinCost, UpdateRoom, RoomInfo
    <3>6. CASE \E private \in BOOLEAN : SetRoomPrivacy(g, private)
      BY <2>1, <2>2, <3>6 DEF SetRoomPrivacy, UpdateRoom, RoomInfo
    <3>7. CASE \E new_max \in MemberLimits : SetMaxNumberForRoomMembers(g, new_max)
      <4>1. PICK new_max \in MemberLimits : SetMaxNumberForRoomMembers(g, new_max)
        BY <3>7
      <4> DEFINE payment == settings.create_cost[MembersConvertType(new_max)]
      <4>2. AllRoom' = [AllRoom EXCEPT ![g] =
              [AllRoom[g] EXCEPT !.max_members = new_max, !.create_payment = payment]]
        BY <4>1 DEF SetMaxNumberForRoomMembers, UpdateRoom
      <4> HIDE DEF payment
      <4> QED BY <2>1, <2>2, <4>2 DEF RoomInfo
    <3> QED BY <1>4, <3>1, <3>2, <3>3, <3>4, <3>5, <3>6, <3>7
  <2>4. \A h \in DOMAIN PendingDisbandRooms : h # g => AllRoom'[h] = AllRoom[h]
    BY <2>1, PendingExist DEF UpdateRoom
  <2> QED BY <2>3, <2>4, OthersSettled DEF SharesSettled
<1> QED BY <1>1, <1>2, <1>3, <1>4 DEF ManagerNext

\* What members do with a room without a notice, or by asking again.
LEMMA MembersSettled ==
  ASSUME IndInv, NEW who \in Users, NEW g \in RoomIds, MemberNext(who, g)
  PROVE  AllSettled
<1>1. CASE \E invitee \in Users \cup {None} : IntoRoom(who, invitee, g)
  <2>1. \E room : AllRoom' = [AllRoom EXCEPT ![g] = room] /\ ~Pending(g)
    BY <1>1 DEF IntoRoom
  <2> QED BY <2>1, OpenSettled DEF Pending
<1>2. CASE ExitAmongOthers(who, g)
  <2>1. \E room : AllRoom' = [AllRoom EXCEPT ![g] = room] /\ ~Pending(g)
    BY <1>2 DEF ExitAmongOthers, UpdateRoom
  <2> QED BY <2>1, OpenSettled DEF Pending
<1>3. CASE ExitAsLast(who, g)
  BY <1>3, OpenSettled DEF ExitAsLast, Pending
<1>4. CASE \E quantity \in Quantities :
             BuyPropsInRoom(who, g, quantity) \/ BuyAudioInRoom(who, g, quantity)
  <2>1. PICK call, item, quantity : Buy(call, item, who, g, quantity)
    BY <1>4 DEF BuyPropsInRoom, BuyAudioInRoom
  <2>2. ~Pending(g) /\ \E room : AllRoom' = [AllRoom EXCEPT ![g] = room]
    BY <2>1 DEF Buy, JudgeAndInsert
  <2> QED BY <2>2, OpenSettled DEF Pending
<1>5. CASE AskForDisbandRoom(who, g)
  <2> DEFINE votes == Approve(NoVotes, who, AllRoom[g].consume[who])
             end == now + VoteExpire
             asked == [AllRoom[g] EXCEPT !.disband_vote = votes,
                                         !.disband_vote_end_block = end]
             balances == [free EXCEPT ![who] =
                            free[who] - Percent(10, AllRoom[g].create_payment)]
  <2>1. g \in DOMAIN AllRoom /\ JudgeAndInsert(g, asked, balances)
    BY <1>5 DEF AskForDisbandRoom, InRoom
  <2> HIDE DEF votes, end, balances
  <2>2. /\ DOMAIN asked = DOMAIN AllRoom[g]
        /\ asked.total_balances = AllRoom[g].total_balances
    BY <2>1, RoomFacts DEF RoomInfo
  <2> HIDE DEF asked
  <2> QED BY <2>1, <2>2, JudgeSettled
<1>6. CASE \E approves \in BOOLEAN : Vote(who, g, approves)
  <2>1. ~Pending(g) /\ \E room : AllRoom' = [AllRoom EXCEPT ![g] = room]
    BY <1>6 DEF Vote, JudgeAndInsert
  <2> QED BY <2>1, OpenSettled DEF Pending
<1>7. CASE \E lucky \in LuckyNumbers, amount \in PacketAmounts :
             SendRedpacketInRoom(who, g, lucky, amount)
  BY <1>7 DEF SendRedpacketInRoom, AllSettled, SharesSettled
<1> QED BY <1>1, <1>2, <1>3, <1>4, <1>5, <1>6, <1>7 DEF MemberNext

\* No step changes what is shared when it should not.
LEMMA NextSettled == ASSUME IndInv, [Next]_vars PROVE AllSettled
<1>1. CASE UNCHANGED AllRoom
  BY <1>1 DEF AllSettled, SharesSettled
<1>2. CASE NewBlock \/ UNCHANGED vars
  BY <1>1, <1>2 DEF NewBlock, vars
<1>3. CASE RootNext
  <2>1. PICK call, new : ChangeSettings(call, new)
    BY <1>3 DEF RootNext, SetCreateCost, SetRemoveInterval, SetDisbandInterval,
                SetPropsPrice, SetAudioPrice, SetRedpackMinAmount
  <2> QED BY <1>1, <2>1 DEF ChangeSettings
<1>4. CASE \E who \in Users, max \in MemberLimits, cost \in JoinCosts,
             private \in BOOLEAN : CreateRoom(who, max, cost, private)
  <2>1. \E room : AllRoom' = Put(AllRoom, NextGroupId, room)
    BY <1>4 DEF CreateRoom
  <2> QED BY <2>1, PendingExist, OpenSettled
<1>5. CASE \E g \in RoomIds : ManagerNext(g)
  BY <1>5, ManagerSettled
<1>6. CASE \E who \in Users, g \in RoomIds : MemberNext(who, g)
  BY <1>6, MembersSettled
<1>7. CASE \E g \in RoomIds : DisbandRoom(g)
  <2>1. PICK g \in RoomIds : DisbandRoom(g)
    BY <1>7
  <2>2. g \notin DOMAIN PendingDisbandRooms' /\ AllRoom' = Remove(AllRoom, {g})
    BY <2>1 DEF DisbandRoom, DoDisband, Remove, Restrict
  <2>3. \A h \in DOMAIN PendingDisbandRooms : h # g => AllRoom'[h] = AllRoom[h]
    BY <2>2, PendingExist DEF Remove, Restrict
  <2> QED BY <2>2, <2>3, OthersSettled
<1>8. CASE \E g \in RoomIds : GiveBackExpiredRedpacket(g)
  BY <1>1, <1>8 DEF GiveBackExpiredRedpacket
<1>9. CASE \E who \in Users : PayOut(who)
  BY <1>1, <1>9 DEF PayOut
<1>10. CASE \E k \in DOMAIN RedPacketOfRoom, who \in Users, amount \in PacketAmounts :
              GetRedpacketInRoom(k[1], k[2], who, amount)
  <2>1. PICK g, id, who, amount : GetRedpacketInRoom(g, id, who, amount)
    BY <1>10
  <2> QED BY <1>1, <2>1 DEF GetRedpacketInRoom
<1> QED BY <1>2, <1>3, <1>4, <1>5, <1>6, <1>7, <1>8, <1>9, <1>10 DEF Next

-----------------------------------------------------------------------------
(* What that means for all behaviours.                                     *)

\* Genesis has no room and no notice.
LEMMA InitLifecycle == Init => NoticesBacked /\ Lifecycle!LifecycleInit
BY DEF Init, EmptyMap, NoticesBacked, Lifecycle!LifecycleInit

\* A room only has a notice when there is something to disband it for.
THEOREM NoticesAlwaysBacked == Spec => []NoticesBacked
<1>1. IndInv /\ NoticesBacked /\ [Next]_vars => NoticesBacked'
  BY NextKept DEF Kept
<1> QED BY <1>1, InitLifecycle, InductiveInvariant, PTL DEF Spec

\* The room pallet implements RoomLifecycle: a room that passed its vote keeps its
\* notice through votes, purchases and further requests, goes by disband_room
\* only, and not before its block.
THEOREM LifecycleImplemented == Spec => LifecycleKept
<1>1. IndInv /\ NoticesBacked /\ [Next]_vars => LifecycleStep
  BY NextKept DEF Kept
<1> QED BY <1>1, InitLifecycle, InductiveInvariant, NoticesAlwaysBacked, PTL
        DEF Spec, LifecycleKept, Lifecycle!LifecycleSpec, LifecycleStep

\* Who shares a room does not change while its disbanding is pending, and what they
\* share is final from the announced block on, whenever disband_room is called;
\* before it only a reward adds to it and only the room treasury takes from it.
THEOREM PendingStaysFrozen == Spec => PendingFrozen
<1> DEFINE Same ==
      \A g \in DOMAIN PendingDisbandRooms \cap DOMAIN PendingDisbandRooms' :
        Frozen(g) /\ SharesSettled(g)
<1>1. IndInv /\ NoticesBacked /\ [Next]_vars => [Same]_vars
  BY NextKept, NextSettled DEF Kept, AllSettled
<1>2. [Same]_vars => [\A g \in DOMAIN PendingDisbandRooms \cap DOMAIN PendingDisbandRooms' :
         /\ ListenersOfRoom'[g] = ListenersOfRoom[g]
         /\ AllRoom'[g].now_members_number = AllRoom[g].now_members_number
         /\ AllRoom'[g].consume = AllRoom[g].consume
         /\ AllRoom'[g].group_manager_balances = AllRoom[g].group_manager_balances
         /\ SharesSettled(g)]_vars
  BY DEF Frozen
<1> HIDE DEF Same
<1> QED BY <1>1, <1>2, InductiveInvariant, NoticesAlwaysBacked, PTL
        DEF Spec, PendingFrozen
=============================================================================
