------------------------------- MODULE MCRoom -------------------------------
(***************************************************************************)
(* Values of the constants of Room for TLC.                                *)
(***************************************************************************)
EXTENDS RoomProperties, TLC

DisbandCalls == {"ask_for_disband_room", "vote", "pay_out", "disband_room"}

\* From creating a room to the payout of its members.
LifeCalls ==
  DisbandCalls \cup {"create_room", "into_room", "exit", "buy_audio_in_room",
   "set_audio_price"}

VoteCalls ==
  {"create_room", "into_room", "exit", "buy_props_in_room",
   "set_disband_interval", "ask_for_disband_room", "vote"}

\* The calls that change what the members of a room share, those by which they
\* come to share it, and the disbanding after which they do.
RewardCalls ==
  {"create_room", "into_room", "exit", "remove_someone", "buy_props_in_room",
   "manager_get_reward", "sub_room_free_amount", "ask_for_disband_room",
   "disband_room"}

PacketCalls ==
  {"create_room", "into_room", "exit", "send_redpacket_in_room",
   "give_back_expired_redpacket", "get_redpacket_in_room",
   "set_redpack_min_amount", "ask_for_disband_room", "buy_props_in_room",
   "disband_room"}

\* The calls by which money is spent, and those of root
\* that say how much.
SpendCalls ==
  {"create_room", "into_room", "exit", "buy_props_in_room",
   "update_join_cost", "set_max_number_for_room_members", "set_create_cost",
   "set_props_price"}

\* The calls that decide who is in a room.
CouncilCalls ==
  {"create_room", "into_room", "exit", "remove_someone",
   "remove_someone_from_blacklist", "set_room_privacy",
   "set_max_number_for_room_members", "set_remove_interval",
   "set_council_members", "add_council_member", "remove_council_member"}

\* Root has set the intervals of the genesis to zero, and what rooms cost, but for
\* the smallest in BasicSettings.
FreeRooms == GenesisSettings(0, 0, 10, 4)
BasicSettings ==
  [GenesisSettings(0, 0, 10, 2) EXCEPT !.create_cost["Ten"] = 10]
FreeAtFirst == [FreeRooms EXCEPT !.price["props"] = 0]

FilteredCalls ==
  {call \in SpendCalls \cup CouncilCalls \cup DisbandCalls : SystemBaseCallFilter(call)}

Symmetry == Permutations(Users)
=============================================================================
