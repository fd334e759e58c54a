\* Red packets are claimed, expire, and are refunded when their room goes. Blocks
\* go on, and someone gives expired packets back.
SPECIFICATION FairSpec
CONSTANTS
  u1 = u1
  u2 = u2
  None = None
  Users = {u1, u2}
  Permitted <- PacketCalls
  AirDropAmount = 1
  VoteExpire = 1
  ProtectedDuration = 0
  DelayDisbandDuration = 1
  RedPackExpire = 1
  RewardDuration = 2
  ManagerProportion = 25
  RoomProportion = 50
  EpochDuration = 2
  Depth = 2
  MaxBalance = 120
  InitialFree = 22
  InitialSettings <- FreeRooms
  MemberLimits = {3}
  JoinCosts = {0}
  Quantities = {1}
  PacketAmounts = {3, 9}
  LuckyNumbers = {1, 2}
  CostChoices = {3}
  IntervalChoices = {0}
  MaxBlock = 3
  MaxRooms = 1
  MaxRedPackets = 1
  MaxMemberships = 1
INVARIANTS PacketsBounded NothingOutlivesRoom
PROPERTIES FundsConserved PacketsReturned
\* Behaviours end at MaxBlock.
CHECK_DEADLOCK FALSE
