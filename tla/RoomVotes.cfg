\* Three members vote, switch sides, spend, quit and ask again.
SPECIFICATION Spec
CONSTANTS
  u1 = u1
  u2 = u2
  u3 = u3
  None = None
  Users = {u1, u2, u3}
  Permitted <- VoteCalls
  AirDropAmount = 1
  VoteExpire = 1
  ProtectedDuration = 0
  DelayDisbandDuration = 1
  RedPackExpire = 1
  RewardDuration = 2
  ManagerProportion = 25
  RoomProportion = 50
  EpochDuration = 2
  Depth = 2
  MaxBalance = 120
  InitialFree = 22
  InitialSettings <- FreeRooms
  MemberLimits = {3}
  JoinCosts = {0}
  Quantities = {1}
  PacketAmounts = {6}
  LuckyNumbers = {2}
  CostChoices = {0}
  IntervalChoices = {2}
  MaxBlock = 4
  MaxRooms = 1
  MaxRedPackets = 0
  MaxMemberships = 1
SYMMETRY Symmetry
INVARIANTS VotesWeighed
\* Behaviours end at MaxBlock.
CHECK_DEADLOCK FALSE
