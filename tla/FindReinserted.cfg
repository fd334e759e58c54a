\* A request in a room no one spent in disbands it and stores it again.
SPECIFICATION Spec
CONSTANTS
  u1 = u1
  u2 = u2
  None = None
  Users = {u1, u2}
  Permitted <- LifeCalls
  AirDropAmount = 1
  VoteExpire = 1
  ProtectedDuration = 1
  DelayDisbandDuration = 1
  RedPackExpire = 1
  RewardDuration = 2
  ManagerProportion = 25
  RoomProportion = 50
  EpochDuration = 2
  Depth = 2
  MaxBalance = 120
  InitialFree = 55
  InitialSettings <- BasicSettings
  MemberLimits = {3}
  JoinCosts = {20}
  Quantities = {1}
  PacketAmounts = {6}
  LuckyNumbers = {2}
  CostChoices = {0}
  IntervalChoices = {0}
  MaxBlock = 5
  MaxRooms = 1
  MaxRedPackets = 0
  MaxMemberships = 2
SYMMETRY Symmetry
INVARIANTS DisbandedRoomDeleted
\* Behaviours end at MaxBlock.
CHECK_DEADLOCK FALSE
