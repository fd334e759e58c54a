\* The runtime's filter: members come and go and spend, the manager, the council
\* and root set who may and what it costs, and no one asks, votes or disbands.
SPECIFICATION Spec
CONSTANTS
  u1 = u1
  u2 = u2
  None = None
  Users = {u1, u2}
  Permitted <- FilteredCalls
  AirDropAmount = 1
  VoteExpire = 1
  ProtectedDuration = 1
  DelayDisbandDuration = 1
  RedPackExpire = 1
  RewardDuration = 2
  ManagerProportion = 25
  RoomProportion = 50
  EpochDuration = 2
  Depth = 2
  MaxBalance = 120
  InitialFree = 5
  InitialSettings <- FreeAtFirst
  MemberLimits = {1, 11}
  JoinCosts = {0, 3}
  Quantities = {1}
  PacketAmounts = {6}
  LuckyNumbers = {2}
  CostChoices = {3}
  IntervalChoices = {1}
  MaxBlock = 1
  MaxRooms = 1
  MaxRedPackets = 0
  MaxMemberships = 2
SYMMETRY Symmetry
INVARIANTS NoDisbandingUnderFilter RoomNotOverfull
\* Behaviours end at MaxBlock.
CHECK_DEADLOCK FALSE
