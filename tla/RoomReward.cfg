\* Managers are rewarded, five periods at most, and the room treasury spends, also
\* while a room has been told when it will be disbanded and members try to come,
\* go and spend.
SPECIFICATION Spec
CONSTANTS
  u1 = u1
  u2 = u2
  None = None
  Users = {u1, u2}
  Permitted <- RewardCalls
  AirDropAmount = 1
  VoteExpire = 1
  ProtectedDuration = 0
  DelayDisbandDuration = 2
  RedPackExpire = 1
  RewardDuration = 1
  ManagerProportion = 25
  RoomProportion = 50
  EpochDuration = 2
  Depth = 2
  MaxBalance = 120
  InitialFree = 23
  InitialSettings <- BasicSettings
  MemberLimits = {3}
  JoinCosts = {11}
  Quantities = {1}
  PacketAmounts = {10}
  LuckyNumbers = {2}
  CostChoices = {0}
  IntervalChoices = {0}
  MaxBlock = 6
  MaxRooms = 1
  MaxRedPackets = 0
  MaxMemberships = 1
SYMMETRY Symmetry
INVARIANTS ManagerFundsCovered
PROPERTIES FundsConserved PendingFrozen
\* Behaviours end at MaxBlock.
CHECK_DEADLOCK FALSE
