SPECIFICATION MCSpec
CONSTANTS
  Nodes = {1, 2, 3, 4, 5}
  Founders = {1, 2, 3, 4, 5}
  MayCrash = {2, 4}
  Inviters = {1}
  Invitees = {5}
  MaxInvites = 1
  MaxLeaves = 0
  MaxChats = 1
  Unreliable = FALSE
  QuickEcho = FALSE
CHECK_DEADLOCK FALSE
INVARIANTS ChatGoesRound JoinGoesRound
PROPERTIES JoinerBecomesKnown ChatReachesFounders
