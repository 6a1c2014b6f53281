SPECIFICATION Spec
CONSTANTS
  Nodes = {1, 2, 3}
  Founders = {1, 2}
  MayCrash = {1}
  Inviters = {1, 2, 3}
  Invitees = {1, 2, 3}
  MaxInvites = 1
  MaxLeaves = 1
  MaxChats = 1
  Unreliable = TRUE
  QuickEcho = TRUE
CHECK_DEADLOCK FALSE
INVARIANTS OnlyJoinedListed ShownOnce PartyInv
PROPERTY NobodyEvicted
