SPECIFICATION FairSpec
CONSTANTS
  Nodes = {1, 2, 3}
  Founders = {1, 2, 3}
  MayCrash = {}
  Inviters = {}
  Invitees = {}
  MaxInvites = 0
  MaxLeaves = 1
  MaxChats = 1
  Unreliable = FALSE
  QuickEcho = FALSE
CHECK_DEADLOCK FALSE
PROPERTY DepartedForgotten
