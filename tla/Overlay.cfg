SPECIFICATION FairSpec
CONSTANTS
  Nodes = {0, 5, 6}
  BITS = 3
  BucketSize = 1
  BitXor <- MCXor
  Situations <- MCSituations
CHECK_DEADLOCK FALSE
INVARIANTS OverlayInv JoinerKnown JoiningInv
PROPERTIES ImplementsBroadcast PingAnswered ChatsGoOn ChatReachesAll FloodsEnd
