SPECIFICATION FairSpec
CONSTANTS
  Nodes = {0, 5, 6}
  BITS = 3
  BucketSize = 1
  BitXor <- MCXor
  Situations <- RouteSituations
CHECK_DEADLOCK FALSE
PROPERTY RoutedThrough
