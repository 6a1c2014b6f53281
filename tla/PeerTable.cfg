SPECIFICATION FairSpec
CONSTANTS
  Peers = {"p"}
  MaxTime = 4
CHECK_DEADLOCK FALSE
INVARIANTS ListedOnce PeerInv
PROPERTIES TimeNeverBack LostOnlyByWriteBack DepartedDropped
