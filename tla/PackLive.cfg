SPECIFICATION FairSpec
CONSTANTS
  NumFiles = 1
  ContentOf <- TripleFile
  Contents = {"triple"}
  Size <- MCSize
  BUFFER_SIZE = 2
  WORD = 4
  MaxIndex = 3
  NoHash = NoHash
  Zero = Zero
  ChanCap = 1
  MaxObj = 1
  GetStates = {"AVAILABLE"}
CHECK_DEADLOCK FALSE
INVARIANTS OnlyGenuineInFlight NeverStuck
PROPERTY DownloadCompletes
