SPECIFICATION Spec
CONSTANTS
  NumFiles = 1
  ContentOf <- EvenFile
  Contents = {"even"}
  Size <- MCSize
  BUFFER_SIZE = 2
  WORD = 2
  MaxIndex = 2
  NoHash = NoHash
  Zero = Zero
  ChanCap = 1
  MaxObj = 1
  GetStates = {"AVAILABLE", "ACTIVE", "COMPLETE"}
CHECK_DEADLOCK FALSE
INVARIANT CoverageOnDisk
