SPECIFICATION Spec
CONSTANTS
  NumFiles = 2
  ContentOf <- TwoFiles
  Contents = {"pair", "single"}
  Size <- MCSize
  BUFFER_SIZE = 2
  WORD = 1
  MaxIndex = 1
  NoHash = NoHash
  Zero = Zero
  ChanCap = 1
  MaxObj = 2
  GetStates = {"AVAILABLE"}
CHECK_DEADLOCK FALSE
INVARIANTS CoverageOnDisk CompleteOnDisk CoverageHasBlock DownloadInv
PROPERTIES CoverageNeverLost ImplementsReliableDownload
