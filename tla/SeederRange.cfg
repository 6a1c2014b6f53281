SPECIFICATION Spec
CONSTANTS
  Peers = {"peer"}
  Self = "self"
  Parties = {"a"}
  Files = {"f"}
  PartyOf <- OneParty
  NumBlocks <- TwoBlocks
  Shared = {"a"}
  WORD = 4
  ChanCap = 2
  FRESH = 3
  EXPIRY = 4
CHECK_DEADLOCK FALSE
INVARIANT CoverageInRange
