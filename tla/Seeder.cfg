SPECIFICATION FairSpec
CONSTANTS
  Peers = {"peer"}
  Self = "self"
  Parties = {"a"}
  Files = {"f"}
  PartyOf <- OneParty
  NumBlocks <- ThreeBlocks
  Shared = {}
  WORD = 8
  ChanCap = 2
  FRESH = 3
  EXPIRY = 4
CHECK_DEADLOCK FALSE
INVARIANTS TwoPerKey NoDeadlock SeederInv
PROPERTIES AnswersUseful RequesterServed
