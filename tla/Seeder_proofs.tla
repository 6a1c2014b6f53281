--------------------------- MODULE Seeder_proofs ---------------------------
(***************************************************************************)
(* Theorems about Seeder, for any number of peers, packs, files and blocks *)
(* and for any capacity of RequestChan that the theorem's assumption       *)
(* allows.                                                                 *)
(***************************************************************************)
EXTENDS Seeder, FiniteSetTheorems, TLAPS

-----------------------------------------------------------------------------
(* Types *)

\* The placeholder of an idle goroutine has the type of a request.
LEMMA NoRequestType == NoRequest \in Request
BY FilesAssumption, LimitsAssumption DEF NoRequest, Request

\* What a key names.
LEMMA KeyType ==
  ASSUME NEW k \in Keys
  PROVE  k[2] \in Files /\ PartyOf[k[2]] \in Parties
BY FilesAssumption DEF Keys

\* The blocks of a file are indices, and the first is one of them.
LEMMA BlocksType ==
  ASSUME NEW f \in Files
  PROVE  Blocks(f) \subseteq Indices /\ 0 \in Blocks(f)
<1>1. Blocks(f) \subseteq Indices
  BY DEF Indices
<1>2. NumBlocks[f] \in Nat \ {0}
  BY FilesAssumption
<1>3. 0 \in Blocks(f)
  BY <1>2 DEF Blocks
<1> QED BY <1>1, <1>3

\* An index is a number.
LEMMA IndexType == Indices \subseteq Nat
<1> SUFFICES ASSUME NEW f \in Files, NEW i \in Blocks(f) PROVE i \in Nat
  BY DEF Indices
<1>1. NumBlocks[f] \in Nat \ {0}
  BY FilesAssumption
<1> QED BY <1>1 DEF Blocks

\* The initial state is well typed.
LEMMA TypeInit == Init => TypeOK
<1> SUFFICES ASSUME Init PROVE TypeOK
  OBVIOUS
<1>1. Idle \in [pc : {"idle"}, req : Request]
  BY NoRequestType DEF Idle
<1>2. own \in [Files -> SUBSET Indices]
  BY BlocksType DEF Init
<1>3. phase \in [Parties -> Phases] /\ fresh \in [Keys -> 0..FRESH]
  BY LimitsAssumption DEF Init, Phases
<1>4. /\ have \in [Keys -> SUBSET Indices]
      /\ asked \in [Keys -> {{}} \cup {{c} : c \in SUBSET Indices}]
  BY DEF Init
<1>5. chan \in Seq(Request) /\ Len(chan) <= ChanCap
  BY LimitsAssumption DEF Init
<1> QED BY <1>1, <1>2, <1>3, <1>4, <1>5 DEF Init, TypeOK

\* A request that gets older, or is marked with a block, stays a request.
LEMMA RequestKept ==
  ASSUME NEW r \in Request
  PROVE  /\ Older(r) \in Request
         /\ \A i \in Indices : [r EXCEPT !.cov = @ \cup {i}] \in Request
<1>1. EXPIRY \in Nat /\ r.ttl \in -1..EXPIRY /\ r.cov \subseteq Indices
  BY LimitsAssumption DEF Request
<1>2. Older(r) \in Request
  BY <1>1 DEF Older, Request
<1>3. ASSUME NEW i \in Indices
      PROVE  [r EXCEPT !.cov = @ \cup {i}] \in Request
  BY <1>1 DEF Request
<1> QED BY <1>2, <1>3

\* The requests of the channel keep their places when they get older.
LEMMA ChanOlder ==
  ASSUME TypeOK, chan' = [j \in DOMAIN chan |-> Older(chan[j])]
  PROVE  chan' \in Seq(Request) /\ Len(chan') = Len(chan)
<1>1. Len(chan) \in Nat /\ DOMAIN chan = 1..Len(chan)
  BY DEF TypeOK
<1>2. \A j \in 1..Len(chan) : Older(chan[j]) \in Request
  BY RequestKept DEF TypeOK
<1> QED BY <1>1, <1>2

\* Taking or adding a request keeps the channel's type.
LEMMA ChanMoves ==
  ASSUME TypeOK
  PROVE  /\ chan # <<>> => /\ Head(chan) \in Request
                           /\ Tail(chan) \in Seq(Request)
                           /\ Len(Tail(chan)) = Len(chan) - 1
                           /\ Len(Tail(chan)) <= ChanCap
         /\ \A r \in Request : Len(chan) < ChanCap =>
              Append(chan, r) \in Seq(Request) /\ Len(Append(chan, r)) <= ChanCap
<1>1. chan \in Seq(Request) /\ Len(chan) <= ChanCap /\ ChanCap \in Nat
  BY LimitsAssumption DEF TypeOK
<1> QED BY <1>1

-----------------------------------------------------------------------------
(* Types: the steps *)

\* Recv keeps every variable within its type.
LEMMA TypeRecv == TypeOK /\ RecvNext => TypeOK'
<1> SUFFICES ASSUME TypeOK, RecvNext PROVE TypeOK'
  OBVIOUS
<1> USE DEF TypeOK
<1>1. ASSUME NEW k \in Keys, Accept(k)
      PROVE  fresh' \in [Keys -> 0..FRESH]
  BY <1>1, LimitsAssumption DEF Accept
<1>2. ASSUME NEW k \in Keys, ProcessRequest(k)
      PROVE  TypeOK'
  <2>1. PICK cov \in asked[k] :
          recv' = [pc |-> "enqueue", req |-> [key |-> k, cov |-> cov, ttl |-> EXPIRY]]
    BY <1>2 DEF ProcessRequest
  <2>2. cov \in SUBSET Indices
    <3>1. asked[k] \in {{}} \cup {{c} : c \in SUBSET Indices}
      OBVIOUS
    <3>2. PICK c \in SUBSET Indices : asked[k] = {c}
      BY <3>1
    <3> QED BY <3>2
  <2>3. [key |-> k, cov |-> cov, ttl |-> EXPIRY] \in Request
    BY <2>2, LimitsAssumption DEF Request
  <2>4. recv' \in [pc : {"idle", "enqueue"}, req : Request]
    BY <2>1, <2>3
  <2> QED BY <1>1, <1>2, <2>4 DEF ProcessRequest, ownVars, peerVars
<1>3. ASSUME NEW k \in Keys, ProcessRequestUnavailable(k)
      PROVE  TypeOK'
  BY <1>1, <1>3 DEF ProcessRequestUnavailable, ownVars, peerVars
<1>4. ASSUME NEW k \in Keys, ProcessRequestUnknownPack(k)
      PROVE  TypeOK'
  BY <1>1, <1>4 DEF ProcessRequestUnknownPack, ownVars, peerVars
<1>5. CASE Enqueue
  <2>1. chan' \in Seq(Request) /\ Len(chan') <= ChanCap
    BY <1>5, ChanMoves DEF Enqueue
  <2>2. recv' \in [pc : {"idle", "enqueue"}, req : Request]
    BY <1>5, NoRequestType DEF Enqueue, Idle
  <2> QED BY <1>5, <2>1, <2>2 DEF Enqueue, ownVars, peerVars
<1> QED BY <1>2, <1>3, <1>4, <1>5 DEF RecvNext

\* RequestSender keeps every variable within its type.
LEMMA TypeSender == TypeOK /\ SenderNext => TypeOK'
<1> SUFFICES ASSUME TypeOK, SenderNext PROVE TypeOK'
  OBVIOUS
<1> DEFINE Senders == [pc : {"idle", "choose", "requeue", "ended"}, req : Request]
<1>1. Idle \in Senders /\ [Idle EXCEPT !.pc = "ended"] \in Senders
  BY NoRequestType DEF Idle
<1>2. ASSUME NEW i \in Indices, MarkAndRequeue(i)
      PROVE  sender' \in Senders
  <2>1. sender.req \in Request
    BY DEF TypeOK
  <2>2. [sender.req EXCEPT !.cov = @ \cup {i}] \in Request
    BY <2>1, RequestKept
  <2> QED BY <1>2, <2>2 DEF MarkAndRequeue
<1> USE DEF TypeOK
<1>3. CASE TakeDropped
  BY <1>3, ChanMoves DEF TakeDropped, ownVars, peerVars
<1>4. CASE Take
  BY <1>4, ChanMoves DEF Take, ownVars, peerVars
<1>5. CASE TakePartyOver
  BY <1>1, <1>5, ChanMoves DEF TakePartyOver, ownVars, peerVars
<1>6. ASSUME NEW i \in Indices, AnswerArrives(i)
      PROVE  TypeOK'
  <2>1. have' \in [Keys -> SUBSET Indices]
    BY <1>6 DEF AnswerArrives
  <2>2. sender' \in Senders
    BY <1>2, <1>6 DEF AnswerArrives
  <2> QED BY <1>6, <2>1, <2>2 DEF AnswerArrives, ownVars
<1>7. ASSUME NEW i \in Indices, AnswerLost(i)
      PROVE  TypeOK'
  <2>1. sender' \in Senders
    BY <1>2, <1>7 DEF AnswerLost
  <2> QED BY <1>7, <2>1 DEF AnswerLost, ownVars, peerVars
<1>8. CASE NoAnswer
  BY <1>1, <1>8 DEF NoAnswer, ownVars, peerVars
<1>9. CASE ConcurrentMapAccess
  BY <1>9 DEF ConcurrentMapAccess, ownVars, peerVars
<1>10. CASE ChoosePanics
  BY <1>10 DEF ChoosePanics, Panics, ownVars, peerVars
<1>11. CASE Requeue
  BY <1>1, <1>11, ChanMoves DEF Requeue, ownVars, peerVars
<1> QED BY <1>3, <1>4, <1>5, <1>6, <1>7, <1>8, <1>9, <1>10, <1>11 DEF SenderNext

\* What is done with the node's own packs keeps every variable within its type.
LEMMA TypePack == TypeOK /\ PackNext => TypeOK'
<1> SUFFICES ASSUME TypeOK, PackNext PROVE TypeOK'
  OBVIOUS
<1>1. ASSUME NEW p \in Parties, NEW full, Refill(p, full)
      PROVE  own' \in [Files -> SUBSET Indices]
  BY <1>1, BlocksType DEF TypeOK, Refill
<1>2. ASSUME NEW p \in Parties, NEW ph \in Phases, Become(p, ph)
      PROVE  phase' \in [Parties -> Phases]
  BY <1>2 DEF TypeOK, Become
<1>3. {"NONE", "AVAILABLE", "ACTIVE", "COMPLETE"} = Phases
  BY DEF Phases
<1> USE DEF TypeOK
<1>4. ASSUME NEW p \in Parties, LeaveParty(p)
      PROVE  TypeOK'
  BY <1>4 DEF LeaveParty, peerVars
<1>5. ASSUME NEW p \in Parties, ClearPacks(p)
      PROVE  TypeOK'
  BY <1>1, <1>2, <1>3, <1>5 DEF ClearPacks, peerVars
<1>6. ASSUME NEW p \in Parties, Rediscover(p)
      PROVE  TypeOK'
  <2>1. phase' \in [Parties -> Phases]
    BY <1>2, <1>3, <1>6 DEF Rediscover
  <2>2. own' \in [Files -> SUBSET Indices]
    BY <1>1, <1>6 DEF Rediscover
  <2> QED BY <1>6, <2>1, <2>2 DEF Rediscover, peerVars
<1>7. ASSUME NEW p \in Parties, StartPack(p)
      PROVE  TypeOK'
  BY <1>1, <1>2, <1>3, <1>7 DEF StartPack, peerVars
<1>8. ASSUME NEW p \in Parties, FinishPack(p)
      PROVE  TypeOK'
  BY <1>2, <1>3, <1>8 DEF FinishPack, peerVars
<1>9. ASSUME NEW f \in Files, NEW i \in Indices, GainBlock(f, i)
      PROVE  TypeOK'
  BY <1>9 DEF GainBlock, peerVars
<1> QED BY <1>4, <1>5, <1>6, <1>7, <1>8, <1>9 DEF PackNext

\* So do the peers' requests and the clock.
LEMMA TypeOther ==
  TypeOK /\ ((\E k \in Keys : SendRequest(k)) \/ Tick \/ UNCHANGED vars) => TypeOK'
<1> SUFFICES ASSUME TypeOK,
                    (\E k \in Keys : SendRequest(k)) \/ Tick \/ UNCHANGED vars
             PROVE  TypeOK'
  OBVIOUS
<1>1. ASSUME NEW k \in Keys, SendRequest(k)
      PROVE  TypeOK'
  <2>1. asked' \in [Keys -> {{}} \cup {{c} : c \in SUBSET Indices}]
    BY <1>1 DEF SendRequest, TypeOK
  <2> QED BY <1>1, <2>1 DEF SendRequest, ownVars, TypeOK
<1>2. CASE Tick
  <2>1. fresh' \in [Keys -> 0..FRESH]
    BY <1>2, LimitsAssumption DEF Tick, TypeOK
  <2>2. chan' \in Seq(Request) /\ Len(chan') <= ChanCap
    BY <1>2, ChanOlder DEF Tick, TypeOK
  <2>3. sender.req \in Request /\ recv.req \in Request
    BY DEF TypeOK
  <2>4. sender' \in [pc : {"idle", "choose", "requeue", "ended"}, req : Request]
    BY <1>2, <2>3, RequestKept DEF Tick, TypeOK
  <2>5. recv' \in [pc : {"idle", "enqueue"}, req : Request]
    BY <1>2, <2>3, RequestKept DEF Tick, TypeOK
  <2> QED BY <1>2, <2>1, <2>2, <2>4, <2>5 DEF Tick, TypeOK, ownVars, peerVars
<1>3. CASE UNCHANGED vars
  BY <1>3 DEF vars, ownVars, peerVars, TypeOK
<1> QED BY <1>1, <1>2, <1>3

\* Every variable of the model has values of its type in every reachable state:
\* above all, RequestChan never holds more than its capacity.
THEOREM SeederTypeCorrect == Spec => []TypeOK
<1>1. TypeOK /\ [Next]_vars => TypeOK'
  BY TypeRecv, TypeSender, TypePack, TypeOther DEF Next
<1> QED BY TypeInit, <1>1, PTL DEF Spec

-----------------------------------------------------------------------------
(* Which blocks are sent *)

\* The next block and the children of the blocks that are covered are the
\* blocks whose predecessor or parent is covered.
LEMMA ForwardsBackwards ==
  ASSUME NEW cov \in SUBSET Nat, NEW i \in Nat, i # 0
  PROVE  (\E j \in cov : i \in {j + 1, leftChild(j), rightChild(j)})
           <=> i - 1 \in cov \/ Parent(i) \in cov
<1>1. ASSUME NEW j \in cov, i \in {j + 1, leftChild(j), rightChild(j)}
      PROVE  i - 1 \in cov \/ Parent(i) \in cov
  <2>1. CASE i = j + 1
    <3>1. i - 1 = j
      BY <2>1
    <3> QED BY <3>1
  <2>2. CASE i = leftChild(j) \/ i = rightChild(j)
    <3>1. Parent(i) = j
      BY <2>2 DEF leftChild, rightChild, Parent
    <3> QED BY <3>1
  <2> QED BY <1>1, <2>1, <2>2
<1>2. ASSUME i - 1 \in cov
      PROVE  \E j \in cov : i = j + 1
  BY <1>2
<1>3. ASSUME Parent(i) \in cov
      PROVE  \E j \in cov : i \in {leftChild(j), rightChild(j)}
  <2>1. i = leftChild(Parent(i)) \/ i = rightChild(Parent(i))
    BY DEF leftChild, rightChild, Parent
  <2> QED BY <1>3, <2>1
<1> QED BY <1>1, <1>2, <1>3

\* What chooseBlock takes for the peer's next blocks are those that the peer can
\* verify and lacks, unless it has nothing.
LEMMA NextAreVerifiable ==
  ASSUME NEW cov \in SUBSET Indices, 0 \in cov, NEW i \in Indices
  PROVE  i \in nextBlocks(cov) <=> i \notin cov /\ CanVerify(cov, i)
<1>1. i \in nextBlocks(cov)
        <=> i \notin cov /\ \E j \in cov : i \in {j + 1, leftChild(j), rightChild(j)}
  BY DEF nextBlocks
<1>2. CASE i = 0
  BY <1>1, <1>2
<1>3. CASE i # 0
  BY <1>1, <1>3, IndexType, ForwardsBackwards DEF CanVerify
<1> QED BY <1>2, <1>3

\* A coverage that is not empty keeps its first block, and an empty one gets it
\* first, if only what can be verified is added.
LEMMA RootedGrows ==
  ASSUME NEW cov, Rooted(cov), NEW i, CanVerify(cov, i)
  PROVE  Rooted(cov \cup {i})
BY DEF Rooted, CanVerify

\* A request to which chooseBlock's block is added stays rooted.
LEMMA ChosenRooted ==
  ASSUME NEW r, Rooted(r.cov), NEW i \in chooseBlock(r)
  PROVE  Rooted(r.cov \cup {i})
<1>1. CASE r.cov = {}
  <2>1. nextBlocks(r.cov) = {}
    BY <1>1 DEF nextBlocks
  <2> QED BY <2>1 DEF chooseBlock, Rooted
<1>2. CASE r.cov # {}
  BY <1>2 DEF Rooted
<1> QED BY <1>1, <1>2

\* If the coverages are rooted, chooseBlock's block is one that the peer lacks
\* and can verify, or there is none.
LEMMA ChosenUseful ==
  ASSUME TypeOK, CoveragesRooted, NEW i \in chooseBlock(sender.req)
  PROVE  LET r == sender.req
             useful == {j \in own[r.key[2]] \ r.cov : CanVerify(r.cov, j)}
         IN  IF useful = {} THEN r.cov \cup {i} = r.cov ELSE i \in useful
<1> DEFINE r == sender.req
           f == r.key[2]
           useful == {j \in own[f] \ r.cov : CanVerify(r.cov, j)}
<1>1. r \in Request /\ f \in Files
  BY KeyType DEF TypeOK, Request
<1>2. r.cov \in SUBSET Indices /\ own[f] \in SUBSET Indices
  BY <1>1 DEF Request, TypeOK
<1>3. Rooted(r.cov) /\ Rooted(own[f])
  BY <1>1 DEF CoveragesRooted
<1>4. own[f] # {} /\ 0 \in own[f]
  BY <1>3 DEF chooseBlock, Rooted
<1>5. CASE r.cov = {}
  <2>1. nextBlocks(r.cov) = {}
    BY <1>5 DEF nextBlocks
  <2>2. i = 0
    BY <1>4, <2>1 DEF chooseBlock
  <2>3. 0 \in useful
    BY <1>4, <1>5 DEF CanVerify
  <2> QED BY <2>2, <2>3
<1>6. CASE r.cov # {}
  <2>1. 0 \in r.cov
    BY <1>3, <1>6 DEF Rooted
  <2>2. nextBlocks(r.cov) \cap own[f] = useful
    BY <1>2, <2>1, NextAreVerifiable
  <2>3. i \in (IF useful = {} THEN {0} ELSE useful)
    BY <1>4, <2>2 DEF chooseBlock
  <2> QED BY <2>1, <2>3
<1> QED BY <1>5, <1>6

\* At first every coverage is rooted.
LEMMA RootedInit == Init => CoveragesRooted
<1> SUFFICES ASSUME Init PROVE CoveragesRooted
  OBVIOUS
<1>1. \A f \in Files : Rooted(own[f]) /\ own[f] \subseteq Blocks(f)
  BY BlocksType DEF Init, Rooted
<1>2. sender.req.cov = {} /\ recv.req.cov = {} /\ chan = <<>>
  BY DEF Init, Idle, NoRequest
<1> QED BY <1>1, <1>2 DEF Init, CoveragesRooted, Rooted

\* The goroutines keep the coverages of requests rooted.
LEMMA RootedRequests ==
  TypeOK /\ CoveragesRooted /\ (RecvNext \/ SenderNext) => CoveragesRooted'
<1> SUFFICES ASSUME TypeOK, CoveragesRooted, RecvNext \/ SenderNext
             PROVE  CoveragesRooted'
  OBVIOUS
<1>1. Rooted(Idle.req.cov) /\ [Idle EXCEPT !.pc = "ended"].req = Idle.req
  BY DEF Idle, NoRequest, Rooted
<1>2. Len(chan) \in Nat /\ DOMAIN chan = 1..Len(chan)
  BY DEF TypeOK
<1>3. ASSUME NEW r, Rooted(r.cov), chan' = Append(chan, r)
      PROVE  \A j \in DOMAIN chan' : Rooted(chan'[j].cov)
  BY <1>2, <1>3 DEF CoveragesRooted, TypeOK
<1>4. ASSUME chan # <<>>
      PROVE  /\ Rooted(Head(chan).cov)
             /\ \A j \in DOMAIN Tail(chan) : Rooted(Tail(chan)[j].cov)
  BY <1>2, <1>4 DEF CoveragesRooted, TypeOK
<1>5. ASSUME NEW i \in chooseBlock(sender.req), MarkAndRequeue(i)
      PROVE  Rooted(sender'.req.cov)
  <2>1. Rooted(sender.req.cov \cup {i})
    BY <1>5, ChosenRooted DEF CoveragesRooted
  <2>2. sender'.req.cov = sender.req.cov \cup {i}
    BY <1>5 DEF MarkAndRequeue, TypeOK, Request
  <2> QED BY <2>1, <2>2
<1> USE DEF CoveragesRooted
<1>6. ASSUME NEW k \in Keys, ProcessRequest(k)
      PROVE  CoveragesRooted'
  BY <1>6 DEF ProcessRequest, ownVars, peerVars
<1>7. ASSUME NEW k \in Keys,
             ProcessRequestUnavailable(k) \/ ProcessRequestUnknownPack(k)
      PROVE  CoveragesRooted'
  BY <1>7 DEF ProcessRequestUnavailable, ProcessRequestUnknownPack, ownVars, peerVars
<1>8. CASE Enqueue
  BY <1>1, <1>3, <1>8 DEF Enqueue, ownVars, peerVars
<1>9. CASE TakeDropped
  BY <1>4, <1>9 DEF TakeDropped, ownVars, peerVars
<1>10. CASE Take
  BY <1>4, <1>10 DEF Take, ownVars, peerVars
<1>11. CASE TakePartyOver
  BY <1>1, <1>4, <1>11 DEF TakePartyOver, ownVars, peerVars
<1>12. ASSUME NEW i \in Indices, AnswerArrives(i)
       PROVE  CoveragesRooted'
  <2> DEFINE k == sender.req.key
  <2>1. k \in Keys
    BY DEF TypeOK, Request
  <2>2. \A q \in Keys : Rooted(have'[q])
    BY <1>12, <2>1, RootedGrows DEF AnswerArrives, TypeOK
  <2>3. Rooted(sender'.req.cov)
    BY <1>5, <1>12 DEF AnswerArrives
  <2> QED BY <1>12, <2>2, <2>3 DEF AnswerArrives, ownVars
<1>13. ASSUME NEW i \in Indices, AnswerLost(i)
       PROVE  CoveragesRooted'
  <2>1. Rooted(sender'.req.cov)
    BY <1>5, <1>13 DEF AnswerLost
  <2> QED BY <1>13, <2>1 DEF AnswerLost, ownVars, peerVars
<1>14. CASE NoAnswer
  BY <1>1, <1>14 DEF NoAnswer, ownVars, peerVars
<1>15. CASE ConcurrentMapAccess \/ ChoosePanics
  BY <1>15 DEF ConcurrentMapAccess, ChoosePanics, ownVars, peerVars
<1>16. CASE Requeue
  BY <1>1, <1>3, <1>16 DEF Requeue, ownVars, peerVars
<1> QED
  BY <1>6, <1>7, <1>8, <1>9, <1>10, <1>11, <1>12, <1>13, <1>14, <1>15, <1>16
  DEF RecvNext, SenderNext

\* So do downloads, rescans, new requests and the clock.
LEMMA RootedOther ==
  /\ TypeOK /\ CoveragesRooted
  /\ PackNext \/ (\E k \in Keys : SendRequest(k)) \/ Tick \/ UNCHANGED vars
  => CoveragesRooted'
<1> SUFFICES ASSUME TypeOK, CoveragesRooted,
                    \/ PackNext
                    \/ \E k \in Keys : SendRequest(k)
                    \/ Tick \/ UNCHANGED vars
             PROVE  CoveragesRooted'
  OBVIOUS
<1> DEFINE OwnRooted == \A f \in Files : Rooted(own[f]) /\ own[f] \subseteq Blocks(f)
<1>1. ASSUME NEW p, NEW full, Refill(p, full)
      PROVE  OwnRooted'
  BY <1>1, BlocksType DEF Refill, CoveragesRooted, Rooted
<1>2. ASSUME OwnRooted', UNCHANGED <<peerVars, chan, sender, recv>>
      PROVE  CoveragesRooted'
  BY <1>2 DEF CoveragesRooted, peerVars
<1>3. ASSUME NEW p \in Parties, LeaveParty(p) \/ FinishPack(p)
      PROVE  CoveragesRooted'
  BY <1>3, <1>2 DEF LeaveParty, FinishPack, CoveragesRooted
<1>4. ASSUME NEW p \in Parties, ClearPacks(p) \/ Rediscover(p) \/ StartPack(p)
      PROVE  CoveragesRooted'
  BY <1>4, <1>1, <1>2 DEF ClearPacks, Rediscover, StartPack
<1>5. ASSUME NEW f \in Files, NEW i \in Indices, GainBlock(f, i)
      PROVE  CoveragesRooted'
  <2>1. Rooted(own[f] \cup {i}) /\ i \in Blocks(f)
    BY <1>5, RootedGrows DEF GainBlock, CoveragesRooted
  <2>2. OwnRooted'
    BY <1>5, <2>1 DEF GainBlock, CoveragesRooted, TypeOK
  <2> QED BY <1>2, <1>5, <2>2 DEF GainBlock
<1>6. ASSUME NEW k \in Keys, SendRequest(k)
      PROVE  CoveragesRooted'
  BY <1>6 DEF SendRequest, CoveragesRooted, TypeOK, ownVars
<1>7. CASE Tick
  <2>1. \A r \in Request : Older(r).cov = r.cov
    BY DEF Older, Request
  <2>2. sender'.req.cov = sender.req.cov /\ recv'.req.cov = recv.req.cov
    BY <1>7, <2>1 DEF Tick, TypeOK
  <2>3. DOMAIN chan' = DOMAIN chan /\ \A j \in DOMAIN chan : chan'[j].cov = chan[j].cov
    BY <1>7, <2>1 DEF Tick, TypeOK
  <2> QED BY <1>7, <2>2, <2>3 DEF Tick, CoveragesRooted, ownVars, peerVars
<1>8. CASE UNCHANGED vars
  BY <1>8 DEF vars, ownVars, peerVars, CoveragesRooted
<1> QED BY <1>3, <1>4, <1>5, <1>6, <1>7, <1>8 DEF PackNext

\* In every reachable state a coverage that is not empty has the first block.
LEMMA SeederRooted == Spec => []CoveragesRooted
<1>1. TypeOK /\ CoveragesRooted /\ [Next]_vars => CoveragesRooted'
  BY RootedRequests, RootedOther DEF Next
<1> QED BY RootedInit, SeederTypeCorrect, <1>1, PTL DEF Spec

\* Only an answer takes RequestSender from chooseBlock to the requeueing.
LEMMA OnlyAnswersRequeue ==
  ASSUME TypeOK, [Next]_vars, sender.pc = "choose", sender'.pc = "requeue"
  PROVE  \E i \in chooseBlock(sender.req) : MarkAndRequeue(i)
<1>1. sender' = sender => FALSE
  OBVIOUS
<1>2. CASE RecvNext
  BY <1>1, <1>2 DEF RecvNext, ProcessRequest, ProcessRequestUnavailable,
     ProcessRequestUnknownPack, Enqueue
<1>3. CASE SenderNext
  BY <1>1, <1>3 DEF SenderNext, TakeDropped, Take, TakePartyOver, AnswerArrives,
     AnswerLost, NoAnswer, ConcurrentMapAccess, ChoosePanics, Requeue, Idle
<1>4. CASE PackNext
  BY <1>1, <1>4 DEF PackNext, LeaveParty, ClearPacks, Rediscover, StartPack,
     FinishPack, GainBlock
<1>5. CASE Tick
  <2>1. sender' = [sender EXCEPT !.req = Older(@)]
    BY <1>5 DEF Tick
  <2> QED BY <2>1 DEF TypeOK
<1>6. CASE (\E k \in Keys : SendRequest(k)) \/ UNCHANGED vars
  BY <1>1, <1>6 DEF SendRequest, vars
<1> QED BY <1>2, <1>3, <1>4, <1>5, <1>6 DEF Next

\* chooseBlock, which works forwards from what a request covers, and the
\* downloader's checks, which work backwards from the block that arrives, agree
\* for every size of file: an answer carries a block that the peer lacks and can
\* verify as far as its request tells, if this node has one.
THEOREM SeederAnswersUseful == Spec => AnswersUseful
<1>1. TypeOK /\ CoveragesRooted /\ [Next]_vars => [AnswerUseful]_vars
  <2> SUFFICES ASSUME TypeOK, CoveragesRooted, [Next]_vars,
                      sender.pc = "choose", sender'.pc = "requeue"
               PROVE  LET r == sender.req
                          useful == {i \in own[r.key[2]] \ r.cov : CanVerify(r.cov, i)}
                      IN  IF useful = {} THEN sender'.req.cov = r.cov
                          ELSE \E i \in useful : sender'.req.cov = r.cov \cup {i}
    BY DEF AnswerUseful
  <2>1. PICK i \in chooseBlock(sender.req) : MarkAndRequeue(i)
    BY OnlyAnswersRequeue
  <2>2. sender'.req.cov = sender.req.cov \cup {i}
    BY <2>1 DEF MarkAndRequeue, TypeOK, Request
  <2> QED BY <2>1, <2>2, ChosenUseful
<1> QED BY SeederTypeCorrect, SeederRooted, <1>1, PTL DEF Spec, AnswersUseful

-----------------------------------------------------------------------------
(* How many requests there are *)

\* Two requests of a key cannot both be young, and cannot both be old, if they
\* were received FRESH apart.
LEMMA YoungAndOld ==
  ASSUME RoomForAll, NEW r \in Request, NEW q \in Request,
         r.key = q.key, Apart(r, q)
  PROVE  (r.ttl >= FRESH - 1) # (q.ttl >= FRESH - 1)
<1>1. /\ r.ttl \in Int /\ -1 <= r.ttl /\ r.ttl <= EXPIRY
      /\ q.ttl \in Int /\ -1 <= q.ttl /\ q.ttl <= EXPIRY
  BY LimitsAssumption DEF Request
<1>2. r.ttl - q.ttl >= FRESH \/ q.ttl - r.ttl >= FRESH
  BY DEF Apart
<1>3. FRESH \in Nat /\ EXPIRY \in Nat /\ EXPIRY + 1 < 2 * FRESH
  BY LimitsAssumption DEF RoomForAll
<1>4. CASE r.ttl - q.ttl >= FRESH
  <2>1. r.ttl >= FRESH - 1 /\ ~(q.ttl >= FRESH - 1)
    BY <1>1, <1>3, <1>4
  <2> QED BY <2>1
<1>5. CASE q.ttl - r.ttl >= FRESH
  <2>1. q.ttl >= FRESH - 1 /\ ~(r.ttl >= FRESH - 1)
    BY <1>1, <1>3, <1>5
  <2> QED BY <2>1
<1> QED BY <1>2, <1>4, <1>5

\* A set of two elements.
LEMMA Pair == IsFiniteSet({0, 1}) /\ Cardinality({0, 1}) = 2
<1>1. ASSUME NEW S, IsFiniteSet(S), Cardinality(S) = 1, 1 \notin S
      PROVE  IsFiniteSet(S \cup {1}) /\ Cardinality(S \cup {1}) = 2
  BY <1>1, FS_AddElement
<1>2. IsFiniteSet({0}) /\ Cardinality({0}) = 1 /\ 1 \notin {0}
  BY FS_Singleton
<1>3. IsFiniteSet({0} \cup {1}) /\ Cardinality({0} \cup {1}) = 2
  BY <1>1, <1>2, Zenon
<1>4. {0} \cup {1} = {0, 1}
  OBVIOUS
<1> QED BY <1>3, <1>4, Zenon

\* So there are two of each key at most.
LEMMA TwoForEachKey ==
  ASSUME RoomForAll, NEW s \in Seq(Request),
         \A i, j \in 1..Len(s) : i # j => Apart(s[i], s[j])
  PROVE  Len(s) <= 2 * Cardinality(Keys)
<1> DEFINE Age(j) == IF s[j].ttl >= FRESH - 1 THEN 1 ELSE 0
           g == [j \in 1..Len(s) |-> <<s[j].key, Age(j)>>]
<1>1. Len(s) \in Nat /\ \A j \in 1..Len(s) : s[j] \in Request
  OBVIOUS
<1>2. g \in [1..Len(s) -> Keys \X {0, 1}]
  BY <1>1 DEF Request
<1>3. ASSUME NEW i \in 1..Len(s), NEW j \in 1..Len(s), i # j
      PROVE  g[i] # g[j]
  <2>1. CASE s[i].key = s[j].key
    <3>1. Apart(s[i], s[j])
      BY <1>3
    <3>2. (s[i].ttl >= FRESH - 1) # (s[j].ttl >= FRESH - 1)
      BY <1>1, <2>1, <3>1, YoungAndOld
    <3>3. Age(i) # Age(j)
      BY <3>2
    <3> QED BY <3>3
  <2>2. CASE s[i].key # s[j].key
    BY <2>2
  <2> QED BY <2>1, <2>2
<1>4. g \in Injection(1..Len(s), Keys \X {0, 1})
  <2> HIDE DEF g
  <2> QED BY <1>2, <1>3 DEF Injection, IsInjective
<1>5. /\ IsFiniteSet({0, 1}) /\ Cardinality({0, 1}) = 2
      /\ Cardinality(1..Len(s)) = Len(s)
  <2>1. IsFiniteSet({0, 1}) /\ Cardinality({0, 1}) = 2
    BY Pair
  <2>2. Cardinality(1..Len(s)) = IF 1 > Len(s) THEN 0 ELSE Len(s) - 1 + 1
    <3>1. 1 \in Int /\ Len(s) \in Int
      BY <1>1
    <3> HIDE DEF g
    <3> QED BY <3>1, FS_Interval
  <2> QED BY <1>1, <2>1, <2>2
<1>6. IsFiniteSet(Keys) /\ Cardinality(Keys) \in Nat
  BY FS_CardinalityType DEF RoomForAll
<1>7. /\ IsFiniteSet(Keys \X {0, 1})
      /\ Cardinality(Keys \X {0, 1}) = Cardinality(Keys) * 2
  BY <1>5, <1>6, FS_Product
<1>8. Cardinality(1..Len(s)) <= Cardinality(Keys \X {0, 1})
  BY <1>4, <1>7, FS_Injection
<1> QED BY <1>5, <1>6, <1>7, <1>8

\* A request next to spaced ones.
LEMMA SpacedAppend ==
  ASSUME TypeOK, ChanSpaced, NEW r \in Request, \A j \in DOMAIN chan : Apart(chan[j], r)
  PROVE  /\ Append(chan, r) \in Seq(Request)
         /\ Len(Append(chan, r)) = Len(chan) + 1
         /\ \A i, j \in 1..Len(Append(chan, r)) :
              i # j => Apart(Append(chan, r)[i], Append(chan, r)[j])
<1>1. chan \in Seq(Request) /\ Len(chan) \in Nat /\ DOMAIN chan = 1..Len(chan)
  BY DEF TypeOK
<1>2. \A j \in 1..Len(chan) : Apart(chan[j], r) /\ Apart(r, chan[j])
  BY <1>1 DEF Apart
<1>3. \A i, j \in 1..Len(chan) : i # j => Apart(chan[i], chan[j])
  BY <1>1 DEF ChanSpaced
<1> QED BY <1>1, <1>2, <1>3

\* If the channel is full, neither goroutine has another request in its hands.
LEMMA FullMeansIdle ==
  ASSUME RoomForAll, TypeOK, Spaced, sender.pc # "ended", Len(chan) = ChanCap
  PROVE  ~SenderBusy /\ recv.pc # "enqueue"
<1>1. ASSUME NEW r \in Request, \A j \in DOMAIN chan : Apart(chan[j], r)
      PROVE  FALSE
  <2>1. Len(Append(chan, r)) <= 2 * Cardinality(Keys)
    BY <1>1, SpacedAppend, TwoForEachKey DEF Spaced
  <2>2. Len(Append(chan, r)) = ChanCap + 1
    BY <1>1, SpacedAppend DEF Spaced
  <2>3. Cardinality(Keys) \in Nat /\ ChanCap >= 2 * Cardinality(Keys)
    BY FS_CardinalityType DEF RoomForAll
  <2> QED BY <2>1, <2>2, <2>3, LimitsAssumption
<1>2. sender.req \in Request /\ recv.req \in Request
  BY DEF TypeOK
<1> QED BY <1>1, <1>2 DEF Spaced, SenderSpaced, RecvSpaced

-----------------------------------------------------------------------------
(* How far apart they are *)

\* At first there are no requests.
LEMMA SpacedInit == Init => Spaced
BY DEF Init, Idle, Spaced, ChanSpaced, SenderSpaced, RecvSpaced, SenderBusy

\* What is timely stays so when an entry of FreshRequests is renewed.
LEMMA TimelyAccepted ==
  ASSUME TypeOK, NEW k \in Keys, Accept(k), NEW r \in Request, Timely(r)
  PROVE  Timely(r)'
<1>1. fresh[r.key] \in 0..FRESH /\ fresh' = [fresh EXCEPT ![k] = FRESH] /\ fresh[k] = 0
  BY DEF TypeOK, Request, Accept
<1>2. fresh'[r.key] >= fresh[r.key] /\ fresh'[r.key] \in Nat
  BY <1>1, LimitsAssumption DEF TypeOK
<1> QED BY <1>1, <1>2, LimitsAssumption DEF Timely, Request

\* Renewing an entry keeps the requests spaced.
LEMMA SpacedAccepted ==
  ASSUME TypeOK, Spaced, NEW k \in Keys, Accept(k), UNCHANGED <<chan, sender>>,
         recv' = recv
  PROVE  Spaced'
<1>1. /\ \A j \in DOMAIN chan : chan[j] \in Request
      /\ sender.req \in Request /\ recv.req \in Request
  BY DEF TypeOK
<1> QED
  BY <1>1, TimelyAccepted
  DEF Spaced, ChanSpaced, SenderSpaced, RecvSpaced, SenderBusy, Apart

\* A request that is received is apart from those of its key, which have lost
\* FRESH of their time.
LEMMA SpacedReceived ==
  ASSUME TypeOK, Spaced, NEW k \in Keys, ProcessRequest(k)
  PROVE  Spaced'
<1> SUFFICES ASSUME sender.pc # "ended" PROVE ChanSpaced' /\ SenderSpaced' /\ RecvSpaced'
  BY DEF Spaced, ProcessRequest
<1>1. /\ \A j \in DOMAIN chan : chan[j] \in Request /\ Timely(chan[j])
      /\ sender.req \in Request
  BY DEF TypeOK, Spaced, ChanSpaced
<1>2. Accept(k) /\ UNCHANGED <<chan, sender>>
  BY DEF ProcessRequest
<1>3. recv'.req.key = k /\ recv'.req.ttl = EXPIRY
  BY DEF ProcessRequest
<1>4. fresh[k] = 0 /\ fresh'[k] = FRESH
  BY <1>2 DEF Accept, TypeOK
<1>5. ASSUME NEW r \in Request, Timely(r)
      PROVE  Timely(r)' /\ Apart(r, recv'.req)
  <2>1. Timely(r)'
    BY <1>2, <1>5, TimelyAccepted
  <2>2. CASE r.key = k
    <3>1. r.ttl <= (EXPIRY - FRESH) + 0
      BY <1>4, <1>5, <2>2 DEF Timely
    <3>2. EXPIRY - r.ttl >= FRESH
      BY <3>1, LimitsAssumption DEF Request
    <3> QED BY <1>3, <2>1, <3>2 DEF Apart
  <2>3. CASE r.key # k
    BY <1>3, <2>1, <2>3 DEF Apart
  <2> QED BY <2>2, <2>3
<1>6. Timely(recv.req)'
  BY <1>3, <1>4, LimitsAssumption DEF Timely
<1>7. ChanSpaced'
  BY <1>1, <1>2, <1>5 DEF Spaced, ChanSpaced, Apart
<1>8. SenderSpaced'
  BY <1>1, <1>2, <1>5 DEF Spaced, SenderSpaced, SenderBusy, Apart
<1>9. RecvSpaced'
  <2>1. \A j \in DOMAIN chan : Apart(chan[j], recv'.req)
    BY <1>1, <1>5
  <2>2. SenderBusy => Apart(sender.req, recv'.req)
    BY <1>1, <1>5 DEF Spaced, SenderSpaced
  <2> QED BY <1>2, <1>6, <2>1, <2>2 DEF RecvSpaced, SenderBusy, Apart
<1> QED BY <1>7, <1>8, <1>9

\* A request that Recv or RequestSender puts into the channel is apart from
\* those that are there.
LEMMA SpacedEnqueued ==
  ASSUME TypeOK, ChanSpaced, NEW r \in Request, Timely(r),
         \A j \in DOMAIN chan : Apart(chan[j], r),
         chan' = Append(chan, r), fresh' = fresh
  PROVE  /\ ChanSpaced'
         /\ \A q : Apart(q, r) /\ (\A j \in DOMAIN chan : Apart(chan[j], q))
                  => \A j \in DOMAIN chan' : Apart(chan'[j], q)
<1>1. chan \in Seq(Request) /\ Len(chan) \in Nat /\ DOMAIN chan = 1..Len(chan)
  BY DEF TypeOK
<1>2. DOMAIN chan' = 1..(Len(chan) + 1)
  BY <1>1
<1>3. \A j \in DOMAIN chan' : chan'[j] = r \/ (j \in DOMAIN chan /\ chan'[j] = chan[j])
  BY <1>1
<1>4. \A i, j \in DOMAIN chan' : i # j => Apart(chan'[i], chan'[j])
  BY SpacedAppend, <1>1, <1>2
<1>5. \A j \in DOMAIN chan' : Timely(chan'[j])
  BY <1>3 DEF ChanSpaced
<1>6. ChanSpaced'
  BY <1>4, <1>5 DEF ChanSpaced, Timely, Apart
<1>7. ASSUME NEW q, Apart(q, r), \A j \in DOMAIN chan : Apart(chan[j], q),
             NEW j \in DOMAIN chan'
      PROVE  Apart(chan'[j], q)
  BY <1>3, <1>7 DEF Apart
<1> QED BY <1>6, <1>7

\* Taking a request leaves it apart from the others.
LEMMA SpacedTaken ==
  ASSUME TypeOK, ChanSpaced, chan # <<>>, chan' = Tail(chan), fresh' = fresh
  PROVE  /\ ChanSpaced'
         /\ Timely(Head(chan))
         /\ \A j \in DOMAIN chan' : Apart(chan'[j], Head(chan))
         /\ \A q : (\A j \in DOMAIN chan : Apart(chan[j], q))
                  => /\ Apart(Head(chan), q)
                     /\ \A j \in DOMAIN chan' : Apart(chan'[j], q)
<1> DEFINE t == Tail(chan)
<1>1. chan \in Seq(Request) /\ Len(chan) \in Nat /\ DOMAIN chan = 1..Len(chan)
  BY DEF TypeOK
<1>2. Len(chan) >= 1 /\ t \in Seq(Request) /\ DOMAIN t = 1..(Len(chan) - 1)
  BY <1>1
<1>3. \A j \in DOMAIN t : j \in Nat /\ j + 1 \in DOMAIN chan /\ j + 1 # 1
  BY <1>1, <1>2
<1>4. \A j \in DOMAIN t : t[j] = chan[j + 1]
  BY <1>1, <1>2
<1>5. \A i, j \in DOMAIN t : i # j => i + 1 # j + 1
  BY <1>2
<1>6. Head(chan) = chan[1] /\ 1 \in DOMAIN chan
  BY <1>1, <1>2
<1>7. chan' = t
  OBVIOUS
<1> HIDE DEF t
<1>8. \A j \in DOMAIN t : Timely(t[j])
  BY <1>3, <1>4 DEF ChanSpaced
<1>9. \A i, j \in DOMAIN t : i # j => Apart(t[i], t[j])
  BY <1>3, <1>4, <1>5 DEF ChanSpaced
<1>10. ChanSpaced'
  BY <1>7, <1>8, <1>9 DEF ChanSpaced, Timely, Apart
<1>11. Timely(Head(chan)) /\ \A j \in DOMAIN chan' : Apart(chan'[j], Head(chan))
  BY <1>3, <1>4, <1>6, <1>7 DEF ChanSpaced
<1>12. ASSUME NEW q, \A j \in DOMAIN chan : Apart(chan[j], q)
       PROVE  Apart(Head(chan), q) /\ \A j \in DOMAIN chan' : Apart(chan'[j], q)
  BY <1>3, <1>4, <1>6, <1>7, <1>12
<1> QED BY <1>10, <1>11, <1>12

\* The steps of RequestSender that leave its channel as it is keep the key and
\* the time of the request, or drop it.
LEMMA SpacedInPlace ==
  ASSUME TypeOK, Spaced, UNCHANGED <<chan, fresh, recv>>,
         sender'.pc # "ended" => sender.pc # "ended",
         SenderBusy' => /\ SenderBusy
                        /\ sender'.req.key = sender.req.key
                        /\ sender'.req.ttl = sender.req.ttl
  PROVE  Spaced'
BY DEF Spaced, ChanSpaced, SenderSpaced, RecvSpaced, SenderBusy, Timely, Apart

\* The goroutines' other steps move requests, or drop them.
LEMMA SpacedMoved ==
  ASSUME TypeOK, Spaced, Enqueue \/ SenderNext
  PROVE  Spaced'
<1> SUFFICES ASSUME sender'.pc # "ended" PROVE Spaced'
  BY DEF Spaced
<1>1. sender.req \in Request /\ recv.req \in Request
  BY DEF TypeOK
<1>2. ASSUME sender.pc # "ended"
      PROVE  ChanSpaced /\ SenderSpaced /\ RecvSpaced
  BY <1>2 DEF Spaced
<1>3. CASE Enqueue
  <2>1. sender.pc # "ended" /\ recv.pc = "enqueue" /\ ~(recv'.pc = "enqueue")
    BY <1>3 DEF Enqueue, Idle
  <2>2. /\ Timely(recv.req) /\ \A j \in DOMAIN chan : Apart(chan[j], recv.req)
        /\ SenderBusy => Apart(sender.req, recv.req)
    BY <1>2, <2>1 DEF RecvSpaced
  <2>3. /\ ChanSpaced'
        /\ SenderBusy => \A j \in DOMAIN chan' : Apart(chan'[j], sender.req)
    BY <1>1, <1>2, <1>3, <2>1, <2>2, SpacedEnqueued DEF Enqueue, SenderSpaced
  <2>4. SenderSpaced'
    BY <1>2, <1>3, <2>1, <2>3 DEF Enqueue, SenderSpaced, SenderBusy, Timely, Apart
  <2> QED BY <2>1, <2>3, <2>4 DEF Spaced, RecvSpaced
<1>4. CASE Requeue
  <2>1. sender.pc = "requeue" /\ SenderBusy /\ ~SenderBusy'
    BY <1>4 DEF Requeue, Idle, SenderBusy
  <2>2. Timely(sender.req) /\ \A j \in DOMAIN chan : Apart(chan[j], sender.req)
    BY <1>2, <2>1 DEF SenderSpaced
  <2>3. recv.pc = "enqueue" => /\ Timely(recv.req) /\ Apart(recv.req, sender.req)
                               /\ \A j \in DOMAIN chan : Apart(chan[j], recv.req)
    BY <1>1, <1>2, <2>1 DEF RecvSpaced, Apart
  <2>4. /\ ChanSpaced'
        /\ recv.pc = "enqueue" => \A j \in DOMAIN chan' : Apart(chan'[j], recv.req)
    BY <1>1, <1>2, <1>4, <2>1, <2>2, <2>3, SpacedEnqueued DEF Requeue
  <2>5. RecvSpaced'
    BY <1>4, <2>1, <2>3, <2>4 DEF Requeue, RecvSpaced, Timely, Apart
  <2> QED BY <2>1, <2>4, <2>5 DEF Spaced, SenderSpaced
<1>5. CASE TakeDropped
  <2>1. sender.pc = "idle" /\ ~SenderBusy /\ ~SenderBusy'
    BY <1>5 DEF TakeDropped, SenderBusy
  <2>2. /\ ChanSpaced'
        /\ recv.pc = "enqueue" => /\ Timely(recv.req)
                                  /\ \A j \in DOMAIN chan' : Apart(chan'[j], recv.req)
    BY <1>2, <1>5, <2>1, SpacedTaken DEF TakeDropped, RecvSpaced
  <2>3. RecvSpaced'
    BY <1>5, <2>1, <2>2 DEF TakeDropped, RecvSpaced, Timely, Apart
  <2> QED BY <2>1, <2>2, <2>3 DEF Spaced, SenderSpaced
<1>6. CASE Take
  <2>1. sender.pc = "idle" /\ SenderBusy' /\ sender'.req = Head(chan)
    BY <1>6 DEF Take, SenderBusy
  <2>2. /\ ChanSpaced' /\ Timely(Head(chan))
        /\ \A j \in DOMAIN chan' : Apart(chan'[j], Head(chan))
        /\ recv.pc = "enqueue" => /\ Timely(recv.req)
                                  /\ Apart(Head(chan), recv.req)
                                  /\ \A j \in DOMAIN chan' : Apart(chan'[j], recv.req)
    BY <1>2, <1>6, <2>1, SpacedTaken DEF Take, RecvSpaced
  <2>3. SenderSpaced'
    BY <1>6, <2>1, <2>2 DEF Take, SenderSpaced, Timely, Apart
  <2>4. RecvSpaced'
    BY <1>6, <2>1, <2>2 DEF Take, RecvSpaced, Timely, Apart
  <2> QED BY <2>2, <2>3, <2>4 DEF Spaced
<1>7. CASE TakePartyOver
  BY <1>7 DEF TakePartyOver, Idle
<1>8. ASSUME NEW i \in Indices, AnswerArrives(i) \/ AnswerLost(i)
      PROVE  Spaced'
  <2>1. /\ sender.pc = "choose" /\ UNCHANGED <<chan, fresh, recv>>
        /\ MarkAndRequeue(i)
    BY <1>8 DEF AnswerArrives, AnswerLost, Choosing, peerVars
  <2>2. sender'.req.key = sender.req.key /\ sender'.req.ttl = sender.req.ttl
    BY <1>1, <2>1 DEF MarkAndRequeue, Request
  <2> QED BY <2>1, <2>2, SpacedInPlace DEF SenderBusy
<1>9. CASE NoAnswer
  BY <1>9, SpacedInPlace DEF NoAnswer, Choosing, Idle, SenderBusy
<1>10. CASE ConcurrentMapAccess \/ ChoosePanics
  BY <1>10, SpacedInPlace DEF ConcurrentMapAccess, ChoosePanics, SenderBusy
<1> QED
  BY <1>3, <1>4, <1>5, <1>6, <1>7, <1>8, <1>9, <1>10 DEF SenderNext

\* The clock takes the same time from all requests, since none has expired and
\* none is waiting for room.
LEMMA SpacedTick ==
  ASSUME RoomForAll, TypeOK, Spaced, Tick
  PROVE  Spaced'
<1> SUFFICES ASSUME sender'.pc # "ended" PROVE ChanSpaced' /\ SenderSpaced' /\ RecvSpaced'
  BY DEF Spaced
<1>1. sender.pc # "ended" /\ sender'.pc = sender.pc /\ recv'.pc = recv.pc
  BY DEF Tick, TypeOK
<1>2. ChanSpaced /\ SenderSpaced
  BY <1>1 DEF Spaced
<1>3. recv.pc # "enqueue" /\ sender.pc # "requeue"
  BY <1>1, FullMeansIdle DEF Tick, SenderBusy
<1>4. /\ \A j \in DOMAIN chan : chan[j] \in Request /\ chan[j].ttl >= 0
      /\ sender.req \in Request /\ (SenderBusy => sender.req.ttl >= 0)
  <2>1. /\ \A j \in DOMAIN chan : chan[j] \in Request
        /\ sender.req \in Request
    BY DEF TypeOK
  <2>2. \A r \in Request : ~Dropped(r) => r.ttl >= 0
    BY LimitsAssumption DEF Dropped, Request
  <2>3. /\ \A j \in DOMAIN chan : ~Dropped(chan[j])
        /\ SenderBusy => ~Dropped(sender.req)
    BY <1>1 DEF Tick, SenderBusy
  <2> QED BY <2>1, <2>2, <2>3
<1>5. ASSUME NEW r \in Request, r.ttl >= 0
      PROVE  Older(r).key = r.key /\ Older(r).ttl = r.ttl - 1
  BY <1>5 DEF Older, Request
<1>6. ASSUME NEW r \in Request, r.ttl >= 0, Timely(r)
      PROVE  Older(r).ttl <= (EXPIRY - FRESH) + fresh'[r.key]
  <2>1. r.key \in Keys /\ fresh[r.key] \in Nat /\ r.ttl \in Int
    BY DEF Request, TypeOK
  <2>2. fresh'[r.key] = IF fresh[r.key] = 0 THEN 0 ELSE fresh[r.key] - 1
    BY <2>1 DEF Tick
  <2> QED BY <1>5, <1>6, <2>1, <2>2, LimitsAssumption DEF Timely
<1>7. ASSUME NEW r \in Request, r.ttl >= 0, NEW q \in Request, q.ttl >= 0, Apart(r, q)
      PROVE  Apart(Older(r), Older(q))
  <2>1. r.ttl \in Int /\ q.ttl \in Int
    BY DEF Request
  <2> QED BY <1>5, <1>7, <2>1, LimitsAssumption DEF Apart
<1>8. DOMAIN chan' = DOMAIN chan /\ \A j \in DOMAIN chan : chan'[j] = Older(chan[j])
  BY DEF Tick
<1>9. ChanSpaced'
  <2>1. \A j \in DOMAIN chan : Older(chan[j]).ttl <= (EXPIRY - FRESH) + fresh'[Older(chan[j]).key]
    BY <1>2, <1>4, <1>5, <1>6 DEF ChanSpaced
  <2>2. \A i, j \in DOMAIN chan : i # j => Apart(Older(chan[i]), Older(chan[j]))
    BY <1>2, <1>4, <1>7 DEF ChanSpaced
  <2> QED BY <1>8, <2>1, <2>2 DEF ChanSpaced, Timely, Apart
<1>10. SenderSpaced'
  <2> SUFFICES ASSUME SenderBusy
               PROVE  /\ Timely(sender.req)'
                      /\ \A j \in DOMAIN chan' : Apart(chan'[j], sender'.req)
    BY <1>1 DEF SenderSpaced, SenderBusy, Apart
  <2>1. sender'.req = Older(sender.req)
    BY DEF Tick, TypeOK, SenderBusy
  <2>2. Timely(sender.req)'
    BY <1>2, <1>4, <1>5, <1>6, <2>1 DEF SenderSpaced, Timely
  <2>3. \A j \in DOMAIN chan : Apart(Older(chan[j]), Older(sender.req))
    BY <1>2, <1>4, <1>7 DEF SenderSpaced
  <2> QED BY <1>8, <2>1, <2>2, <2>3
<1>11. RecvSpaced'
  BY <1>1, <1>3 DEF RecvSpaced
<1> QED BY <1>9, <1>10, <1>11

\* If there is room for two requests of each key, all requests in the node's
\* hands are spaced in every reachable state.
LEMMA SeederSpaced == ASSUME RoomForAll PROVE Spec => []Spaced
<1>1. TypeOK /\ Spaced /\ [Next]_vars => Spaced'
  <2> SUFFICES ASSUME TypeOK, Spaced, [Next]_vars PROVE Spaced'
    OBVIOUS
  <2>1. CASE UNCHANGED <<fresh, chan, sender, recv>>
    BY <2>1, SpacedInPlace DEF SenderBusy
  <2>2. ASSUME NEW k \in Keys, ProcessRequestUnavailable(k) \/ ProcessRequestUnknownPack(k)
        PROVE  Spaced'
    BY <2>2, SpacedAccepted DEF ProcessRequestUnavailable, ProcessRequestUnknownPack
  <2>3. CASE PackNext \/ (\E k \in Keys : SendRequest(k)) \/ UNCHANGED vars
    BY <2>1, <2>3 DEF PackNext, LeaveParty, ClearPacks, Rediscover, StartPack,
       FinishPack, GainBlock, SendRequest, vars
  <2> QED
    BY <2>2, <2>3, SpacedReceived, SpacedMoved, SpacedTick DEF Next, RecvNext
<1> QED BY SpacedInit, SeederTypeCorrect, <1>1, PTL DEF Spec

\* The inductive invariant holds: types, rooted coverages, spaced requests.
THEOREM SeederInvariant == ASSUME RoomForAll PROVE Spec => []SeederInv
BY SeederTypeCorrect, SeederRooted, SeederSpaced, PTL DEF SeederInv

\* If RequestChan has two places for each file that somebody in the party may
\* ask for, and a repeated request is ignored for more than half of the time for
\* which one is answered, RequestSender never waits for room in RequestChan, nor
\* for a mutex of a goroutine that does.
THEOREM SeederNoDeadlock == ASSUME RoomForAll PROVE Spec => []NoDeadlock
<1>1. SeederInv => NoDeadlock
  <2> SUFFICES ASSUME SeederInv, Len(chan) = ChanCap, sender.pc # "ended"
               PROVE  ~SenderBusy
    BY DEF NoDeadlock, SenderBusy
  <2> QED BY FullMeansIdle DEF SeederInv
<1> QED BY SeederInvariant, <1>1, PTL

-----------------------------------------------------------------------------
(* Two requests of a key *)

\* Requests of one key that were received FRESH apart are two at most, however
\* they are held.
LEMMA TwoApart ==
  ASSUME RoomForAll, NEW k, NEW T, NEW req \in [T -> Request],
         \A i \in T : req[i].key = k,
         \A i, j \in T : i # j => Apart(req[i], req[j])
  PROVE  Cardinality(T) <= 2
<1> DEFINE Age(i) == IF req[i].ttl >= FRESH - 1 THEN 1 ELSE 0
           g == [i \in T |-> Age(i)]
<1>1. g \in [T -> {0, 1}]
  OBVIOUS
<1>2. ASSUME NEW i \in T, NEW j \in T, i # j
      PROVE  g[i] # g[j]
  <2>1. req[i] \in Request /\ req[j] \in Request /\ req[i].key = req[j].key
    OBVIOUS
  <2>2. Apart(req[i], req[j])
    BY <1>2
  <2>3. (req[i].ttl >= FRESH - 1) # (req[j].ttl >= FRESH - 1)
    BY <2>1, <2>2, YoungAndOld
  <2> QED BY <2>3
<1>3. g \in Injection(T, {0, 1})
  <2> HIDE DEF g
  <2> QED BY <1>1, <1>2 DEF Injection, IsInjective
<1>4. Cardinality(T) <= Cardinality({0, 1})
  <2> HIDE DEF g
  <2> QED BY <1>3, Pair, FS_Injection
<1> QED BY <1>4, Pair

\* The requests of a key in the node's hands are counted by the places they are
\* in: 0 for RequestSender, one behind the channel for Recv.
LEMMA InHandIsCount ==
  ASSUME NEW n \in Nat, NEW C \in SUBSET (1..n), NEW a \in BOOLEAN, NEW b \in BOOLEAN
  PROVE  Cardinality((C \cup (IF a THEN {0} ELSE {})) \cup (IF b THEN {n + 1} ELSE {}))
           = Cardinality(C) + (IF a THEN 1 ELSE 0) + (IF b THEN 1 ELSE 0)
<1> DEFINE D == C \cup (IF a THEN {0} ELSE {})
<1>1. IsFiniteSet(C) /\ Cardinality(C) \in Nat
  <2>1. IsFiniteSet(1..n)
    BY FS_Interval
  <2> QED BY <2>1, FS_Subset, FS_CardinalityType
<1>2. 0 \notin C /\ n + 1 \notin D
  OBVIOUS
<1>3. IsFiniteSet(D) /\ Cardinality(D) = Cardinality(C) + (IF a THEN 1 ELSE 0)
  <2>1. CASE a
    <3>1. D = C \cup {0}
      BY <2>1
    <3> QED BY <1>1, <1>2, <2>1, <3>1, FS_AddElement
  <2>2. CASE ~a
    <3>1. D = C
      BY <2>2
    <3> QED BY <1>1, <2>2, <3>1
  <2> QED BY <2>1, <2>2
<1> HIDE DEF D
<1>4. Cardinality(D \cup (IF b THEN {n + 1} ELSE {}))
        = Cardinality(D) + (IF b THEN 1 ELSE 0)
  <2>1. CASE b
    <3>1. Cardinality(D \cup {n + 1}) = Cardinality(D) + 1
      BY <1>2, <1>3, FS_AddElement
    <3> QED BY <2>1, <3>1
  <2>2. CASE ~b
    <3>1. D \cup (IF b THEN {n + 1} ELSE {}) = D
      BY <2>2
    <3>2. Cardinality(D) \in Nat
      BY <1>3, FS_CardinalityType
    <3> QED BY <2>2, <3>1, <3>2
  <2> QED BY <2>1, <2>2
<1> QED BY <1>3, <1>4 DEF D

\* Spaced requests of a key are two at most.
LEMMA SpacedTwo == ASSUME RoomForAll, TypeOK, Spaced PROVE TwoPerKey
<1> SUFFICES ASSUME sender.pc # "ended", NEW k \in Keys PROVE InHand(k) <= 2
  BY DEF TwoPerKey
<1> DEFINE n == Len(chan)
           C == {j \in 1..n : chan[j].key = k}
           a == SenderBusy /\ sender.req.key = k
           b == recv.pc = "enqueue" /\ recv.req.key = k
           T == (C \cup (IF a THEN {0} ELSE {})) \cup (IF b THEN {n + 1} ELSE {})
           Held(j) == IF j = 0 THEN sender.req ELSE IF j = n + 1 THEN recv.req ELSE chan[j]
           req == [j \in T |-> Held(j)]
<1>1. /\ n \in Nat /\ DOMAIN chan = 1..n /\ \A j \in 1..n : chan[j] \in Request
      /\ sender.req \in Request /\ recv.req \in Request
  BY DEF TypeOK
<1>2. \A j \in T : \/ j \in C /\ Held(j) = chan[j]
                   \/ a /\ j = 0 /\ Held(j) = sender.req
                   \/ b /\ j = n + 1 /\ Held(j) = recv.req
  BY <1>1
<1>3. req \in [T -> Request]
  BY <1>1, <1>2
<1>4. \A j \in T : req[j] = Held(j)
  OBVIOUS
<1> HIDE DEF req, T, Held
<1>5. \A j \in T : req[j].key = k
  BY <1>2, <1>4
<1>6. ASSUME NEW i \in T, NEW j \in T, i # j
      PROVE  Apart(req[i], req[j])
  <2>1. /\ \A x, y \in C : x # y => Apart(chan[x], chan[y])
        /\ a => \A x \in C : Apart(chan[x], sender.req)
        /\ b => \A x \in C : Apart(chan[x], recv.req)
        /\ a /\ b => Apart(sender.req, recv.req)
    BY <1>1 DEF Spaced, ChanSpaced, SenderSpaced, RecvSpaced
  <2>2. \A r, q : Apart(r, q) => Apart(q, r)
    BY DEF Apart
  <2> HIDE DEF C, a, b
  <2> QED BY <1>2, <1>4, <1>6, <2>1, <2>2
<1>7. Cardinality(T) <= 2
  BY <1>3, <1>5, <1>6, TwoApart
<1>8. InHand(k) = Cardinality(T)
  <2>1. a \in BOOLEAN /\ b \in BOOLEAN /\ C \in SUBSET (1..n)
    OBVIOUS
  <2>2. InHand(k) = Cardinality(C) + (IF a THEN 1 ELSE 0) + (IF b THEN 1 ELSE 0)
    BY <1>1 DEF InHand
  <2> HIDE DEF a, b, C, n
  <2> QED BY <1>1, <2>1, <2>2, InHandIsCount DEF T
<1> QED BY <1>7, <1>8

\* Requests are renewed before they expire and are put back after each answer;
\* all the same, with the code's times, a file that somebody downloads never
\* takes up more than two places of RequestChan and of the hands of Recv and
\* RequestSender.
THEOREM SeederTwoPerKey == ASSUME RoomForAll PROVE Spec => []TwoPerKey
<1>1. SeederInv => TwoPerKey
  BY SpacedTwo DEF SeederInv
<1> QED BY SeederInvariant, <1>1, PTL
=============================================================================
