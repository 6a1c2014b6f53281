------------------------------- MODULE Seeder -------------------------------
(***************************************************************************)
(* How a member answers the requests of the party for blocks of its files  *)
(* (white-box/party.go), together with the members who ask.                *)
(*                                                                         *)
(*   Recv           ProcessRequest: a request goes to RequestChan, with    *)
(*                  pack.Mutex held until there is room for it             *)
(*   RequestSender  takes a request, sends one block for it, and puts it   *)
(*                  back at the end of the same channel, until it expires  *)
(*   UI             /get, /leave and /rescan                               *)
(*                                                                         *)
(* Every party has one pack.  A key is what FreshRequests is indexed by:   *)
(* who asks, and for which file.  The member's own download of a pack that *)
(* it does not share from the start is a reliable one (ReliableDownload),  *)
(* block by block.  Times are in ticks of a clock, and count down.         *)
(***************************************************************************)
EXTENDS Integers, Sequences, FiniteSets

CONSTANTS
  Peers,      \* who asks
  Self,       \* this node: its own requests flood back to it, too
  Parties,
  Files,
  PartyOf,    \* the party that a file is shared in
  NumBlocks,  \* how many blocks a file has
  Shared,     \* parties whose pack this node shares from its disk
  WORD,       \* bits in a word of a coverage: 64
  ChanCap,    \* capacity of RequestChan: 100
  FRESH,      \* how long a repeated request is ignored: 5 s
  EXPIRY      \* how long a request is answered: 6 s

Keys    == Peers \X Files
Blocks(f) == 0..(NumBlocks[f] - 1)
Indices == UNION {Blocks(f) : f \in Files}

ASSUME FilesAssumption ==
  /\ PartyOf \in [Files -> Parties]
  /\ NumBlocks \in [Files -> Nat \ {0}]
  /\ Shared \subseteq Parties
  /\ Keys # {}
ASSUME LimitsAssumption ==
  /\ WORD \in Nat \ {0} /\ ChanCap \in Nat \ {0}
  /\ FRESH \in Nat /\ EXPIRY \in Nat

Phases  == {"NONE", "AVAILABLE", "ACTIVE", "COMPLETE"}
Request == [key : Keys, cov : SUBSET Indices, ttl : -1..EXPIRY]

VARIABLES
  member,   \* parties that are in Parties
  phase,    \* State of the pack of each party, "NONE" if it is not in Packs
  own,      \* Coverage of each file at this node
  have,     \* what each peer has of each file it asks for
  asked,    \* {} or {the coverage in the newest request of each key}
  fresh,    \* for how much longer FreshRequests keeps a key out
  chan,     \* RequestChan
  sender,   \* program counter of RequestSender, its request and block
  recv,     \* program counter of Recv, its request
  halted    \* "no", or why the process died

ownVars  == <<member, phase, own>>
peerVars == <<have, asked>>
vars == <<ownVars, peerVars, fresh, chan, sender, recv, halted>>

Up == halted = "no"

NoRequest ==
  [key |-> CHOOSE k \in Keys : TRUE, cov |-> {}, ttl |-> -1]
Idle == [pc |-> "idle", req |-> NoRequest]

FilesOf(p) == {f \in Files : PartyOf[f] = p}

\* ProcessRequest keeps pack.Mutex while it waits for room in the channel.
PackUnlocked(p) == recv.pc = "idle" \/ PartyOf[recv.req.key[2]] # p

Init ==
  /\ member = Parties
  /\ phase = [p \in Parties |-> IF p \in Shared THEN "COMPLETE" ELSE "AVAILABLE"]
  /\ own = [f \in Files |-> IF PartyOf[f] \in Shared THEN Blocks(f) ELSE {}]
  /\ have = [k \in Keys |-> {}]
  /\ asked = [k \in Keys |-> {}]
  /\ fresh = [k \in Keys |-> 0]
  /\ chan = <<>>
  /\ sender = Idle
  /\ recv = Idle
  /\ halted = "no"

-----------------------------------------------------------------------------
(* Blocks *)

leftChild(i)  == 2 * i + 1
rightChild(i) == 2 * i + 2

\* What the downloader checks: a block is verified by its predecessor or by its
\* parent in the tree.
Parent(i) == (i - 1) \div 2
CanVerify(cov, i) == i = 0 \/ i - 1 \in cov \/ Parent(i) \in cov

\* Words in the coverage of a file.
Words(f) == (NumBlocks[f] + WORD - 1) \div WORD

\* Whether every index that chooseBlock looks up has a word in the coverage.
InRange(r) ==
  \A i \in r.cov : rightChild(i) \div WORD < Words(r.key[2])

\* The blocks that the peer can verify next and does not have.
nextBlocks(cov) ==
  {n \in Indices \ cov :
     \E i \in cov : n \in {i + 1, leftChild(i), rightChild(i)}}

-----------------------------------------------------------------------------
(* Recv *)

\* Mistake: the entry of FreshRequests is not renewed.
AcceptForgets(k) ==
  /\ Up /\ recv.pc = "idle"
  /\ asked[k] # {} /\ fresh[k] = 0
  /\ PartyOf[k[2]] \in member
  /\ UNCHANGED fresh

\* A request that is not kept out by FreshRequests, up to the lock of
\* pack.Mutex.  Copies of a request come along several paths.  An older one
\* than the last, which has its time against it, is dropped.
Accept(k) ==
  /\ Up /\ recv.pc = "idle"
  /\ asked[k] # {} /\ fresh[k] = 0
  /\ PartyOf[k[2]] \in member
  /\ fresh' = [fresh EXCEPT ![k] = FRESH]

\* Mistake: FreshRequests is not looked at.
ProcessRequestAgain(k) ==
  /\ Up /\ recv.pc = "idle"
  /\ asked[k] # {}
  /\ PartyOf[k[2]] \in member
  /\ phase[PartyOf[k[2]]] \in {"ACTIVE", "COMPLETE"}
  /\ \E cov \in asked[k] :
       recv' = [pc |-> "enqueue", req |-> [key |-> k, cov |-> cov, ttl |-> EXPIRY]]
  /\ UNCHANGED <<ownVars, peerVars, fresh, chan, sender, halted>>

ProcessRequest(k) ==
  /\ Accept(k)
  /\ phase[PartyOf[k[2]]] \in {"ACTIVE", "COMPLETE"}
  /\ \E cov \in asked[k] :
       recv' = [pc |-> "enqueue", req |-> [key |-> k, cov |-> cov, ttl |-> EXPIRY]]
  /\ UNCHANGED <<ownVars, peerVars, chan, sender, halted>>

\* A pack that this node did not ask for.
ProcessRequestUnavailable(k) ==
  /\ Accept(k)
  /\ phase[PartyOf[k[2]]] = "AVAILABLE"
  /\ UNCHANGED <<ownVars, peerVars, chan, sender, recv, halted>>

\* A pack that this node does not have: the zero LockingPack has a nil mutex.
ProcessRequestUnknownPack(k) ==
  /\ Accept(k)
  /\ phase[PartyOf[k[2]]] = "NONE"
  /\ halted' = "nilMutex"
  /\ UNCHANGED <<ownVars, peerVars, chan, sender, recv>>

\* The send to RequestChan, and the release of pack.Mutex.
Enqueue ==
  /\ Up /\ recv.pc = "enqueue"
  /\ Len(chan) < ChanCap
  /\ chan' = Append(chan, recv.req)
  /\ recv' = Idle
  /\ UNCHANGED <<ownVars, peerVars, fresh, sender, halted>>

-----------------------------------------------------------------------------
(* RequestSender *)

Dropped(r) == r.key[1] = Self \/ r.ttl < 0

TakeDropped ==
  /\ Up /\ sender.pc = "idle" /\ chan # <<>>
  /\ Dropped(Head(chan))
  /\ chan' = Tail(chan)
  /\ UNCHANGED <<ownVars, peerVars, fresh, sender, recv, halted>>

Take ==
  /\ Up /\ sender.pc = "idle" /\ chan # <<>>
  /\ ~Dropped(Head(chan))
  /\ PartyOf[Head(chan).key[2]] \in member
  /\ chan' = Tail(chan)
  /\ sender' = [pc |-> "choose", req |-> Head(chan)]
  /\ UNCHANGED <<ownVars, peerVars, fresh, recv, halted>>

\* "party over": the goroutine returns.
TakePartyOver ==
  /\ Up /\ sender.pc = "idle" /\ chan # <<>>
  /\ ~Dropped(Head(chan))
  /\ PartyOf[Head(chan).key[2]] \notin member
  /\ chan' = Tail(chan)
  /\ sender' = [Idle EXCEPT !.pc = "ended"]
  /\ UNCHANGED <<ownVars, peerVars, fresh, recv, halted>>

\* chooseBlock has pack.Mutex to itself for a moment.
Choosing ==
  /\ Up /\ sender.pc = "choose" /\ InRange(sender.req)
  /\ PackUnlocked(PartyOf[sender.req.key[2]])

\* Mistake: any block that the peer lacks will do.
chooseMissing(r) ==
  LET f == r.key[2]  candidates == own[f] \ r.cov
  IN  IF own[f] = {} THEN {} ELSE IF candidates = {} THEN {0} ELSE candidates

\* Mistake: nothing is sent to a peer that has no block to go on from.
chooseNext(r) == nextBlocks(r.cov) \cap own[r.key[2]]

\* One of the peer's next blocks that this node has; the first block if there
\* is none; nothing at all if this node has nothing.
chooseBlock(r) ==
  LET f == r.key[2]  candidates == nextBlocks(r.cov) \cap own[f]
  IN  IF own[f] = {} THEN {} ELSE IF candidates = {} THEN {0} ELSE candidates

Serving(r) == phase[PartyOf[r.key[2]]] \in {"ACTIVE", "COMPLETE"}

\* The request is marked as if the block arrived.
MarkAndRequeue(i) ==
  sender' = [pc |-> "requeue",
             req |-> [sender.req EXCEPT !.cov = @ \cup {i}]]

\* SendFulfillment, and a peer that drops what it cannot verify.
AnswerArrives(i) ==
  LET k == sender.req.key
  IN  /\ Choosing /\ Serving(sender.req)
      /\ i \in chooseBlock(sender.req)
      /\ MarkAndRequeue(i)
      /\ have' = IF CanVerify(have[k], i)
                   THEN [have EXCEPT ![k] = @ \cup {i}] ELSE have
      /\ UNCHANGED <<ownVars, asked, fresh, chan, recv, halted>>

AnswerLost(i) ==
  /\ Choosing /\ Serving(sender.req)
  /\ i \in chooseBlock(sender.req)
  /\ MarkAndRequeue(i)
  /\ UNCHANGED <<ownVars, peerVars, fresh, chan, recv, halted>>

\* There is nothing to choose from, or the block is not in the maps yet, or it
\* cannot be read, or has not the hash that it should have: the request is
\* forgotten.
NoAnswer ==
  /\ Choosing /\ Serving(sender.req)
  /\ sender' = Idle
  /\ UNCHANGED <<ownVars, peerVars, fresh, chan, recv, halted>>

\* The maps are read without a lock.  As long as this node downloads the pack,
\* VerifiedBlockWriter may be changing them.
ConcurrentMapAccess ==
  /\ Choosing /\ chooseBlock(sender.req) # {}
  /\ phase[PartyOf[sender.req.key[2]]] = "ACTIVE"
  /\ halted' = "mapRace"
  /\ UNCHANGED <<ownVars, peerVars, fresh, chan, sender, recv>>

\* What ends the process in chooseBlock, after a rescan dropped the pack: the
\* nil mutex of the zero LockingPack or, if the pack was advertised again, the
\* coverage without a word that its files have.  Before that, and without any
\* rescan, an index out of the range of the request's coverage.
Panics(r) ==
  IF ~InRange(r) \/ phase[PartyOf[r.key[2]]] = "AVAILABLE" THEN {"outOfRange"}
  ELSE IF ~Serving(r) THEN {"nilMutex"} ELSE {}

ChoosePanics ==
  /\ Up /\ sender.pc = "choose"
  /\ halted' \in Panics(sender.req)
  /\ UNCHANGED <<ownVars, peerVars, fresh, chan, sender, recv>>

\* Mistake: a request that was answered is given its whole time again.
RequeueRenewed ==
  /\ Up /\ sender.pc = "requeue"
  /\ Len(chan) < ChanCap
  /\ chan' = Append(chan, [sender.req EXCEPT !.ttl = EXPIRY])
  /\ sender' = Idle
  /\ UNCHANGED <<ownVars, peerVars, fresh, recv, halted>>

Requeue ==
  /\ Up /\ sender.pc = "requeue"
  /\ Len(chan) < ChanCap
  /\ chan' = Append(chan, sender.req)
  /\ sender' = Idle
  /\ UNCHANGED <<ownVars, peerVars, fresh, recv, halted>>

-----------------------------------------------------------------------------
(* The node's own packs *)

LeaveParty(p) ==
  /\ Up /\ p \in member
  /\ member' = member \ {p}
  /\ UNCHANGED <<phase, own, peerVars, fresh, chan, sender, recv, halted>>

Become(p, ph) == phase' = [phase EXCEPT ![p] = ph]
Refill(p, full) ==
  own' = [f \in Files |-> IF PartyOf[f] # p THEN own[f]
                          ELSE IF full THEN Blocks(f) ELSE {}]

\* /rescan, first half.
ClearPacks(p) ==
  /\ Up /\ p \in member /\ phase[p] # "NONE"
  /\ Become(p, "NONE") /\ Refill(p, FALSE)
  /\ UNCHANGED <<member, peerVars, fresh, chan, sender, recv, halted>>

\* /rescan, second half: a pack that this node shares is found on its disk,
\* another is advertised by somebody else again.
Rediscover(p) ==
  /\ Up /\ p \in member /\ phase[p] = "NONE"
  /\ Become(p, IF p \in Shared THEN "COMPLETE" ELSE "AVAILABLE")
  /\ Refill(p, p \in Shared)
  /\ UNCHANGED <<member, peerVars, fresh, chan, sender, recv, halted>>

StartPack(p) ==
  /\ Up /\ p \in member /\ PackUnlocked(p)
  /\ phase[p] = "AVAILABLE"
  /\ Become(p, "ACTIVE") /\ Refill(p, FALSE)
  /\ UNCHANGED <<member, peerVars, fresh, chan, sender, recv, halted>>

GainBlock(f, i) ==
  /\ Up /\ PartyOf[f] \in member /\ phase[PartyOf[f]] = "ACTIVE"
  /\ i \in Blocks(f) \ own[f] /\ CanVerify(own[f], i)
  /\ own' = [own EXCEPT ![f] = @ \cup {i}]
  /\ UNCHANGED <<member, phase, peerVars, fresh, chan, sender, recv, halted>>

FinishPack(p) ==
  /\ Up /\ p \in member /\ PackUnlocked(p)
  /\ phase[p] = "ACTIVE"
  /\ \A f \in FilesOf(p) : own[f] = Blocks(f)
  /\ Become(p, "COMPLETE")
  /\ UNCHANGED <<member, own, peerVars, fresh, chan, sender, recv, halted>>

-----------------------------------------------------------------------------
(* Those who ask, and the clock *)

\* The peer's FileRequester, every five seconds while it lacks something.
SendRequest(k) ==
  /\ Up /\ have[k] # Blocks(k[2])
  /\ asked[k] # {have[k]}
  /\ asked' = [asked EXCEPT ![k] = {have[k]}]
  /\ UNCHANGED <<ownVars, have, fresh, chan, sender, recv, halted>>

Older(r) == [r EXCEPT !.ttl = IF @ < 0 THEN @ ELSE @ - 1]

\* The clock is slow.  It goes on when nobody has a request to put into the
\* channel and room for it, and RequestSender, which needs a few milliseconds
\* for a request, has got rid of those that it drops.
Tick ==
  /\ Up
  /\ recv.pc = "enqueue" \/ sender.pc = "requeue" => Len(chan) = ChanCap
  /\ \/ sender.pc = "ended"
     \/ /\ \A j \in DOMAIN chan : ~Dropped(chan[j])
        /\ sender.pc # "idle" => ~Dropped(sender.req)
  /\ fresh' = [k \in Keys |-> IF fresh[k] = 0 THEN 0 ELSE fresh[k] - 1]
  /\ chan' = [j \in DOMAIN chan |-> Older(chan[j])]
  /\ sender' = IF sender.pc \in {"idle", "ended"} THEN sender
               ELSE [sender EXCEPT !.req = Older(@)]
  /\ recv' = IF recv.pc = "idle" THEN recv ELSE [recv EXCEPT !.req = Older(@)]
  /\ UNCHANGED <<ownVars, peerVars, halted>>

Answer == NoAnswer \/ \E i \in Indices : AnswerArrives(i) \/ AnswerLost(i)

RecvNext ==
  \/ \E k \in Keys : ProcessRequest(k)
  \/ \E k \in Keys : ProcessRequestUnavailable(k)
  \/ \E k \in Keys : ProcessRequestUnknownPack(k)
  \/ Enqueue

SenderNext ==
  \/ TakeDropped
  \/ Take
  \/ TakePartyOver
  \/ \E i \in Indices : AnswerArrives(i)
  \/ \E i \in Indices : AnswerLost(i)
  \/ NoAnswer
  \/ ConcurrentMapAccess
  \/ ChoosePanics
  \/ Requeue

PackNext ==
  \/ \E p \in Parties : LeaveParty(p)
  \/ \E p \in Parties : ClearPacks(p)
  \/ \E p \in Parties : Rediscover(p)
  \/ \E p \in Parties : StartPack(p)
  \/ \E p \in Parties : FinishPack(p)
  \/ \E f \in Files : \E i \in Indices : GainBlock(f, i)

Next ==
  \/ RecvNext
  \/ SenderNext
  \/ PackNext
  \/ \E k \in Keys : SendRequest(k)
  \/ Tick

Spec == Init /\ [][Next]_vars

(***************************************************************************)
(* Every goroutine that can run does, and the clock goes on.  A peer that  *)
(* lacks something asks again and again, some of its requests get here,    *)
(* and some are taken from the channel before they expire.  The choice of  *)
(* a block is random, and some answers arrive.                             *)
(***************************************************************************)
Fairness ==
  /\ WF_vars(Enqueue) /\ WF_vars(TakeDropped \/ Answer \/ Requeue) /\ SF_vars(Tick)
  /\ \A k \in Keys :
       /\ WF_vars(SendRequest(k)) /\ SF_vars(ProcessRequest(k))
       /\ SF_vars(Take /\ sender'.req.key = k)
       /\ \A i \in Blocks(k[2]) : SF_vars(AnswerArrives(i) /\ sender.req.key = k)

FairSpec == Spec /\ Fairness

-----------------------------------------------------------------------------
(* Correctness *)

\* Every variable of the model has values of its type, and RequestChan holds at
\* most its capacity.
TypeOK ==
  /\ member \subseteq Parties
  /\ phase \in [Parties -> Phases]
  /\ own \in [Files -> SUBSET Indices]
  /\ have \in [Keys -> SUBSET Indices]
  /\ asked \in [Keys -> {{}} \cup {{c} : c \in SUBSET Indices}]
  /\ fresh \in [Keys -> 0..FRESH]
  /\ chan \in Seq(Request) /\ Len(chan) <= ChanCap
  /\ sender \in [pc : {"idle", "choose", "requeue", "ended"}, req : Request]
  /\ recv \in [pc : {"idle", "enqueue"}, req : Request]
  /\ halted \in {"no", "nilMutex", "outOfRange", "mapRace"}

\* chooseBlock works forwards, from what a request covers to the next block and
\* the two children; the downloader backwards, from a block to its predecessor
\* and its parent.  The two agree: what is sent is a block that the peer lacks
\* and can verify as far as its request tells, if this node has one.  If not,
\* it sends again what the request covers.
AnswerUseful ==
  sender.pc = "choose" /\ sender'.pc = "requeue" =>
    LET r == sender.req
        useful == {i \in own[r.key[2]] \ r.cov : CanVerify(r.cov, i)}
    IN  IF useful = {} THEN sender'.req.cov = r.cov
        ELSE \E i \in useful : sender'.req.cov = r.cov \cup {i}
AnswersUseful == [][AnswerUseful]_vars

SenderBusy == sender.pc \in {"choose", "requeue"}

\* How many requests of a key are in the node's hands.
InHand(k) ==
  Cardinality({j \in DOMAIN chan : chan[j].key = k})
    + (IF SenderBusy /\ sender.req.key = k THEN 1 ELSE 0)
    + (IF recv.pc = "enqueue" /\ recv.req.key = k THEN 1 ELSE 0)

\* Requests are renewed before they expire and are put back after each answer.
\* All the same a file that somebody downloads takes up two places at most.
TwoPerKey == sender.pc # "ended" => \A k \in Keys : InHand(k) <= 2

\* RequestSender is the only one to empty RequestChan, so it must not wait for
\* room there, nor for a mutex that is kept by Recv while that waits for room:
\* pack.Mutex, or Parties.Mutex, which FileRequester keeps while it waits for
\* pack.Mutex.
NoDeadlock ==
  Up /\ Len(chan) = ChanCap =>
    /\ sender.pc # "requeue"
    /\ recv.pc = "enqueue" => sender.pc # "choose"

\* No lookup in the coverage of a request is out of its range.
CoverageInRange == halted # "outOfRange"

\* Who asks for a file that this node keeps sharing gets all of it.
RequesterServed ==
  \A k \in Keys : k[1] # Self =>
    (<>[](/\ Up /\ sender.pc # "ended"
          /\ PartyOf[k[2]] \in member /\ phase[PartyOf[k[2]]] = "COMPLETE")
      => <>(have[k] = Blocks(k[2])))

-----------------------------------------------------------------------------
(* The inductive invariant *)

\* A coverage that is not empty has the first block.
Rooted(cov) == cov # {} => 0 \in cov

CoveragesRooted ==
  /\ \A f \in Files : Rooted(own[f]) /\ own[f] \subseteq Blocks(f)
  /\ \A k \in Keys : Rooted(have[k]) /\ \A cov \in asked[k] : Rooted(cov)
  /\ \A j \in DOMAIN chan : Rooted(chan[j].cov)
  /\ Rooted(sender.req.cov) /\ Rooted(recv.req.cov)

\* The rest of a request's time is known from that of its FreshRequests entry.
Timely(r) == r.ttl <= (EXPIRY - FRESH) + fresh[r.key]

\* Two requests of a key were received at least FRESH apart.
Apart(r, q) ==
  r.key = q.key => r.ttl - q.ttl >= FRESH \/ q.ttl - r.ttl >= FRESH

\* So are all that are in the node's hands, until RequestSender ends.
ChanSpaced ==
  \A j \in DOMAIN chan :
    Timely(chan[j]) /\ \A i \in DOMAIN chan : i # j => Apart(chan[i], chan[j])
SenderSpaced ==
  SenderBusy => Timely(sender.req) /\ \A j \in DOMAIN chan : Apart(chan[j], sender.req)
RecvSpaced ==
  recv.pc = "enqueue" =>
    /\ Timely(recv.req)
    /\ \A j \in DOMAIN chan : Apart(chan[j], recv.req)
    /\ SenderBusy => Apart(sender.req, recv.req)

Spaced == sender.pc # "ended" => ChanSpaced /\ SenderSpaced /\ RecvSpaced

\* What the limits have to be for RequestChan never to be full for long: two
\* places for each key, as three of FRESH do not fit into the time of a request.
RoomForAll ==
  /\ IsFiniteSet(Keys)
  /\ ChanCap >= 2 * Cardinality(Keys)
  /\ EXPIRY + 1 < 2 * FRESH

\* From the times at which requests are received, and the coverages that go
\* with them, follow both that RequestChan has room and what an answer brings.
SeederInv == TypeOK /\ CoveragesRooted /\ Spaced
=============================================================================
