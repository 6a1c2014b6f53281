--------------------------- MODULE NodeLocks_ways ---------------------------
(***************************************************************************)
(* Every way through the code is orderly.  The proof goes through the code *)
(* as a reader of it would, a function after those that it calls, and      *)
(* notes of each the least rank of what it waits for with nothing held.    *)
(* What is held on the way then has a rank less than what is waited for.   *)
(***************************************************************************)
EXTENDS NodeLocks, SequenceTheorems, TLAPS

-----------------------------------------------------------------------------
(* Ways that climb *)

\* The stations at which nothing is wanted before rank n, nor before what is
\* held, at which no goroutine ends, and which lose no mutex of the output.
Ranked(n) ==
  {s \in Station :
     /\ n <= Rank[s.wants]
     /\ \A m \in s.held : Rank[m] < Rank[s.wants]
     /\ s.leaks \cap Output = {} /\ ~s.ends}

\* All stations of the ways P are such.
Climbs(P, n) == P \subseteq Seq(Ranked(n))

\* What there is to wait for has a rank.
LEMMA RankType == \A x \in Mutexes \cup Channels : Rank[x] \in 0..11
BY DEF Rank, Mutexes, Channels, Receiver

\* What is put into Ranked has a rank.
LEMMA RankedType ==
  ASSUME NEW n, NEW s \in Ranked(n)
  PROVE  s \in Station /\ s.wants \in Mutexes \cup Channels /\ Rank[s.wants] \in 0..11
BY RankType DEF Ranked, Station

\* Of ways through nothing.
LEMMA ClimbsNothing == \A n : Climbs({<<>>}, n)
BY DEF Climbs

\* Of a condition, and of branches.
LEMMA ClimbsEither == \A P, Q, n : Climbs(P, n) /\ Climbs(Q, n) => Climbs(P \cup Q, n)
BY DEF Climbs

LEMMA ClimbsMaybe == \A P, n : Climbs(P, n) => Climbs(Maybe(P), n)
BY ClimbsNothing, ClimbsEither DEF Maybe

\* Of one after the other.
LEMMA ClimbsThen == \A P, Q, n : Climbs(P, n) /\ Climbs(Q, n) => Climbs(P \odot Q, n)
<1> SUFFICES ASSUME NEW P, NEW Q, NEW n, Climbs(P, n), Climbs(Q, n), NEW r \in P \odot Q
             PROVE  r \in Seq(Ranked(n))
  BY DEF Climbs
<1>1. PICK p \in P, q \in Q : r = p \o q
  BY DEF \odot
<1>2. p \in Seq(Ranked(n)) /\ q \in Seq(Ranked(n))
  BY DEF Climbs
<1> QED BY <1>1, <1>2, ConcatProperties

\* A lower rank will do.
LEMMA ClimbsLower ==
  ASSUME NEW P, NEW k \in Nat, NEW n \in Nat, n <= k, Climbs(P, k)
  PROVE  Climbs(P, n)
<1>1. Ranked(k) \subseteq Ranked(n)
  <2> SUFFICES ASSUME NEW s \in Ranked(k) PROVE s \in Ranked(n)
    OBVIOUS
  <2>1. Rank[s.wants] \in 0..11 /\ k <= Rank[s.wants]
    BY RankedType DEF Ranked
  <2>2. n <= Rank[s.wants]
    BY <2>1
  <2> QED BY <2>2 DEF Ranked
<1>2. ASSUME NEW p \in P PROVE p \in Seq(Ranked(n))
  <2>1. p \in Seq(Ranked(k))
    BY DEF Climbs
  <2> QED BY <1>1, <2>1, SeqMonotonic
<1> QED BY <1>2 DEF Climbs

\* Waiting for one thing with nothing held.
LEMMA ClimbsAt ==
  ASSUME NEW x \in Mutexes \cup Channels, NEW n \in Nat, n <= Rank[x]
  PROVE  Climbs({<<At(x)>>}, n)
<1>1. At(x) \in Ranked(n)
  BY DEF At, Ranked, Station
<1> QED BY <1>1 DEF Climbs

\* Waiting with a mutex held in addition.
LEMMA ClimbsWith ==
  ASSUME NEW m \in Mutexes, NEW P, NEW n \in Nat, Rank[m] < n, Climbs(P, n)
  PROVE  Climbs(With(m, P), n)
<1> SUFFICES ASSUME NEW q \in With(m, P) PROVE q \in Seq(Ranked(n))
  BY DEF Climbs
<1>1. PICK p \in P : q = [k \in DOMAIN p |-> [p[k] EXCEPT !.held = @ \cup {m}]]
  BY DEF With
<1>2. p \in Seq(Ranked(n)) /\ DOMAIN p = 1..Len(p) /\ Len(p) \in Nat
  BY DEF Climbs
<1>3. ASSUME NEW s \in Ranked(n) PROVE [s EXCEPT !.held = @ \cup {m}] \in Ranked(n)
  <2>1. s \in Station /\ Rank[s.wants] \in 0..11 /\ n <= Rank[s.wants]
    BY RankedType DEF Ranked
  <2>2. Rank[m] \in 0..11
    BY RankType
  <2>3. Rank[m] < Rank[s.wants]
    BY <2>1, <2>2
  <2>4. [s EXCEPT !.held = @ \cup {m}] \in Station
    BY <2>1 DEF Station
  <2> QED BY <2>1, <2>3, <2>4 DEF Ranked, Station
<1>4. \A k \in 1..Len(p) : q[k] \in Ranked(n)
  BY <1>1, <1>2, <1>3
<1>5. q \in [1..Len(p) -> Ranked(n)]
  BY <1>1, <1>2, <1>4
<1> QED BY <1>2, <1>5

\* Locking m, P, unlocking m.
LEMMA ClimbsHolding ==
  ASSUME NEW m \in Mutexes, NEW P, NEW n \in Nat, NEW k \in Nat,
         n <= Rank[m], Rank[m] < k, Climbs(P, k)
  PROVE  Climbs(Holding(m, P), n)
<1>1. Climbs({<<At(m)>>}, n)
  BY ClimbsAt
<1>2. n <= k
  BY RankType
<1>3. Climbs(With(m, P), n)
  BY <1>2, ClimbsWith, ClimbsLower
<1> QED BY <1>1, <1>3, ClimbsThen DEF Holding

\* The parts of ways between stations at which nothing is held.
LEMMA ClimbsSections == ASSUME NEW P, NEW n, Climbs(P, n) PROVE Climbs(Sections(P), n)
<1> SUFFICES ASSUME NEW q \in Sections(P) PROVE q \in Seq(Ranked(n))
  BY DEF Climbs
<1>1. PICK p \in P : \E i, j \in DOMAIN p : q = SubSeq(p, i, j)
  BY DEF Sections
<1>2. p \in Seq(Ranked(n)) /\ DOMAIN p = 1..Len(p) /\ Len(p) \in Nat
  BY DEF Climbs
<1>3. PICK i \in DOMAIN p, j \in DOMAIN p : q = SubSeq(p, i, j)
  BY <1>1
<1>4. i \in Int /\ j \in Int /\ \A k \in i..j : p[k] \in Ranked(n)
  BY <1>2
<1> QED BY <1>3, <1>4, SubSeqProperties

-----------------------------------------------------------------------------
(* The ranks *)

\* Of what is waited for once.
LEMMA ClimbsUse ==
  /\ \A n \in 0..1 : Climbs(Use("PendingInvites"), n)
  /\ \A n \in 0..1 : Climbs(Use("Parties"), n)
  /\ \A n \in 0..2 : Climbs(Use("PacksLock"), n)
  /\ \A n \in 0..3 : Climbs(Use("pack"), n)
  /\ \A n \in 0..4 : Climbs(Use("FileLock"), n)
  /\ \A n \in 0..5 : Climbs(Use("MinList"), n)
  /\ \A n \in 0..6 : Climbs(Use("PeerTable"), n)
  /\ \A n \in 0..7 : Climbs(Use("PeerCache"), n)
  /\ \A n \in 0..10 : Climbs(Use("chatMutex"), n)
<1>1. ASSUME NEW x \in Mutexes, NEW n \in 0..Rank[x] PROVE Climbs(Use(x), n)
  <2>1. n \in Nat /\ n <= Rank[x]
    BY RankType
  <2> QED BY <2>1, ClimbsAt DEF Use
<1> QED BY <1>1 DEF Rank, Mutexes

LEMMA ClimbsSend ==
  /\ \A n \in 0..8 : Climbs(Send("RequestChan"), n)
  /\ \A n \in 0..8 : Climbs(Send("VerifiedBlockChan"), n)
  /\ \A n \in 0..9 : Climbs(Send("StatusChannel"), n)
  /\ \A n \in 0..9 : Climbs(Send("ChatChannel"), n)
  /\ \A n \in 0..11 : Climbs(Send("statusChan"), n)
  /\ \A n \in 0..11 : Climbs(Send("chatChan"), n)
<1>1. ASSUME NEW c \in Channels, NEW n \in 0..Rank[c] PROVE Climbs(Send(c), n)
  <2>1. n \in Nat /\ n <= Rank[c]
    BY RankType
  <2> QED BY <2>1, ClimbsAt DEF Send
<1> QED BY <1>1 DEF Rank, Channels, Receiver

\* Of what is held while others are waited for.
LEMMA ClimbsHold ==
  ASSUME NEW P
  PROVE
  /\ Climbs(P, 2) => \A n \in 0..1 : Climbs(Holding("PendingInvites", P), n)
  /\ Climbs(P, 2) => \A n \in 0..1 : Climbs(Holding("Parties", P), n)
  /\ Climbs(P, 3) => \A n \in 0..2 : Climbs(Holding("PacksLock", P), n)
  /\ Climbs(P, 4) => \A n \in 0..3 : Climbs(Holding("pack", P), n)
  /\ Climbs(P, 5) => \A n \in 0..4 : Climbs(Holding("FileLock", P), n)
  /\ Climbs(P, 6) => \A n \in 0..5 : Climbs(Holding("MinList", P), n)
  /\ Climbs(P, 7) => \A n \in 0..6 : Climbs(Holding("PeerTable", P), n)
  /\ Climbs(P, 8) => \A n \in 0..7 : Climbs(Holding("PeerCache", P), n)
  /\ Climbs(P, 11) => \A n \in 0..10 : Climbs(Holding("chatMutex", P), n)
<1>1. ASSUME NEW m \in Mutexes, Climbs(P, Rank[m] + 1), NEW n \in 0..Rank[m]
      PROVE  Climbs(Holding(m, P), n)
  <2>1. n \in Nat /\ Rank[m] + 1 \in Nat /\ n <= Rank[m] /\ Rank[m] < Rank[m] + 1
    BY RankType
  <2> QED BY <1>1, <2>1, ClimbsHolding
<1> QED BY <1>1 DEF Rank, Mutexes

-----------------------------------------------------------------------------
(* Function by function *)

\* What is shown.
LEMMA ClimbsOutput ==
  /\ \A n \in 0..9 : Climbs(setStatus, n)
  /\ \A n \in 0..11 : Climbs(tuiStatus, n)
  /\ \A n \in 0..10 : Climbs(addChat, n)
  /\ \A n \in 0..11 : Climbs(redrawChats, n)
  /\ \A n \in 0..10 : Climbs(statusReceiver, n)
<1>1. \A n \in 0..9 : Climbs(setStatus, n)
  BY ClimbsSend DEF setStatus
<1>2. \A n \in 0..11 : Climbs(tuiStatus, n)
  BY ClimbsSend DEF tuiStatus
<1>3. \A n \in 0..10 : Climbs(addChat, n)
  BY ClimbsHold, ClimbsSend DEF addChat
<1>4. \A n \in 0..11 : Climbs(redrawChats, n)
  BY ClimbsSend DEF redrawChats
<1>5. \A n \in 0..10 : Climbs(statusReceiver, n)
  BY <1>3, <1>2, ClimbsEither, ClimbsMaybe DEF statusReceiver
<1> QED BY <1>1, <1>2, <1>3, <1>4, <1>5

\* The handlers and senders of the overlay: PeerTable is the first that they
\* wait for.
LEMMA ClimbsOverlay ==
  /\ \A n \in 0..6 : Climbs(route, n)
  /\ \A n \in 0..6 : Climbs(flood, n)
  /\ \A n \in 0..6 : Climbs(SendChat, n)
  /\ \A n \in 0..6 : Climbs(addPeer, n)
  /\ \A n \in 0..6 : Climbs(removePeer, n)
  /\ \A n \in 0..6 : Climbs(removeStalePeers, n)
  /\ \A n \in 0..6 : Climbs(processBootstrap, n)
  /\ \A n \in 0..6 : Climbs(processVerify, n)
  /\ \A n \in 0..6 : Climbs(processAnnounce, n)
  /\ \A n \in 0..6 : Climbs(processSuggestionRequest, n)
  /\ \A n \in 0..6 : Climbs(processSuggestions, n)
  /\ \A n \in 0..6 : Climbs(processChat, n)
  /\ \A n \in 0..6 : Climbs(processDisconnect, n)
  /\ \A n \in 0..6 : Climbs(processPing, n)
  /\ \A n \in 0..6 : Climbs(processPulse, n)
<1>1. \A n \in 0..6 : Climbs(route, n)
  BY ClimbsUse DEF route
<1>2. \A n \in 0..6 : Climbs(flood, n)
  BY ClimbsThen, ClimbsMaybe, ClimbsHold, ClimbsOutput DEF flood
<1>3. \A n \in 0..6 : Climbs(SendChat, n)
  BY ClimbsThen, ClimbsUse, ClimbsOutput DEF SendChat
<1>4. \A n \in 0..6 : Climbs(addPeer, n)
  BY ClimbsThen, ClimbsMaybe, ClimbsUse, ClimbsOutput DEF addPeer
<1>5. \A n \in 0..6 : Climbs(removePeer, n)
  BY ClimbsThen, ClimbsMaybe, ClimbsUse, ClimbsOutput DEF removePeer
<1>6. \A n \in 0..6 : Climbs(removeStalePeers, n)
  BY ClimbsThen, ClimbsMaybe, ClimbsHold, ClimbsUse, ClimbsOutput
     DEF removeStalePeers
<1>7. \A n \in 0..6 : Climbs(processBootstrap, n)
  BY <1>4, ClimbsThen, ClimbsMaybe, ClimbsUse, ClimbsOutput DEF processBootstrap
<1>8. \A n \in 0..6 : Climbs(processVerify, n)
  BY <1>4, ClimbsThen, ClimbsMaybe, ClimbsUse, ClimbsOutput DEF processVerify
<1>9. \A n \in 0..6 : Climbs(processAnnounce, n)
  <2>1. \A n \in 0..6 : Climbs(Maybe(addPeer) \odot Maybe(flood \odot Use("PeerCache")), n)
    BY <1>2, <1>4, ClimbsThen, ClimbsMaybe, ClimbsUse
  <2> QED BY <2>1, ClimbsThen, ClimbsEither, ClimbsUse, ClimbsOutput DEF processAnnounce
<1>10. \A n \in 0..6 : Climbs(processSuggestionRequest, n)
  BY <1>1, <1>4, ClimbsThen, ClimbsMaybe, ClimbsUse DEF processSuggestionRequest
<1>11. \A n \in 0..6 : Climbs(processSuggestions, n)
  <2> SUFFICES ASSUME NEW n \in 0..6 PROVE Climbs(processSuggestions, n)
    OBVIOUS
  <2>1. /\ Climbs(setStatus, n) /\ Climbs(Use("PeerCache"), n)
        /\ Climbs(Use("PeerTable"), n) /\ Climbs(addPeer, n)
    BY <1>4, ClimbsUse, ClimbsOutput
  <2>2. Climbs(Maybe(Use("PeerCache") \odot Maybe(Use("PeerTable") \odot setStatus)), n)
    BY <2>1, ClimbsThen, ClimbsMaybe
  <2>3. Climbs(Maybe(addPeer), n)
    BY <2>1, ClimbsMaybe
  <2> QED BY <2>1, <2>2, <2>3, ClimbsThen, ClimbsEither DEF processSuggestions
<1>12. \A n \in 0..6 : Climbs(processChat, n)
  BY <1>2, ClimbsThen, ClimbsMaybe, ClimbsUse, ClimbsSend DEF processChat
<1>13. \A n \in 0..6 : Climbs(processDisconnect, n)
  BY <1>5, <1>2, ClimbsThen, ClimbsMaybe, ClimbsUse DEF processDisconnect
<1>14. \A n \in 0..6 : Climbs(processPing, n)
  BY <1>1 DEF processPing
<1>15. \A n \in 0..6 : Climbs(processPulse, n)
  BY ClimbsUse DEF processPulse
<1> QED BY <1>1, <1>2, <1>3, <1>4, <1>5, <1>6, <1>7, <1>8, <1>9, <1>10, <1>11, <1>12,
       <1>13, <1>14, <1>15

\* What is sent to a party: the list of its members is the first.
LEMMA ClimbsNeighbors ==
  /\ \A n \in 0..5 : Climbs(sendToNeighbors, n)
  /\ \A n \in 0..5 : Climbs(SendInvite, n)
  /\ \A n \in 0..5 : Climbs(SendAnnounce, n)
  /\ \A n \in 0..5 : Climbs(ProcessAnnounce, n)
  /\ \A n \in 0..5 : Climbs(ProcessDisconnect, n)
  /\ \A n \in 0..5 : Climbs(ProcessChat, n)
<1>1. \A n \in 0..5 : Climbs(sendToNeighbors, n)
  BY ClimbsThen, ClimbsEither, ClimbsMaybe, ClimbsUse, ClimbsOutput,
     ClimbsOverlay DEF sendToNeighbors
<1>2. \A n \in 0..5 : Climbs(SendInvite, n)
  BY ClimbsThen, ClimbsUse, ClimbsOverlay, ClimbsOutput DEF SendInvite
<1>3. \A n \in 0..5 : Climbs(SendAnnounce, n)
  BY ClimbsEither, ClimbsMaybe, ClimbsHold, ClimbsOutput, ClimbsOverlay
     DEF SendAnnounce
<1>4. \A n \in 0..5 : Climbs(ProcessAnnounce, n)
  BY <1>1, ClimbsThen, ClimbsMaybe, ClimbsUse DEF ProcessAnnounce
<1>5. \A n \in 0..5 : Climbs(ProcessDisconnect, n)
  BY <1>1, ClimbsThen, ClimbsMaybe, ClimbsUse DEF ProcessDisconnect
<1>6. \A n \in 0..5 : Climbs(ProcessChat, n)
  BY <1>1, ClimbsThen, ClimbsMaybe, ClimbsSend DEF ProcessChat
<1> QED BY <1>1, <1>2, <1>3, <1>4, <1>5, <1>6

\* What is done with a pack: the packs of the party are the first, or a pack's
\* files.
LEMMA ClimbsPacks ==
  /\ \A n \in 0..4 : Climbs(SendRequests, n)
  /\ \A n \in 0..6 : Climbs(SendFulfillment, n)
  /\ \A n \in 0..9 : Climbs(VerifiedBlockWriter, n)
  /\ \A n \in 0..2 : Climbs(NewPack, n)
  /\ \A n \in 0..2 : Climbs(ProcessAdvertisement, n)
  /\ \A n \in 0..2 : Climbs(ProcessRequest, n)
  /\ \A n \in 0..2 : Climbs(ProcessFulfillment, n)
  /\ \A n \in 0..2 : Climbs(AdvertisePacks, n)
  /\ \A n \in 0..2 : Climbs(StartPack, n)
  /\ \A n \in 0..2 : Climbs(chooseBlock, n)
<1>1. \A n \in 0..4 : Climbs(SendRequests, n)
  BY ClimbsMaybe, ClimbsHold, ClimbsNeighbors DEF SendRequests
<1>2. \A n \in 0..6 : Climbs(SendFulfillment, n)
  BY ClimbsEither, ClimbsOutput, ClimbsOverlay DEF SendFulfillment
<1>3. \A n \in 0..9 : Climbs(VerifiedBlockWriter, n)
  BY ClimbsMaybe, ClimbsOutput DEF VerifiedBlockWriter
<1>4. \A n \in 0..2 : Climbs(NewPack, n)
  <2>1. Climbs(With("PacksLock", Use("pack")), 3)
    BY ClimbsUse, ClimbsWith DEF Rank, Mutexes
  <2>2. Climbs(With("pack", Use("FileLock") \odot Maybe(sendToNeighbors)), 4)
    <3>1. Climbs(Use("FileLock") \odot Maybe(sendToNeighbors), 4)
      BY ClimbsThen, ClimbsMaybe, ClimbsUse, ClimbsNeighbors
    <3> QED BY <3>1, ClimbsWith DEF Rank, Mutexes
  <2>3. \A n \in 0..2 : /\ Climbs(With("PacksLock", Use("pack")), n)
                        /\ Climbs(With("pack", Use("FileLock") \odot Maybe(sendToNeighbors)), n)
    BY <2>1, <2>2, ClimbsLower
  <2> QED BY <2>3, ClimbsThen, ClimbsUse DEF NewPack
<1>5. \A n \in 0..2 : Climbs(ProcessAdvertisement, n)
  BY <1>4, ClimbsThen, ClimbsEither, ClimbsMaybe, ClimbsUse, ClimbsNeighbors
     DEF ProcessAdvertisement
<1>6. \A n \in 0..2 : Climbs(ProcessRequest, n)
  BY ClimbsThen, ClimbsMaybe, ClimbsHold, ClimbsUse, ClimbsSend,
     ClimbsNeighbors DEF ProcessRequest
<1>7. \A n \in 0..2 : Climbs(ProcessFulfillment, n)
  BY ClimbsThen, ClimbsMaybe, ClimbsUse, ClimbsSend DEF ProcessFulfillment
<1>8. \A n \in 0..2 : Climbs(AdvertisePacks, n)
  BY ClimbsMaybe, ClimbsHold, ClimbsNeighbors DEF AdvertisePacks
<1>9. \A n \in 0..2 : Climbs(StartPack, n)
  <2>1. Climbs(setStatus, 4) /\ Climbs(Use("FileLock"), 4)
    BY ClimbsUse, ClimbsOutput
  <2>2. Climbs(Holding("FileLock", Maybe(setStatus)), 4)
    BY ClimbsMaybe, ClimbsHold, ClimbsOutput
  <2>3. Climbs(setStatus \cup (Use("FileLock") \odot
          (setStatus \cup Holding("FileLock", Maybe(setStatus)))), 4)
    BY <2>1, <2>2, ClimbsThen, ClimbsEither
  <2> QED BY <2>3, ClimbsThen, ClimbsHold, ClimbsUse DEF StartPack
<1>10. \A n \in 0..2 : Climbs(chooseBlock, n)
  BY ClimbsThen, ClimbsUse DEF chooseBlock
<1> QED BY <1>1, <1>2, <1>3, <1>4, <1>5, <1>6, <1>7, <1>8, <1>9, <1>10

\* What begins with the parties or the invites.
LEMMA ClimbsParties ==
  /\ \A n \in 0..1 : Climbs(AcceptInvite, n)
  /\ \A n \in 0..1 : Climbs(processParty, n)
  /\ \A n \in 0..1 : Climbs(processInvite, n)
  /\ \A n \in 0..1 : Climbs(processMessage, n)
  /\ \A n \in 0..1 : Climbs(FileRequester, n)
  /\ \A n \in 0..1 : Climbs(advertiseAll, n)
  /\ \A n \in 0..1 : Climbs(RescanPacks, n)
<1>1. \A n \in 0..1 : Climbs(AcceptInvite, n)
  <2> SUFFICES ASSUME NEW n \in 0..1 PROVE Climbs(AcceptInvite, n)
    OBVIOUS
  <2>1. /\ Climbs(setStatus, n) /\ Climbs(SendAnnounce, n)
        /\ Climbs(Use("PendingInvites"), n) /\ Climbs(Use("Parties"), n)
    BY ClimbsUse, ClimbsOutput, ClimbsNeighbors
  <2>2. Climbs(Use("PendingInvites") \odot SendAnnounce \odot Use("Parties") \odot setStatus, n)
    BY <2>1, ClimbsThen
  <2> QED BY <2>1, <2>2, ClimbsThen, ClimbsEither DEF AcceptInvite
<1>2. \A n \in 0..1 : Climbs(processParty, n)
  <2> SUFFICES ASSUME NEW n \in 0..1 PROVE Climbs(processParty, n)
    OBVIOUS
  <2>1. /\ Climbs(setStatus, n) /\ Climbs(ProcessAdvertisement, n)
        /\ Climbs(ProcessAnnounce, n) /\ Climbs(ProcessChat, n)
        /\ Climbs(ProcessDisconnect, n) /\ Climbs(ProcessRequest, n)
        /\ Climbs(ProcessFulfillment, n) /\ Climbs(Use("Parties"), n)
        /\ Climbs(Use("MinList"), n)
    BY ClimbsUse, ClimbsOutput, ClimbsPacks, ClimbsNeighbors
  <2>2. Climbs(setStatus \cup ProcessAdvertisement \cup ProcessAnnounce \cup ProcessChat
                 \cup ProcessDisconnect \cup ProcessRequest \cup ProcessFulfillment, n)
    BY <2>1, ClimbsEither
  <2>3. Climbs(Maybe(Use("MinList")), n)
    BY <2>1, ClimbsMaybe
  <2> QED BY <2>1, <2>2, <2>3, ClimbsThen, ClimbsEither DEF processParty
<1>3. \A n \in 0..1 : Climbs(processInvite, n)
  BY ClimbsThen, ClimbsMaybe, ClimbsUse, ClimbsOutput DEF processInvite
<1>4. \A n \in 0..1 : Climbs(processMessage, n)
  <2> SUFFICES ASSUME NEW n \in 0..1 PROVE Climbs(processMessage, n)
    OBVIOUS
  <2>1. /\ Climbs(setStatus, n) /\ Climbs(processChat, n)
        /\ Climbs(processBootstrap, n) /\ Climbs(processVerify, n)
        /\ Climbs(processAnnounce, n)
        /\ Climbs(processSuggestionRequest, n)
        /\ Climbs(processSuggestions, n) /\ Climbs(processDisconnect, n)
        /\ Climbs(processPing, n) /\ Climbs(processPulse, n)
    BY ClimbsOutput, ClimbsOverlay
  <2> QED BY <2>1, <1>2, <1>3, ClimbsEither DEF processMessage
<1>5. \A n \in 0..1 : Climbs(FileRequester, n)
  BY ClimbsMaybe, ClimbsHold, ClimbsPacks DEF FileRequester
<1>6. \A n \in 0..1 : Climbs(advertiseAll, n)
  BY ClimbsMaybe, ClimbsHold, ClimbsPacks DEF advertiseAll
<1>7. \A n \in 0..1 : Climbs(RescanPacks, n)
  <2>1. \A n \in 0..2 : Climbs(setStatus \cup Use("PacksLock"), n)
    BY ClimbsEither, ClimbsUse, ClimbsOutput
  <2>2. \A n \in 0..2 : Climbs(Maybe(Use("PacksLock") \odot Maybe(setStatus \cup Use("PacksLock"))), n)
    BY <2>1, ClimbsThen, ClimbsMaybe, ClimbsUse
  <2> QED BY <2>1, <2>2, <1>6, ClimbsThen, ClimbsHold DEF RescanPacks
<1> QED BY <1>1, <1>2, <1>3, <1>4, <1>5, <1>6, <1>7

\* Looking for a party, and using it.
LEMMA ClimbsFindParty ==
  ASSUME NEW P, Climbs(P, 1)
  PROVE  \A n \in 0..1 : Climbs(FindParty(P), n)
<1> SUFFICES ASSUME NEW n \in 0..1 PROVE Climbs(FindParty(P), n)
  OBVIOUS
<1>1. Climbs(P, n)
  BY ClimbsLower
<1>2. Climbs(tuiStatus, n) /\ Climbs(Use("Parties"), n)
  BY ClimbsUse, ClimbsOutput
<1>3. Climbs(Holding("Parties", tuiStatus), n)
  BY ClimbsHold, ClimbsOutput
<1> QED BY <1>1, <1>2, <1>3, ClimbsThen, ClimbsEither DEF FindParty

\* The commands.
LEMMA ClimbsCommands ==
  /\ \A n \in 0..1 : Climbs(handleBootstrap, n)
  /\ \A n \in 0..1 : Climbs(handleStart, n)
  /\ \A n \in 0..1 : Climbs(handleInvite, n)
  /\ \A n \in 0..1 : Climbs(handleShow, n)
  /\ \A n \in 0..1 : Climbs(handleIds, n)
  /\ \A n \in 0..1 : Climbs(handleClear, n)
  /\ \A n \in 0..1 : Climbs(handleSend, n)
  /\ \A n \in 0..1 : Climbs(handleList, n)
  /\ \A n \in 0..1 : Climbs(handleAccept, n)
  /\ \A n \in 0..1 : Climbs(handleLeave, n)
  /\ \A n \in 0..1 : Climbs(handlePacks, n)
  /\ \A n \in 0..1 : Climbs(handleGet, n)
  /\ \A n \in 0..1 : Climbs(handleHelp, n)
  /\ \A n \in 0..1 : Climbs(handleQuit, n)
  /\ \A n \in 0..1 : Climbs(handleChat, n)
  /\ \A n \in 0..1 : Climbs(handleUserInput, n)
<1>1. \A n \in 0..1 : Climbs(handleBootstrap, n)
  <2>1. \A n \in 0..1 : Climbs(addChat \cup tuiStatus, n)
    BY ClimbsEither, ClimbsOutput
  <2> QED BY <2>1, ClimbsEither, ClimbsOutput DEF handleBootstrap
<1>2. \A n \in 0..1 : Climbs(handleStart, n)
  <2>1. \A n \in 0..1 : Climbs(tuiStatus \cup setStatus, n)
    BY ClimbsEither, ClimbsOutput
  <2>2. \A n \in 0..1 : Climbs(Use("MinList") \odot Use("Parties") \odot tuiStatus, n)
    BY ClimbsThen, ClimbsUse, ClimbsOutput
  <2> QED BY <2>1, <2>2, ClimbsEither DEF handleStart
<1>3. \A n \in 0..1 : Climbs(handleInvite, n)
  <2>1. Climbs(tuiStatus, 8) /\ Climbs(tuiStatus, 1) /\ Climbs(SendInvite, 1)
    BY ClimbsOutput, ClimbsNeighbors
  <2>2. Climbs(Holding("PeerCache", tuiStatus), 1)
    BY <2>1, ClimbsHold
  <2>3. Climbs(Holding("PeerCache", Maybe(tuiStatus)), 1)
    BY <2>1, ClimbsMaybe, ClimbsHold
  <2>4. Climbs(Holding("PeerCache", tuiStatus)
           \cup (Holding("PeerCache", Maybe(tuiStatus)) \odot (tuiStatus \cup SendInvite)), 1)
    BY <2>1, <2>2, <2>3, ClimbsThen, ClimbsEither
  <2> QED BY <2>4, ClimbsFindParty DEF handleInvite
<1>4. \A n \in 0..1 : Climbs(handleShow, n)
  BY ClimbsEither, ClimbsFindParty, ClimbsOutput DEF handleShow
<1>5. \A n \in 0..1 : Climbs(handleIds, n)
  BY ClimbsThen, ClimbsMaybe, ClimbsOutput DEF handleIds
<1>6. \A n \in 0..1 : Climbs(handleClear, n)
  BY ClimbsOutput DEF handleClear
<1>7. \A n \in 0..1 : Climbs(handleSend, n)
  BY ClimbsHold, ClimbsFindParty, ClimbsNeighbors DEF handleSend
<1>8. \A n \in 0..1 : Climbs(handleList, n)
  BY ClimbsThen, ClimbsEither, ClimbsMaybe, ClimbsHold, ClimbsUse,
     ClimbsOutput DEF handleList
<1>9. \A n \in 0..1 : Climbs(handleAccept, n)
  <2> DEFINE P == Holding("PendingInvites", tuiStatus)
             Leaking(s) == [s EXCEPT !.leaks = {"PendingInvites"}]
             A == {[p EXCEPT ![Len(p)] = Leaking(p[Len(p)])] : p \in P}
  <2>1. \A n \in 0..1 : Climbs(P, n)
    BY ClimbsHold, ClimbsOutput
  <2> HIDE DEF P
  <2>2. \A n : \A s \in Ranked(n) : Leaking(s) \in Ranked(n)
    BY DEF Ranked, Station, Output, Mutexes
  <2>3. ASSUME NEW n \in 0..1, NEW q \in A PROVE q \in Seq(Ranked(n))
    <3>1. PICK p \in P : q = [p EXCEPT ![Len(p)] = Leaking(p[Len(p)])]
      OBVIOUS
    <3>2. p \in Seq(Ranked(n)) /\ Len(p) \in Nat /\ DOMAIN p = 1..Len(p)
      BY <2>1 DEF Climbs
    <3>3. DOMAIN q = 1..Len(p) /\ \A k \in 1..Len(p) : q[k] = p[k] \/ q[k] = Leaking(p[k])
      <4> HIDE DEF Leaking
      <4> QED BY <3>1, <3>2
    <3>4. \A k \in 1..Len(p) : p[k] \in Ranked(n) /\ q[k] \in Ranked(n)
      BY <2>2, <3>2, <3>3
    <3>5. q \in [1..Len(p) -> Ranked(n)]
      <4> HIDE DEF Leaking
      <4> QED BY <3>1, <3>2, <3>3, <3>4
    <3> QED BY <3>2, <3>5
  <2>4. \A n \in 0..1 : Climbs(A, n)
    BY <2>3 DEF Climbs
  <2>5. handleAccept = A \cup (Use("PendingInvites") \odot (tuiStatus \cup AcceptInvite))
    BY DEF handleAccept, Last, P
  <2>6. \A n \in 0..1 : Climbs(tuiStatus \cup AcceptInvite, n)
    BY ClimbsEither, ClimbsOutput, ClimbsParties
  <2> HIDE DEF A
  <2> QED BY <2>4, <2>5, <2>6, ClimbsThen, ClimbsEither, ClimbsUse
<1>10. \A n \in 0..1 : Climbs(handleLeave, n)
  BY ClimbsThen, ClimbsHold, ClimbsFindParty, ClimbsNeighbors, ClimbsOutput
     DEF handleLeave
<1>11. \A n \in 0..1 : Climbs(handlePacks, n)
  BY ClimbsThen, ClimbsMaybe, ClimbsHold, ClimbsOutput DEF handlePacks
<1>12. \A n \in 0..1 : Climbs(handleGet, n)
  <2>1. \A n \in 0..1 : Climbs(Use("PacksLock") \odot (tuiStatus \cup StartPack), n)
    BY ClimbsThen, ClimbsEither, ClimbsUse, ClimbsOutput, ClimbsPacks
  <2>2. \A n \in 0..1 : Climbs(Holding("PacksLock", tuiStatus), n)
    BY ClimbsHold, ClimbsOutput
  <2>3. \A n \in 0..1 : Climbs(Use("Parties") \odot (Holding("PacksLock", tuiStatus)
         \cup (Use("PacksLock") \odot (tuiStatus \cup StartPack))), n)
    BY <2>1, <2>2, ClimbsThen, ClimbsEither, ClimbsUse
  <2> QED BY <2>1, <2>2, <2>3, ClimbsFindParty DEF handleGet
<1>13. \A n \in 0..1 : Climbs(handleHelp, n)
  BY ClimbsOutput DEF handleHelp
<1>14. \A n \in 0..1 : Climbs(handleQuit, n)
  BY ClimbsThen, ClimbsMaybe, ClimbsHold, ClimbsNeighbors, ClimbsOverlay
     DEF handleQuit
<1>15. \A n \in 0..1 : Climbs(handleChat, n)
  <2>1. \A n \in 0..1 : Climbs(SendChat \odot tuiStatus, n)
    BY ClimbsThen, ClimbsOverlay, ClimbsOutput
  <2>2. \A n \in 0..2 : Climbs(Maybe(sendToNeighbors \odot tuiStatus), n)
    BY ClimbsThen, ClimbsMaybe, ClimbsNeighbors, ClimbsOutput
  <2> QED BY <2>1, <2>2, ClimbsEither, ClimbsHold DEF handleChat
<1>16. \A n \in 0..1 : Climbs(handleUserInput, n)
  BY <1>1, <1>2, <1>3, <1>4, <1>5, <1>6, <1>7, <1>8, <1>9, <1>10, <1>11, <1>12,
     <1>13, <1>14, <1>15, ClimbsEither, ClimbsParties DEF handleUserInput
<1> QED BY <1>1, <1>2, <1>3, <1>4, <1>5, <1>6, <1>7, <1>8, <1>9, <1>10, <1>11, <1>12,
       <1>13, <1>14, <1>15, <1>16

-----------------------------------------------------------------------------
(* The rounds *)

\* Ways that climb are orderly, for a goroutine that reads a channel if their
\* least rank is above the channel's.
LEMMA ClimbsOrderly ==
  ASSUME NEW P, NEW n \in Nat, Climbs(P, n), NEW g, NEW p \in P,
         \A c \in Channels \ {"RequestChan"} : Receiver[c] = g => Rank[c] < n
  PROVE  p \in Seq(Station) /\ Orderly(g, p)
<1>1. p \in Seq(Ranked(n)) /\ DOMAIN p = 1..Len(p)
  BY DEF Climbs
<1>2. \A k \in DOMAIN p : p[k] \in Ranked(n)
  BY <1>1
<1>3. Ranked(n) \subseteq Station
  BY DEF Ranked
<1>4. p \in Seq(Station)
  BY <1>1, <1>3, SeqMonotonic
<1>5. ASSUME NEW k \in DOMAIN p
      PROVE  Ascends(g, p[k]) /\ p[k].leaks \cap Output = {} /\ ~p[k].ends
  <2>1. /\ n <= Rank[p[k].wants] /\ Rank[p[k].wants] \in 0..11
        /\ \A m \in p[k].held : Rank[m] < Rank[p[k].wants]
        /\ p[k].leaks \cap Output = {} /\ ~p[k].ends
    BY <1>2, RankedType DEF Ranked
  <2>2. \A c \in Channels \ {"RequestChan"} : Receiver[c] = g => Rank[c] < Rank[p[k].wants]
    BY <2>1, RankType
  <2> QED BY <2>1, <2>2 DEF Ascends
<1> QED BY <1>4, <1>5 DEF Orderly

\* What a goroutine does that reads RequestChan: it may end, after Parties.
LEMMA SenderOrderly ==
  ASSUME NEW p \in RequestSender PROVE p \in Seq(Station) /\ Orderly("RequestSender", p)
<1> DEFINE s == [At("Parties") EXCEPT !.ends = TRUE]
           W == Use("Parties") \odot chooseBlock \odot
                  Maybe(SendFulfillment \odot Send("RequestChan"))
<1>1. \A c \in Channels \ {"RequestChan"} : Receiver[c] # "RequestSender"
  BY DEF Channels, Receiver
<1>2. p \in {<<>>} \/ p = <<s>> \/ p \in W
  <2>1. Last(Use("Parties"), LAMBDA t : [t EXCEPT !.ends = TRUE]) = {<<s>>}
    BY DEF Last, Use
  <2> HIDE DEF W, s
  <2> QED BY <2>1 DEF RequestSender, W, s
<1>3. CASE p \in {<<>>}
  BY <1>1, <1>3, ClimbsNothing, ClimbsOrderly
<1>4. CASE p = <<s>>
  <2>1. s \in Station /\ s.held = {} /\ s.leaks = {} /\ s.wants = "Parties"
    BY DEF At, Station, Mutexes
  <2>2. Ascends("RequestSender", s)
    BY <1>1, <2>1 DEF Ascends
  <2> HIDE DEF s
  <2> QED BY <1>4, <2>1, <2>2 DEF Orderly
<1>5. CASE p \in W
  <2>1. Climbs(SendFulfillment \odot Send("RequestChan"), 1)
    BY ClimbsPacks, ClimbsSend, ClimbsThen
  <2>2. Climbs(Use("Parties") \odot chooseBlock, 1)
    BY ClimbsPacks, ClimbsUse, ClimbsThen
  <2>3. Climbs(W, 1)
    BY <2>1, <2>2, ClimbsThen, ClimbsMaybe
  <2> HIDE DEF W
  <2> QED BY <1>1, <1>5, <2>3, ClimbsOrderly
<1> QED BY <1>2, <1>3, <1>4, <1>5

\* The rounds of each goroutine.
LEMMA RoundOrderly ==
  ASSUME NEW g \in Goroutines, NEW p \in Rounds[g]
  PROVE  p \in Seq(Station) /\ Orderly(g, p)
<1> DEFINE Above(h, n) == \A c \in Channels \ {"RequestChan"} : Receiver[c] = h => Rank[c] < n
<1>1. /\ Above("main", 1) /\ Above("Recv", 1) /\ Above("SendPings", 1)
      /\ Above("FileRequester", 1) /\ Above("Advertise", 1)
      /\ Above("VerifiedBlockWriter", 9) /\ Above("statusReceiver", 10)
      /\ Above("chatReceiver", 10) /\ Above("statusSetter", 12) /\ Above("chatDrawer", 12)
  BY DEF Channels, Receiver, Rank
<1>2. /\ Climbs(Rounds["main"], 1) /\ Climbs(Rounds["Recv"], 1)
      /\ Climbs(Rounds["SendPings"], 1) /\ Climbs(Rounds["FileRequester"], 1)
      /\ Climbs(Rounds["Advertise"], 1) /\ Climbs(Rounds["VerifiedBlockWriter"], 9)
      /\ Climbs(Rounds["statusReceiver"], 10) /\ Climbs(Rounds["chatReceiver"], 10)
      /\ Climbs(Rounds["statusSetter"], 12) /\ Climbs(Rounds["chatDrawer"], 12)
  <2>1. /\ Climbs(handleUserInput, 1) /\ Climbs(processMessage, 1) /\ Climbs(FileRequester, 1)
        /\ Climbs(advertiseAll, 1)
    BY ClimbsCommands, ClimbsParties
  <2>2. Climbs(removeStalePeers, 1) /\ Climbs(Use("PeerTable"), 1)
    BY ClimbsOverlay, ClimbsUse
  <2>3. Climbs(VerifiedBlockWriter, 9) /\ Climbs(statusReceiver, 10) /\ Climbs(addChat, 10)
    BY ClimbsPacks, ClimbsOutput
  <2>4. Climbs(Sections(handleUserInput), 1) /\ Climbs(Sections(processMessage), 1)
    BY <2>1, ClimbsSections
  <2>5. Climbs(removeStalePeers \odot Use("PeerTable"), 1)
    BY <2>2, ClimbsThen
  <2> QED BY <2>1, <2>3, <2>4, <2>5, ClimbsNothing DEF Rounds
<1>3. ASSUME NEW n \in Nat, Above(g, n), Climbs(Rounds[g], n)
      PROVE  p \in Seq(Station) /\ Orderly(g, p)
  BY <1>3, ClimbsOrderly
<1>4. CASE g = "RequestSender"
  BY <1>4, SenderOrderly DEF Rounds
<1> HIDE DEF Above
<1> QED BY <1>1, <1>2, <1>3, <1>4 DEF Goroutines, Receivers, Channels, Receiver

\* Before the goroutines run, and while they are started.
LEMMA StartOrderly ==
  ASSUME NEW p \in StartUp
  PROVE  /\ p \in Seq(Station) \ {<<>>} /\ Orderly("main", p)
         /\ Goroutines \ Drawers \subseteq {"main"} \cup Head(p).starts
<1> DEFINE others == Goroutines \ {"main"}
           s(gs) == [At("StatusChannel") EXCEPT !.starts = gs]
           P(gs) == Last(setStatus, LAMBDA t : [t EXCEPT !.starts = gs])
<1>1. \A gs : P(gs) = {<<s(gs)>>}
  BY DEF Last, setStatus, Send
<1>2. \A gs \in SUBSET Goroutines : s(gs) \in Ranked(9)
  <2> SUFFICES ASSUME NEW gs \in SUBSET Goroutines PROVE s(gs) \in Ranked(9)
    OBVIOUS
  <2>1. s(gs) \in Station
    BY DEF At, Station, Channels, Receiver
  <2>2. s(gs).wants = "StatusChannel" /\ s(gs).held = {} /\ s(gs).leaks = {} /\ ~s(gs).ends
    BY DEF At
  <2>3. Rank["StatusChannel"] = 9
    BY DEF Rank
  <2> HIDE DEF s
  <2> QED BY <2>1, <2>2, <2>3 DEF Ranked
<1>3. \A gs \in SUBSET Goroutines : s(gs).starts = gs
  BY DEF At
<1>4. StartUp = P(others) \cup (P(others \ Drawers) \odot P(Drawers))
  BY DEF StartUp
<1> HIDE DEF P, s
<1>5. p = <<s(others)>> \/ p = <<s(others \ Drawers)>> \o <<s(Drawers)>>
  <2>1. CASE p \in P(others)
    BY <1>1, <2>1
  <2>2. CASE p \in P(others \ Drawers) \odot P(Drawers)
    <3>1. \A A, B : p \in A \odot B => \E q \in A, r \in B : p = q \o r
      BY DEF \odot
    <3>2. PICK q \in P(others \ Drawers), r \in P(Drawers) : p = q \o r
      BY <2>2, <3>1
    <3>3. q = <<s(others \ Drawers)>> /\ r = <<s(Drawers)>>
      BY <1>1
    <3> QED BY <3>2, <3>3
  <2> QED BY <1>4, <2>1, <2>2
<1>6. Drawers \subseteq Goroutines
  BY DEF Drawers, Goroutines, Receivers, Channels, Receiver
<1>7. p \in Seq(Ranked(9)) /\ p # <<>> /\ Head(p) \in {s(others), s(others \ Drawers)}
  <2>1. s(others) \in Ranked(9) /\ s(others \ Drawers) \in Ranked(9) /\ s(Drawers) \in Ranked(9)
    BY <1>2, <1>6
  <2> HIDE DEF others
  <2>2. CASE p = <<s(others)>>
    BY <2>1, <2>2
  <2>3. CASE p = <<s(others \ Drawers)>> \o <<s(Drawers)>>
    <3> DEFINE a == <<s(others \ Drawers)>>
               b == <<s(Drawers)>>
    <3>1. a \in Seq(Ranked(9)) /\ b \in Seq(Ranked(9)) /\ Len(a) = 1 /\ Len(b) = 1
      BY <2>1
    <3>2. a \o b \in Seq(Ranked(9)) /\ Len(a \o b) = 2 /\ (a \o b)[1] = a[1]
      <4> HIDE DEF a, b
      <4> QED BY <3>1, ConcatProperties
    <3> QED BY <2>3, <3>2
  <2> QED BY <1>5, <2>2, <2>3
<1>8. Goroutines \ Drawers \subseteq {"main"} \cup Head(p).starts
  BY <1>3, <1>6, <1>7
<1>9. \A c \in Channels \ {"RequestChan"} : Receiver[c] = "main" => Rank[c] < 9
  BY DEF Channels, Receiver
<1>10. Climbs({p}, 9)
  BY <1>7 DEF Climbs
<1> QED BY <1>7, <1>8, <1>9, <1>10, ClimbsOrderly

-----------------------------------------------------------------------------

\* All ways through the code, and those through its beginning, are sequences of
\* stations, and a goroutine that starts has something to do.
THEOREM RoundsType ==
  /\ StartUp \subseteq Seq(Station) \ {<<>>}
  /\ Rounds \in [Goroutines -> SUBSET Seq(Station)]
<1>1. StartUp \subseteq Seq(Station) \ {<<>>}
  BY StartOrderly
<1>2. Rounds = [g \in Goroutines |-> Rounds[g]]
  <2>1. Receivers = {"statusReceiver", "chatReceiver", "RequestSender", "VerifiedBlockWriter",
                     "statusSetter", "chatDrawer"}
    BY DEF Receivers, Channels, Receiver
  <2> QED BY <2>1 DEF Rounds, Goroutines
<1>3. \A g \in Goroutines : Rounds[g] \in SUBSET Seq(Station)
  BY RoundOrderly
<1> QED BY <1>1, <1>2, <1>3

\* No function of the package or of its terminal, called from wherever it is
\* called, locks a mutex or sends to a channel out of order; none keeps a mutex
\* that output needs; and no goroutine but RequestSender ends.
THEOREM WaysOrderly == RoundsOrderly
BY RoundOrderly, StartOrderly DEF RoundsOrderly
=============================================================================
