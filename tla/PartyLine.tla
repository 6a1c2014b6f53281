------------------------------ MODULE PartyLine ------------------------------
(***************************************************************************)
(* The members of one party: invitations, the announce and disconnect      *)
(* floods that maintain everybody's MinList, and the chat flood            *)
(* (white-box/party.go; the commands are in tui.go).                       *)
(*                                                                         *)
(* A node's ids are ordered as strings are by sort.Strings; numbers stand  *)
(* for them.  Recv handles one message at a time.  Commands come from the  *)
(* UI goroutine; AcceptInvite is the one that Recv can get in between of.  *)
(* Messages are UDP datagrams between directly connected nodes: they       *)
(* arrive in any order, and may be lost or come twice if Unreliable says   *)
(* so.  Signatures and encryption hold: a message is from whom it says.    *)
(***************************************************************************)
EXTENDS Integers, Sequences, FiniteSets

CONSTANTS
  Nodes,        \* ids, as numbers
  Founders,     \* members of the party at the start, who all know each other
  MayCrash,     \* nodes that may stop without a word
  MaxInvites,   \* bound: invitations sent
  MaxLeaves,    \* bound: departures
  MaxChats,     \* bound: chats sent
  Inviters,     \* who types /invite
  Invitees,     \* and whom for
  Unreliable,   \* may messages be lost and delivered again?
  QuickEcho     \* can an answer overtake the rest of AcceptInvite?

ASSUME NodesAssumption ==
  /\ Nodes \subseteq Nat /\ IsFiniteSet(Nodes)
  /\ Founders \subseteq Nodes
  /\ MayCrash \cup Inviters \cup Invitees \subseteq Nodes
ASSUME BoundsAssumption == {MaxInvites, MaxLeaves, MaxChats} \subseteq Nat
ASSUME NetworkAssumption == {Unreliable, QuickEcho} \subseteq BOOLEAN

Chats == 1..MaxChats

VARIABLES
  inParty,    \* nodes that have the party in Parties
  minList,    \* MinList of the party object in Parties
  pending,    \* {} or {the MinList of the invite in PendingInvites}
  accepting,  \* {} or {the MinList of the party object AcceptInvite holds}
  seenChats,  \* SeenChats of the party object in Parties
  shown,      \* how often the member saw each chat since it last joined
  crashed,    \* nodes that have stopped
  net,        \* messages on their way
  invites,    \* how many invitations were sent so far
  left,       \* who left so far, oldest first
  sent        \* who sent each chat so far, oldest first

partyVars == <<inParty, minList, seenChats, shown>>
history   == <<invites, left, sent>>
vars == <<partyVars, pending, accepting, crashed, net, history>>

Elements(s) == {s[k] : k \in DOMAIN s}

-----------------------------------------------------------------------------
(* Messages and neighbours *)

Message == [type : {"invite"}, from : Nodes, to : Nodes, list : SUBSET Nodes]
    \cup [type : {"announce", "disconnect"}, from : Nodes, to : Nodes, peer : Nodes]
    \cup [type : {"chat"}, from : Nodes, to : Nodes, chat : Chats]

Position(x, L) == Cardinality({y \in L : y < x})

\* Mistake: the second node after this one is forgotten.
RingNeighbors(n, L) ==
  IF n \notin L THEN {}
  ELSE {m \in L \ {n} : \E d \in {-1, 1} :
          Position(m, L) = (Position(n, L) + d) % Cardinality(L)}

\* getNeighbors: the nodes before and the two nodes after n in the sorted
\* list, nobody if n is not on it.  A node's messages to itself go nowhere:
\* route sends to peers closer to the target than the node is.
getNeighbors(n, L) ==
  IF n \notin L THEN {}
  ELSE {m \in L \ {n} : \E d \in {-1, 1, 2} :
          Position(m, L) = (Position(n, L) + d) % Cardinality(L)}

ToNeighbors(n, L, type, x) ==
  LET to == getNeighbors(n, L)
  IN  IF type = "chat"
        THEN [type : {type}, from : {n}, to : to, chat : {x}]
        ELSE [type : {type}, from : {n}, to : to, peer : {x}]

Init ==
  /\ inParty = Founders
  /\ minList = [n \in Nodes |-> IF n \in Founders THEN Founders ELSE {}]
  /\ pending = [n \in Nodes |-> {}]
  /\ accepting = [n \in Nodes |-> {}]
  /\ seenChats = [n \in Nodes |-> {}]
  /\ shown = [n \in Nodes |-> [c \in Chats |-> 0]]
  /\ crashed = {}
  /\ net = {}
  /\ invites = 0
  /\ left = <<>>
  /\ sent = <<>>

-----------------------------------------------------------------------------
(* Commands *)

\* Mistake: the invited node is listed at once.
SendInviteLists(n, x) ==
  /\ n \in inParty \ crashed /\ x # n
  /\ n \in Inviters /\ x \in Invitees
  /\ invites < MaxInvites
  /\ net' = net \cup {[type |-> "invite", from |-> n, to |-> x, list |-> minList[n]]}
  /\ minList' = [minList EXCEPT ![n] = @ \cup {x}]
  /\ invites' = invites + 1
  /\ UNCHANGED <<inParty, seenChats, shown, pending, accepting, crashed, left, sent>>

SendInvite(n, x) ==
  /\ n \in inParty \ crashed /\ x # n
  /\ n \in Inviters /\ x \in Invitees
  /\ invites < MaxInvites
  /\ net' = net \cup {[type |-> "invite", from |-> n, to |-> x, list |-> minList[n]]}
  /\ invites' = invites + 1
  /\ UNCHANGED <<partyVars, pending, accepting, crashed, left, sent>>

\* AcceptInvite up to and with SendAnnounce: the invite is taken out of
\* PendingInvites, and everybody on its list is told.
AcceptAnnounce(n) ==
  /\ n \notin crashed /\ n \notin inParty
  /\ accepting[n] = {}
  /\ \E L \in pending[n] :
       /\ accepting' = [accepting EXCEPT ![n] = {L}]
       /\ net' = net \cup
            [type : {"announce"}, from : {n}, to : L \ {n}, peer : {n}]
  /\ pending' = [pending EXCEPT ![n] = {}]
  /\ UNCHANGED <<partyVars, crashed, history>>

\* Mistake: SeenChats is kept from the last time the node was in the party.
AcceptKeepsSeen(n) ==
  /\ n \notin crashed
  /\ \E L \in accepting[n] : minList' = [minList EXCEPT ![n] = L]
  /\ inParty' = inParty \cup {n}
  /\ shown' = [shown EXCEPT ![n] = [c \in Chats |-> 0]]
  /\ accepting' = [accepting EXCEPT ![n] = {}]
  /\ UNCHANGED <<seenChats, pending, crashed, net, history>>

\* The rest of AcceptInvite: the party is put into Parties.
AcceptRegister(n) ==
  /\ n \notin crashed
  /\ \E L \in accepting[n] : minList' = [minList EXCEPT ![n] = L]
  /\ inParty' = inParty \cup {n}
  /\ seenChats' = [seenChats EXCEPT ![n] = {}]
  /\ shown' = [shown EXCEPT ![n] = [c \in Chats |-> 0]]
  /\ accepting' = [accepting EXCEPT ![n] = {}]
  /\ UNCHANGED <<pending, crashed, net, history>>

\* A chat goes to the neighbours only: its author sees it when it comes back.
SendChat(n) ==
  /\ n \in inParty \ crashed
  /\ Len(sent) < MaxChats
  /\ net' = net \cup ToNeighbors(n, minList[n], "chat", Len(sent) + 1)
  /\ sent' = Append(sent, n)
  /\ UNCHANGED <<partyVars, pending, accepting, crashed, invites, left>>

\* /leave: the party is deleted from Parties, then the neighbours are told.
SendDisconnect(n) ==
  /\ n \in inParty \ crashed
  /\ Len(left) < MaxLeaves
  /\ inParty' = inParty \ {n}
  /\ net' = net \cup ToNeighbors(n, minList[n], "disconnect", n)
  /\ left' = Append(left, n)
  /\ UNCHANGED <<minList, seenChats, shown, pending, accepting, crashed, invites, sent>>

Crash(n) ==
  /\ n \in MayCrash \ crashed
  /\ crashed' = crashed \cup {n}
  /\ UNCHANGED <<partyVars, pending, accepting, net, history>>

-----------------------------------------------------------------------------
(* Recv *)

\* The message is taken from the network and the handler's own messages are
\* sent.  An unreliable network keeps every message for ever: it can deliver
\* it any number of times, or never.
Receive(m, out) ==
  /\ m.to \notin crashed
  /\ QuickEcho \/ accepting[m.to] = {}
  /\ net' = (IF Unreliable THEN net ELSE net \ {m}) \cup out

\* An invite to a party that is pending or joined is ignored.
processInvite(m) ==
  /\ m.type = "invite"
  /\ Receive(m, {})
  /\ pending' = IF pending[m.to] = {} /\ m.to \notin inParty
                  THEN [pending EXCEPT ![m.to] = {m.list}]
                  ELSE pending
  /\ UNCHANGED <<partyVars, accepting, crashed, history>>

\* Party messages for a node that does not have the party in Parties.
InvalidParty(m) ==
  /\ m.type # "invite" /\ m.to \notin inParty
  /\ Receive(m, {})
  /\ UNCHANGED <<partyVars, pending, accepting, crashed, history>>

\* Mistake: who announced itself is listed, but nobody is told.
AnnounceStops(m) ==
  LET n == m.to  L == minList[n] \cup {m.peer}
  IN  /\ m.type = "announce" /\ n \in inParty
      /\ Receive(m, {})
      /\ minList' = [minList EXCEPT ![n] = L \cup {m.from}]
      /\ UNCHANGED <<inParty, seenChats, shown, pending, accepting, crashed, history>>

\* A new member is listed and passed on.  As after every party message but a
\* disconnect, the node it came from is listed last.
ProcessAnnounce(m) ==
  LET n == m.to  L == minList[n] \cup {m.peer}
  IN  /\ m.type = "announce" /\ n \in inParty
      /\ Receive(m, IF m.peer \in minList[n] THEN {}
                    ELSE ToNeighbors(n, L, "announce", m.peer))
      /\ minList' = [minList EXCEPT ![n] = L \cup {m.from}]
      /\ UNCHANGED <<inParty, seenChats, shown, pending, accepting, crashed, history>>

\* Mistake: what was seen is not remembered until it was passed on by another.
ChatAgain(m) ==
  LET n == m.to
  IN  /\ m.type = "chat" /\ n \in inParty
      /\ Receive(m, IF m.chat \in seenChats[n] THEN {}
                    ELSE ToNeighbors(n, minList[n], "chat", m.chat))
      /\ seenChats' = IF m.from = sent[m.chat] THEN seenChats
                      ELSE [seenChats EXCEPT ![n] = @ \cup {m.chat}]
      /\ shown' = IF m.chat \in seenChats[n] THEN shown
                  ELSE [shown EXCEPT ![n][m.chat] = @ + 1]
      /\ minList' = [minList EXCEPT ![n] = @ \cup {m.from}]
      /\ UNCHANGED <<inParty, pending, accepting, crashed, history>>

ProcessChat(m) ==
  LET n == m.to  seen == m.chat \in seenChats[n]
  IN  /\ m.type = "chat" /\ n \in inParty
      /\ Receive(m, IF seen THEN {}
                    ELSE ToNeighbors(n, minList[n], "chat", m.chat))
      /\ seenChats' = [seenChats EXCEPT ![n] = @ \cup {m.chat}]
      /\ shown' = IF seen THEN shown ELSE [shown EXCEPT ![n][m.chat] = @ + 1]
      /\ minList' = [minList EXCEPT ![n] = @ \cup {m.from}]
      /\ UNCHANGED <<inParty, pending, accepting, crashed, history>>

\* Mistake: the bearer of the news is taken off the list.
DisconnectBearer(m) ==
  LET n == m.to  L == minList[n] \ {m.from}
  IN  /\ m.type = "disconnect" /\ n \in inParty
      /\ Receive(m, IF m.from \in minList[n]
                      THEN ToNeighbors(n, L, "disconnect", m.peer) ELSE {})
      /\ minList' = [minList EXCEPT ![n] = L]
      /\ UNCHANGED <<inParty, seenChats, shown, pending, accepting, crashed, history>>

\* A departed member is taken off the list, and those who remain are told.
ProcessDisconnect(m) ==
  LET n == m.to  L == minList[n] \ {m.peer}
  IN  /\ m.type = "disconnect" /\ n \in inParty
      /\ Receive(m, IF m.peer \in minList[n]
                      THEN ToNeighbors(n, L, "disconnect", m.peer) ELSE {})
      /\ minList' = [minList EXCEPT ![n] = L]
      /\ UNCHANGED <<inParty, seenChats, shown, pending, accepting, crashed, history>>

-----------------------------------------------------------------------------
processParty(m) ==
  \/ InvalidParty(m)
  \/ ProcessAnnounce(m)
  \/ ProcessChat(m)
  \/ ProcessDisconnect(m)

Recv == \E m \in net : processInvite(m) \/ processParty(m)

Command ==
  \E n \in Nodes :
    \/ \E x \in Nodes : SendInvite(n, x)
    \/ AcceptAnnounce(n)
    \/ AcceptRegister(n)
    \/ SendChat(n)
    \/ SendDisconnect(n)

Next ==
  \/ Recv
  \/ Command
  \/ \E n \in Nodes : Crash(n)

Spec == Init /\ [][Next]_vars

\* Messages keep being handled while there are any, and AcceptInvite runs to
\* its end.  Nobody has to type anything.
Fairness == WF_vars(Recv) /\ \A n \in Nodes : WF_vars(AcceptRegister(n))

FairSpec == Spec /\ Fairness

-----------------------------------------------------------------------------
(* Correctness *)

Optional(S) == {{}} \cup {{x} : x \in S}

\* Every variable of the model has values of its type; a node has at most one
\* invite to the party pending, and is accepting at most one.
TypeOK ==
  /\ inParty \subseteq Nodes
  /\ minList \in [Nodes -> SUBSET Nodes]
  /\ pending \in [Nodes -> Optional(SUBSET Nodes)]
  /\ accepting \in [Nodes -> Optional(SUBSET Nodes)]
  /\ seenChats \in [Nodes -> SUBSET Chats]
  /\ shown \in [Nodes -> [Chats -> Nat]]
  /\ crashed \subseteq MayCrash
  /\ net \subseteq Message
  /\ invites \in 0..MaxInvites
  /\ left \in Seq(Nodes) /\ Len(left) <= MaxLeaves
  /\ sent \in Seq(Nodes) /\ Len(sent) <= MaxChats

Joined == {n \in Nodes : accepting[n] # {}} \cup inParty \cup Elements(left)

\* Lists travel in invites and grow by hearsay, from announcements that may be
\* old.  Still nobody is on one who has not accepted an invite: chats do not go
\* to somebody who was merely asked.
OnlyJoinedListed ==
  \A n \in Nodes : \A L \in {minList[n]} \cup pending[n] \cup accepting[n] :
    L \subseteq Joined

\* A chat comes back along several paths, to its author too, and datagrams may
\* be duplicated: a member sees it once all the same, as long as it stays.
ShownOnce == \A n \in inParty : \A c \in Chats : shown[n][c] <= 1

\* A message is about nodes that accepted an invite, and one that tells of a
\* departure about a node that left.
MessageJoined(m) ==
  /\ m.from \in Joined
  /\ m.type = "invite" => m.list \subseteq Joined
  /\ m.type = "announce" => m.peer \in Joined
  /\ m.type = "disconnect" => m.peer \in Elements(left)

MessagesJoined == \A m \in net : MessageJoined(m)

\* A member remembers exactly the chats it was shown.
ShownIsSeen ==
  \A n \in Nodes : \A c \in Chats :
    shown[n][c] = IF c \in seenChats[n] THEN 1 ELSE 0

\* Only a node that is not in the party is about to enter it.
AcceptingOutside == \A n \in inParty : accepting[n] = {}

\* The inductive invariant: SeenChats starts anew exactly when the member's
\* view of the chats does, and every list, on its way or in use, names only
\* nodes that accepted.
PartyInv ==
  /\ TypeOK
  /\ OnlyJoinedListed
  /\ MessagesJoined
  /\ ShownIsSeen
  /\ AcceptingOutside

\* ProcessDisconnect takes nobody off a list who has not left the party.
NobodyEvicted ==
  [][\A n \in inParty \cap inParty' :
       minList[n] \ minList'[n] \subseteq Elements(left)]_vars

\* Someone who accepted an invite comes to be listed by all founders, and by
\* itself, which it must be to send anything to the party.
JoinerBecomesKnown ==
  \A n \in Invitees :
    n \in inParty ~> \A f \in Founders \cup {n} : n \in minList[f]

\* A chat reaches every founder that is still there, although members relay it
\* to three neighbours only and some of those may have stopped.
ChatReachesFounders ==
  \A c \in Chats :
    (Len(sent) >= c /\ sent[c] \in Founders) ~>
      \A f \in (Founders \cap inParty) \ crashed : c \in seenChats[f]

\* No copy of a chat is under way to somebody who is still there.
ChatArrived(c) == \A m \in net : m.type = "chat" /\ m.chat = c => m.to \in crashed

\* Of two founders that follow each other in the ring, one is still there.
NoGap ==
  \A x, y \in Founders :
    Position(y, Founders) = (Position(x, Founders) + 1) % Cardinality(Founders)
      => x \notin crashed \/ y \notin crashed

\* When a chat has stopped going round, all founders that are still there have
\* it, its author too, though each member relays it to three neighbours in the
\* ring only and those that have stopped relay nothing: no two next to each
\* other may have.  (Two founders alone have no second neighbour, and nobody
\* else to hear from if the other stops.)
ChatGoesRound ==
  \A c \in 1..Len(sent) :
    /\ inParty = Founders /\ invites = 0 /\ left = <<>>
    /\ ChatArrived(c) /\ NoGap /\ Cardinality(Founders) > 2
    => \A f \in Founders \ crashed : c \in seenChats[f]

\* No copy of an announcement is under way to somebody who is still there.
AnnounceArrived(x) ==
  \A m \in net : m.type = "announce" /\ m.peer = x => m.to \in crashed

\* Somebody who joined tells the founders, but it is for one of them to tell it
\* that it is on the list: one of those that have it for a neighbour.  Who does
\* not hear of itself has no neighbours to send anything to.  When the news has
\* stopped going round, both has happened, if the answer did not come too early
\* (QuickEcho) and one of those neighbours is still there.
JoinGoesRound ==
  ~QuickEcho /\ invites <= 1 /\ left = <<>> =>
    \A x \in inParty \ crashed : AnnounceArrived(x) =>
      /\ \A f \in (Founders \cap inParty) \ (crashed \cup {x}) : x \in minList[f]
      /\ (\E f \in Founders \ (crashed \cup {x}) :
            x \in getNeighbors(f, Founders \cup {x}))
           => x \in minList[x]

\* When a member left, those who remain take it off their lists.
DepartedForgotten ==
  \A n \in Nodes :
    n \in Elements(left) ~> \A f \in inParty : n \notin minList[f]
=============================================================================
