-------------------------- MODULE PartyLine_proofs --------------------------
(***************************************************************************)
(* Theorems about PartyLine, for any nodes, founders and bounds, and with  *)
(* messages that are lost, come twice, or overtake AcceptInvite.           *)
(***************************************************************************)
EXTENDS PartyLine, FiniteSetTheorems, WellFoundedInduction, TLAPS

-----------------------------------------------------------------------------
(* Neighbours and messages *)

\* getNeighbors never leaves the list it is given.
LEMMA NeighborsListed ==
  ASSUME NEW n, NEW L
  PROVE  getNeighbors(n, L) \subseteq L
BY DEF getNeighbors

\* Announcements and disconnects for the neighbours.
LEMMA ToNeighborsPeer ==
  ASSUME NEW n \in Nodes, NEW L \in SUBSET Nodes, NEW x \in Nodes,
         NEW type \in {"announce", "disconnect"},
         NEW m \in ToNeighbors(n, L, type, x)
  PROVE  m \in Message /\ m.from = n /\ m.type = type /\ m.peer = x
<1>1. m \in [type : {type}, from : {n}, to : getNeighbors(n, L), peer : {x}]
  BY DEF ToNeighbors
<1>2. getNeighbors(n, L) \subseteq Nodes
  BY NeighborsListed
<1> QED BY <1>1, <1>2 DEF Message

\* Chats for the neighbours.
LEMMA ToNeighborsChat ==
  ASSUME NEW n \in Nodes, NEW L \in SUBSET Nodes, NEW c \in Chats,
         NEW m \in ToNeighbors(n, L, "chat", c)
  PROVE  m \in Message /\ m.from = n /\ m.type = "chat"
<1>1. m \in [type : {"chat"}, from : {n}, to : getNeighbors(n, L), chat : {c}]
  BY DEF ToNeighbors
<1>2. getNeighbors(n, L) \subseteq Nodes
  BY NeighborsListed
<1> QED BY <1>1, <1>2 DEF Message

\* Every message is between nodes and, by its type, has a list, a peer or a
\* chat.
LEMMA MessageFields ==
  ASSUME NEW m \in Message
  PROVE  /\ m.from \in Nodes /\ m.to \in Nodes
         /\ m.type \in {"invite", "announce", "disconnect", "chat"}
         /\ m.type = "invite" => m.list \in SUBSET Nodes
         /\ m.type \in {"announce", "disconnect"} => m.peer \in Nodes
         /\ m.type = "chat" => m.chat \in Chats
BY DEF Message

\* Receiving adds nothing to the network but what the handler sends.
LEMMA ReceiveNet ==
  ASSUME NEW m, NEW out, Receive(m, out)
  PROVE  net' \subseteq net \cup out
BY DEF Receive

\* The element of an optional value, if there is one.
LEMMA OptionalElement ==
  ASSUME NEW S, NEW X \in Optional(S), NEW x \in X
  PROVE  x \in S
BY DEF Optional

\* Appending to a history adds its last element.
LEMMA ElementsAppend ==
  ASSUME NEW s \in Seq(Nodes), NEW x \in Nodes
  PROVE  Elements(Append(s, x)) = Elements(s) \cup {x}
<1>1. Len(Append(s, x)) = Len(s) + 1 /\ DOMAIN s = 1..Len(s)
      /\ DOMAIN Append(s, x) = 1..(Len(s) + 1)
  OBVIOUS
<1>2. \A k \in 1..Len(s) : Append(s, x)[k] = s[k]
  OBVIOUS
<1>3. Append(s, x)[Len(s) + 1] = x
  OBVIOUS
<1>4. Len(s) \in Nat
  OBVIOUS
<1> QED BY <1>1, <1>2, <1>3, <1>4 DEF Elements

-----------------------------------------------------------------------------
(* Types *)

\* The initial state is well typed.
LEMMA TypeInit == Init => TypeOK
<1> SUFFICES ASSUME Init PROVE TypeOK
  OBVIOUS
<1>1. MaxInvites \in Nat /\ MaxLeaves \in Nat /\ MaxChats \in Nat
  BY BoundsAssumption
<1>2. left \in Seq(Nodes) /\ Len(left) <= MaxLeaves
      /\ sent \in Seq(Nodes) /\ Len(sent) <= MaxChats
  BY <1>1 DEF Init
<1>3. minList \in [Nodes -> SUBSET Nodes]
  BY NodesAssumption DEF Init
<1> QED BY <1>1, <1>2, <1>3, NodesAssumption DEF Init, TypeOK, Optional

\* Every step keeps every variable within its type.
LEMMA TypeNext == TypeOK /\ [Next]_vars => TypeOK'
<1> SUFFICES ASSUME TypeOK, [Next]_vars PROVE TypeOK'
  OBVIOUS
<1> USE DEF TypeOK
<1>0. MaxInvites \in Nat /\ MaxLeaves \in Nat /\ MaxChats \in Nat
  BY BoundsAssumption
<1>1. ASSUME NEW n \in Nodes, NEW x \in Nodes, SendInvite(n, x)
      PROVE  TypeOK'
  <2>1. [type |-> "invite", from |-> n, to |-> x, list |-> minList[n]] \in Message
    BY DEF Message
  <2>2. net' \subseteq Message
    BY <1>1, <2>1 DEF SendInvite
  <2>3. invites' \in 0..MaxInvites
    BY <1>0, <1>1 DEF SendInvite
  <2> QED BY <1>1, <2>2, <2>3 DEF SendInvite, partyVars
<1>2. ASSUME NEW n \in Nodes, AcceptAnnounce(n)
      PROVE  TypeOK'
  <2>1. PICK L \in pending[n] :
          /\ accepting' = [accepting EXCEPT ![n] = {L}]
          /\ net' = net \cup [type : {"announce"}, from : {n}, to : L \ {n}, peer : {n}]
    BY <1>2 DEF AcceptAnnounce
  <2>2. L \in SUBSET Nodes
    BY <2>1, OptionalElement
  <2>3. net' \subseteq Message
    BY <2>1, <2>2 DEF Message
  <2>4. accepting' \in [Nodes -> Optional(SUBSET Nodes)]
    BY <2>1, <2>2 DEF Optional
  <2>5. pending' \in [Nodes -> Optional(SUBSET Nodes)]
    BY <1>2 DEF AcceptAnnounce, Optional
  <2> QED BY <1>2, <2>3, <2>4, <2>5 DEF AcceptAnnounce, partyVars, history
<1>3. ASSUME NEW n \in Nodes, AcceptRegister(n)
      PROVE  TypeOK'
  <2>1. minList' \in [Nodes -> SUBSET Nodes]
    <3>1. PICK L \in accepting[n] : minList' = [minList EXCEPT ![n] = L]
      BY <1>3 DEF AcceptRegister
    <3>2. L \in SUBSET Nodes
      BY <3>1, OptionalElement
    <3> QED BY <3>1, <3>2
  <2>2. accepting' \in [Nodes -> Optional(SUBSET Nodes)]
    BY <1>3 DEF AcceptRegister, Optional
  <2>3. /\ seenChats' \in [Nodes -> SUBSET Chats]
        /\ shown' \in [Nodes -> [Chats -> Nat]]
    BY <1>3 DEF AcceptRegister
  <2> QED BY <1>3, <2>1, <2>2, <2>3 DEF AcceptRegister, history
<1>4. ASSUME NEW n \in Nodes, SendChat(n)
      PROVE  TypeOK'
  <2>1. Len(sent) + 1 \in Chats /\ minList[n] \in SUBSET Nodes
    BY <1>0, <1>4 DEF SendChat, Chats
  <2>2. net' \subseteq Message
    BY <1>4, <2>1, ToNeighborsChat DEF SendChat
  <2>3. sent' \in Seq(Nodes) /\ Len(sent') <= MaxChats
    BY <1>0, <1>4 DEF SendChat
  <2> QED BY <1>4, <2>2, <2>3 DEF SendChat, partyVars
<1>5. ASSUME NEW n \in Nodes, SendDisconnect(n)
      PROVE  TypeOK'
  <2>1. net' \subseteq Message
    <3>1. net' = net \cup ToNeighbors(n, minList[n], "disconnect", n)
          /\ minList[n] \in SUBSET Nodes
      BY <1>5 DEF SendDisconnect
    <3> QED BY <3>1, ToNeighborsPeer
  <2>2. left' \in Seq(Nodes) /\ Len(left') <= MaxLeaves
    BY <1>0, <1>5 DEF SendDisconnect
  <2> QED BY <1>5, <2>1, <2>2 DEF SendDisconnect
<1>6. ASSUME NEW n \in Nodes, Crash(n)
      PROVE  TypeOK'
  BY <1>6 DEF Crash, partyVars, history
<1>7. ASSUME NEW m \in net, processInvite(m)
      PROVE  TypeOK'
  <2>1. m.to \in Nodes /\ m.list \in SUBSET Nodes
    BY <1>7, MessageFields DEF processInvite
  <2>2. pending' \in [Nodes -> Optional(SUBSET Nodes)]
    BY <1>7, <2>1 DEF processInvite, Optional
  <2>3. net' \subseteq Message
    BY <1>7, ReceiveNet DEF processInvite
  <2> QED BY <1>7, <2>2, <2>3 DEF processInvite, partyVars, history
<1>8. ASSUME NEW m \in net, InvalidParty(m)
      PROVE  TypeOK'
  <2>1. net' \subseteq Message
    BY <1>8, ReceiveNet DEF InvalidParty
  <2> QED BY <1>8, <2>1 DEF InvalidParty, partyVars, history
<1>9. ASSUME NEW m \in net, ProcessAnnounce(m)
      PROVE  TypeOK'
  <2> DEFINE n == m.to
             L == minList[n] \cup {m.peer}
  <2>0. m \in Message /\ m.type = "announce"
    BY <1>9 DEF ProcessAnnounce
  <2>1. n \in Nodes /\ m.from \in Nodes /\ m.peer \in Nodes
    BY <2>0, MessageFields
  <2>2. ToNeighbors(n, L, "announce", m.peer) \subseteq Message
    <3>1. L \in SUBSET Nodes
      BY <2>1
    <3> HIDE DEF L
    <3> QED BY <2>1, <3>1, ToNeighborsPeer
  <2>3. net' \subseteq net \cup ToNeighbors(n, L, "announce", m.peer)
    BY <1>9 DEF ProcessAnnounce, Receive
  <2>4. minList' \in [Nodes -> SUBSET Nodes]
    BY <1>9, <2>1 DEF ProcessAnnounce
  <2> QED BY <1>9, <2>2, <2>3, <2>4 DEF ProcessAnnounce, history
<1>10. ASSUME NEW m \in net, ProcessChat(m)
       PROVE  TypeOK'
  <2> DEFINE n == m.to
             out == ToNeighbors(n, minList[n], "chat", m.chat)
  <2>1. n \in Nodes /\ m.from \in Nodes /\ m.chat \in Chats
    BY <1>10, MessageFields DEF ProcessChat
  <2>2. out \subseteq Message
    BY <2>1, ToNeighborsChat
  <2>3. net' \subseteq net \cup out
    BY <1>10 DEF ProcessChat, Receive
  <2>4. minList' \in [Nodes -> SUBSET Nodes]
    BY <1>10, <2>1 DEF ProcessChat
  <2>5. seenChats' \in [Nodes -> SUBSET Chats]
    BY <1>10, <2>1 DEF ProcessChat
  <2>6. shown' \in [Nodes -> [Chats -> Nat]]
    BY <1>10, <2>1 DEF ProcessChat
  <2> QED BY <1>10, <2>2, <2>3, <2>4, <2>5, <2>6 DEF ProcessChat, history
<1>11. ASSUME NEW m \in net, ProcessDisconnect(m)
       PROVE  TypeOK'
  <2> DEFINE n == m.to
             L == minList[n] \ {m.peer}
  <2>0. m \in Message /\ m.type = "disconnect"
    BY <1>11 DEF ProcessDisconnect
  <2>1. n \in Nodes /\ m.peer \in Nodes
    BY <2>0, MessageFields
  <2>2. ToNeighbors(n, L, "disconnect", m.peer) \subseteq Message
    <3>1. L \in SUBSET Nodes
      BY <2>1
    <3> HIDE DEF L
    <3> QED BY <2>1, <3>1, ToNeighborsPeer
  <2>3. net' \subseteq net \cup ToNeighbors(n, L, "disconnect", m.peer)
    BY <1>11 DEF ProcessDisconnect, Receive
  <2>4. minList' \in [Nodes -> SUBSET Nodes]
    BY <1>11, <2>1 DEF ProcessDisconnect
  <2> QED BY <1>11, <2>2, <2>3, <2>4 DEF ProcessDisconnect, history
<1>12. CASE UNCHANGED vars
  BY <1>12 DEF vars, partyVars, history
<1> QED
  BY <1>1, <1>2, <1>3, <1>4, <1>5, <1>6, <1>7, <1>8, <1>9, <1>10, <1>11, <1>12
  DEF Next, Recv, Command, processParty

-----------------------------------------------------------------------------
(* Who joined *)

\* Nobody ever ceases to have accepted an invite.
LEMMA JoinedGrows ==
  ASSUME TypeOK, [Next]_vars
  PROVE  Joined \subseteq Joined'
<1>1. ASSUME NEW n \in Nodes, AcceptRegister(n)
      PROVE  Joined \subseteq Joined'
  <2>1. \A k \in Nodes \ {n} : accepting'[k] = accepting[k]
    BY <1>1 DEF AcceptRegister, TypeOK
  <2> QED BY <1>1, <2>1 DEF AcceptRegister, Joined, history
<1>2. ASSUME NEW n \in Nodes, SendDisconnect(n)
      PROVE  Joined \subseteq Joined'
  <2>1. Elements(left') = Elements(left) \cup {n}
    BY <1>2, ElementsAppend DEF SendDisconnect, TypeOK
  <2> QED BY <1>2, <2>1 DEF SendDisconnect, Joined
<1>3. ASSUME NEW n \in Nodes, AcceptAnnounce(n)
      PROVE  Joined \subseteq Joined'
  <2>1. \A k \in Nodes \ {n} : accepting'[k] = accepting[k]
    BY <1>3 DEF AcceptAnnounce, TypeOK
  <2>2. accepting'[n] # {}
    BY <1>3 DEF AcceptAnnounce, TypeOK
  <2> QED BY <1>3, <2>1, <2>2 DEF AcceptAnnounce, Joined, partyVars, history
<1>4. ASSUME UNCHANGED <<inParty, accepting, left>>
      PROVE  Joined \subseteq Joined'
  BY <1>4 DEF Joined, Elements
<1>5. ASSUME NEW n \in Nodes, NEW x \in Nodes,
             SendInvite(n, x) \/ SendChat(n) \/ Crash(n)
      PROVE  UNCHANGED <<inParty, accepting, left>>
  BY <1>5 DEF SendInvite, SendChat, Crash, partyVars, history
<1>6. ASSUME NEW m \in net, processInvite(m) \/ processParty(m)
      PROVE  UNCHANGED <<inParty, accepting, left>>
  BY <1>6 DEF processInvite, processParty, InvalidParty, ProcessAnnounce,
              ProcessChat, ProcessDisconnect, partyVars, history
<1>7. CASE UNCHANGED vars
  BY <1>4, <1>7 DEF vars, partyVars, history
<1> QED
  BY <1>1, <1>2, <1>3, <1>4, <1>5, <1>6, <1>7 DEF Next, Recv, Command

\* A departure is in the history of departures for good.
LEMMA LeftGrows ==
  ASSUME TypeOK, [Next]_vars
  PROVE  Elements(left) \subseteq Elements(left')
<1>1. ASSUME NEW n \in Nodes, SendDisconnect(n)
      PROVE  Elements(left) \subseteq Elements(left')
  <2>1. left' = Append(left, n) /\ left \in Seq(Nodes)
    BY <1>1 DEF SendDisconnect, TypeOK
  <2> QED BY <2>1, ElementsAppend
<1>2. ASSUME NEW n \in Nodes, NEW x \in Nodes,
             \/ SendInvite(n, x) \/ AcceptAnnounce(n) \/ AcceptRegister(n)
             \/ SendChat(n) \/ Crash(n)
      PROVE  left' = left
  BY <1>2 DEF SendInvite, AcceptAnnounce, AcceptRegister, SendChat, Crash, history
<1>3. ASSUME NEW m \in net, processInvite(m) \/ processParty(m)
      PROVE  left' = left
  BY <1>3 DEF processInvite, processParty, InvalidParty, ProcessAnnounce,
              ProcessChat, ProcessDisconnect, history
<1>4. CASE UNCHANGED vars
  BY <1>4 DEF vars, history
<1> QED BY <1>1, <1>2, <1>3, <1>4 DEF Next, Recv, Command

-----------------------------------------------------------------------------
(* Who is listed *)

Listed == OnlyJoinedListed /\ MessagesJoined

\* What was about joined nodes stays so.
LEMMA ListedKept ==
  ASSUME TypeOK, Listed, [Next]_vars
  PROVE  /\ \A n \in Nodes : minList[n] \subseteq Joined'
         /\ \A n \in Nodes : \A L \in pending[n] \cup accepting[n] : L \subseteq Joined'
         /\ \A m \in net : MessageJoined(m)'
<1>1. Joined \subseteq Joined' /\ Elements(left) \subseteq Elements(left)'
  BY JoinedGrows, LeftGrows DEF Elements
<1>2. \A n \in Nodes : \A L \in {minList[n]} \cup pending[n] \cup accepting[n] :
        L \subseteq Joined'
  BY <1>1 DEF Listed, OnlyJoinedListed
<1>3. \A m \in net : MessageJoined(m)'
  BY <1>1 DEF Listed, MessagesJoined, MessageJoined
<1> QED BY <1>2, <1>3

\* Every step keeps lists and messages about joined nodes only.
LEMMA ListedNext ==
  ASSUME TypeOK, Listed, [Next]_vars
  PROVE  Listed'
<1>1. ASSUME \A n \in Nodes : minList'[n] \subseteq Joined',
             \A n \in Nodes : \A L \in pending'[n] \cup accepting'[n] :
                               L \subseteq Joined',
             \A m \in net' : MessageJoined(m)'
      PROVE  Listed'
  BY <1>1 DEF Listed, OnlyJoinedListed, MessagesJoined
<1>2. ASSUME NEW n \in Nodes, NEW x \in Nodes, SendInvite(n, x)
      PROVE  Listed'
  <2> DEFINE new == [type |-> "invite", from |-> n, to |-> x, list |-> minList[n]]
  <2>1. n \in Joined'
    BY <1>2, JoinedGrows DEF SendInvite, Joined
  <2>2. MessageJoined(new)'
    <3>1. new.from = n /\ new.type = "invite" /\ new.list = minList[n]
      OBVIOUS
    <3>2. new.list \subseteq Joined'
      BY <3>1, ListedKept
    <3>3. UNCHANGED minList
      BY <1>2 DEF SendInvite, partyVars
    <3> QED BY <2>1, <3>1, <3>2, <3>3 DEF MessageJoined
  <2>3. net' = net \cup {new} /\ minList' = minList
        /\ pending' = pending /\ accepting' = accepting
    BY <1>2 DEF SendInvite, partyVars
  <2> QED BY <1>1, <2>2, <2>3, ListedKept
<1>3. ASSUME NEW n \in Nodes, AcceptAnnounce(n)
      PROVE  Listed'
  <2>1. PICK L \in pending[n] :
          /\ accepting' = [accepting EXCEPT ![n] = {L}]
          /\ net' = net \cup [type : {"announce"}, from : {n}, to : L \ {n}, peer : {n}]
    BY <1>3 DEF AcceptAnnounce
  <2>2. accepting'[n] = {L} /\ L \subseteq Joined'
        /\ \A k \in Nodes \ {n} : accepting'[k] = accepting[k]
    BY <2>1, ListedKept DEF TypeOK
  <2>3. n \in Joined'
    BY <2>2 DEF Joined
  <2>4. \A m \in net' \ net : m.from = n /\ m.type = "announce" /\ m.peer = n
    BY <2>1
  <2>5. \A m \in net' : MessageJoined(m)'
    BY <2>3, <2>4, ListedKept DEF MessageJoined
  <2>6. minList' = minList /\ \A k \in Nodes : pending'[k] \subseteq pending[k]
    BY <1>3 DEF AcceptAnnounce, partyVars, TypeOK
  <2>7. \A k \in Nodes : \A K \in pending'[k] \cup accepting'[k] : K \subseteq Joined'
    BY <2>2, <2>6, ListedKept
  <2> QED BY <1>1, <2>5, <2>6, <2>7, ListedKept
<1>4. ASSUME NEW n \in Nodes, AcceptRegister(n)
      PROVE  Listed'
  <2>1. PICK L \in accepting[n] : minList' = [minList EXCEPT ![n] = L]
    BY <1>4 DEF AcceptRegister
  <2>2. L \subseteq Joined'
    BY <2>1, ListedKept
  <2>3. \A k \in Nodes : minList'[k] \subseteq Joined'
    BY <2>1, <2>2, ListedKept DEF TypeOK
  <2>4. net' = net /\ pending' = pending
        /\ \A k \in Nodes : accepting'[k] \subseteq accepting[k]
    BY <1>4 DEF AcceptRegister, TypeOK
  <2> QED BY <1>1, <2>3, <2>4, ListedKept
<1>5. ASSUME NEW n \in Nodes, SendChat(n)
      PROVE  Listed'
  <2>1. n \in Joined' /\ minList[n] \in SUBSET Nodes /\ Len(sent) + 1 \in Chats
    <3>1. n \in Joined /\ Joined \subseteq Joined'
      BY <1>5, JoinedGrows DEF SendChat, Joined
    <3>2. Len(sent) + 1 \in Chats
      BY <1>5, BoundsAssumption DEF SendChat, TypeOK, Chats
    <3> QED BY <3>1, <3>2 DEF TypeOK
  <2>2. \A m \in ToNeighbors(n, minList[n], "chat", Len(sent) + 1) :
          m.from = n /\ m.type = "chat"
    BY <2>1, ToNeighborsChat
  <2>3. net' = net \cup ToNeighbors(n, minList[n], "chat", Len(sent) + 1)
        /\ minList' = minList /\ pending' = pending /\ accepting' = accepting
    BY <1>5 DEF SendChat, partyVars
  <2>4. \A m \in net' : MessageJoined(m)'
    BY <2>1, <2>2, <2>3, ListedKept DEF MessageJoined
  <2> QED BY <1>1, <2>3, <2>4, ListedKept
<1>6. ASSUME NEW n \in Nodes, SendDisconnect(n)
      PROVE  Listed'
  <2>1. n \in Joined' /\ minList[n] \in SUBSET Nodes
    BY <1>6, JoinedGrows DEF SendDisconnect, Joined, TypeOK
  <2>2. n \in Elements(left)'
    <3>1. left' = Append(left, n) /\ left \in Seq(Nodes)
      BY <1>6 DEF SendDisconnect, TypeOK
    <3>2. n \in Elements(left')
      BY <3>1, ElementsAppend
    <3> QED BY <3>2 DEF Elements
  <2>3. \A m \in ToNeighbors(n, minList[n], "disconnect", n) :
          m.from = n /\ m.type = "disconnect" /\ m.peer = n
    BY <2>1, ToNeighborsPeer
  <2>4. net' = net \cup ToNeighbors(n, minList[n], "disconnect", n)
        /\ minList' = minList /\ pending' = pending /\ accepting' = accepting
    BY <1>6 DEF SendDisconnect
  <2>5. \A m \in net' : MessageJoined(m)'
    BY <2>1, <2>2, <2>3, <2>4, ListedKept DEF MessageJoined
  <2> QED BY <1>1, <2>4, <2>5, ListedKept
<1>7. ASSUME NEW n \in Nodes, Crash(n)
      PROVE  Listed'
  BY <1>1, <1>7, ListedKept DEF Crash, partyVars
<1>8. ASSUME NEW m \in net, processInvite(m)
      PROVE  Listed'
  <2>1. m.list \subseteq Joined' /\ m.to \in Nodes
    BY <1>8, ListedKept, MessageFields DEF processInvite, MessageJoined, TypeOK
  <2>2. net' \subseteq net /\ minList' = minList /\ accepting' = accepting
    BY <1>8, ReceiveNet DEF processInvite, partyVars
  <2>3. \A k \in Nodes : \A L \in pending'[k] : L \in pending[k] \/ L = m.list
    BY <1>8, <2>1 DEF processInvite, TypeOK
  <2> QED BY <1>1, <2>1, <2>2, <2>3, ListedKept
<1>9. ASSUME NEW m \in net, InvalidParty(m)
      PROVE  Listed'
  <2>1. net' \subseteq net
    BY <1>9, ReceiveNet DEF InvalidParty
  <2> QED BY <1>1, <1>9, <2>1, ListedKept DEF InvalidParty, partyVars
<1>10. ASSUME NEW m \in net, ProcessAnnounce(m)
       PROVE  Listed'
  <2> DEFINE n == m.to
             L == minList[n] \cup {m.peer}
             out == ToNeighbors(n, L, "announce", m.peer)
  <2>1. m \in Message /\ m.type = "announce" /\ n \in inParty
    BY <1>10 DEF ProcessAnnounce, TypeOK
  <2>2. n \in Nodes /\ m.from \in Nodes /\ m.peer \in Nodes
    BY <2>1, MessageFields
  <2>3. n \in Joined' /\ m.from \in Joined' /\ m.peer \in Joined'
    BY <2>1, <2>2, JoinedGrows, ListedKept DEF Joined, MessageJoined
  <2>4. L \in SUBSET Nodes
    BY <2>2 DEF TypeOK
  <2>5. \A o \in out : o.from = n /\ o.type = "announce" /\ o.peer = m.peer
    <3> HIDE DEF L
    <3> QED BY <2>2, <2>4, ToNeighborsPeer
  <2>6. net' \subseteq net \cup out
    BY <1>10 DEF ProcessAnnounce, Receive
  <2>7. \A o \in net' : MessageJoined(o)'
    BY <2>3, <2>5, <2>6, ListedKept DEF MessageJoined
  <2>8. minList' = [minList EXCEPT ![n] = L \cup {m.from}]
        /\ pending' = pending /\ accepting' = accepting
    BY <1>10 DEF ProcessAnnounce
  <2>9. \A k \in Nodes : minList'[k] \subseteq Joined'
    BY <2>2, <2>3, <2>8, ListedKept DEF TypeOK
  <2> QED BY <1>1, <2>7, <2>8, <2>9, ListedKept
<1>11. ASSUME NEW m \in net, ProcessChat(m)
       PROVE  Listed'
  <2> DEFINE n == m.to
             out == ToNeighbors(n, minList[n], "chat", m.chat)
  <2>1. m \in Message /\ m.type = "chat" /\ n \in inParty
    BY <1>11 DEF ProcessChat, TypeOK
  <2>2. n \in Nodes /\ m.from \in Nodes /\ m.chat \in Chats
    BY <2>1, MessageFields
  <2>3. n \in Joined' /\ m.from \in Joined'
    BY <2>1, <2>2, JoinedGrows, ListedKept DEF Joined, MessageJoined
  <2>4. \A o \in out : o.from = n /\ o.type = "chat"
    BY <2>2, ToNeighborsChat DEF TypeOK
  <2>5. net' \subseteq net \cup out
    BY <1>11 DEF ProcessChat, Receive
  <2>6. \A o \in net' : MessageJoined(o)'
    BY <2>3, <2>4, <2>5, ListedKept DEF MessageJoined
  <2>7. minList' = [minList EXCEPT ![n] = @ \cup {m.from}]
        /\ pending' = pending /\ accepting' = accepting
    BY <1>11 DEF ProcessChat
  <2>8. \A k \in Nodes : minList'[k] \subseteq Joined'
    BY <2>2, <2>3, <2>7, ListedKept DEF TypeOK
  <2> QED BY <1>1, <2>6, <2>7, <2>8, ListedKept
<1>12. ASSUME NEW m \in net, ProcessDisconnect(m)
       PROVE  Listed'
  <2> DEFINE n == m.to
             L == minList[n] \ {m.peer}
             out == ToNeighbors(n, L, "disconnect", m.peer)
  <2>1. m \in Message /\ m.type = "disconnect" /\ n \in inParty
    BY <1>12 DEF ProcessDisconnect, TypeOK
  <2>2. n \in Nodes /\ m.peer \in Nodes
    BY <2>1, MessageFields
  <2>3. n \in Joined' /\ m.peer \in Elements(left)'
    BY <2>1, <2>2, JoinedGrows, ListedKept DEF Joined, MessageJoined
  <2>4. L \in SUBSET Nodes
    BY <2>2 DEF TypeOK
  <2>5. \A o \in out : o.from = n /\ o.type = "disconnect" /\ o.peer = m.peer
    <3> HIDE DEF L
    <3> QED BY <2>2, <2>4, ToNeighborsPeer
  <2>6. net' \subseteq net \cup out
    BY <1>12 DEF ProcessDisconnect, Receive
  <2>7. \A o \in net' : MessageJoined(o)'
    BY <2>3, <2>5, <2>6, ListedKept DEF MessageJoined
  <2>8. minList' = [minList EXCEPT ![n] = L]
        /\ pending' = pending /\ accepting' = accepting
    BY <1>12 DEF ProcessDisconnect
  <2>9. \A k \in Nodes : minList'[k] \subseteq Joined'
    BY <2>2, <2>8, ListedKept DEF TypeOK
  <2> QED BY <1>1, <2>7, <2>8, <2>9, ListedKept
<1>13. CASE UNCHANGED vars
  BY <1>1, <1>13, ListedKept DEF vars, partyVars
<1> QED
  BY <1>2, <1>3, <1>4, <1>5, <1>6, <1>7, <1>8, <1>9, <1>10, <1>11, <1>12, <1>13
  DEF Next, Recv, Command, processParty

-----------------------------------------------------------------------------
(* What is shown *)

\* Every step keeps the chats shown and the chats seen in agreement.
LEMMA ShownNext ==
  ASSUME TypeOK, ShownIsSeen, [Next]_vars
  PROVE  ShownIsSeen'
<1>1. ASSUME NEW n \in Nodes, AcceptRegister(n)
      PROVE  ShownIsSeen'
  BY <1>1 DEF AcceptRegister, ShownIsSeen, TypeOK
<1>2. ASSUME NEW m \in net, ProcessChat(m)
      PROVE  ShownIsSeen'
  <2>1. m.to \in Nodes /\ m.chat \in Chats
    BY <1>2, MessageFields DEF ProcessChat, TypeOK
  <2>2. CASE m.chat \in seenChats[m.to]
    <3>1. seenChats' = seenChats /\ shown' = shown
      BY <1>2, <2>1, <2>2 DEF ProcessChat, TypeOK
    <3> QED BY <3>1 DEF ShownIsSeen
  <2>3. CASE m.chat \notin seenChats[m.to]
    <3>1. /\ seenChats' = [seenChats EXCEPT ![m.to] = @ \cup {m.chat}]
          /\ shown' = [shown EXCEPT ![m.to][m.chat] = @ + 1]
      BY <1>2, <2>3 DEF ProcessChat
    <3>2. shown[m.to][m.chat] = 0
      BY <2>1, <2>3 DEF ShownIsSeen
    <3> QED BY <2>1, <3>1, <3>2 DEF ShownIsSeen, TypeOK
  <2> QED BY <2>2, <2>3
<1>3. ASSUME UNCHANGED <<seenChats, shown>>
      PROVE  ShownIsSeen'
  BY <1>3 DEF ShownIsSeen
<1>4. ASSUME NEW n \in Nodes, NEW x \in Nodes,
             \/ SendInvite(n, x) \/ AcceptAnnounce(n)
             \/ SendChat(n) \/ SendDisconnect(n) \/ Crash(n)
      PROVE  UNCHANGED <<seenChats, shown>>
  BY <1>4 DEF SendInvite, AcceptAnnounce, SendChat, SendDisconnect, Crash, partyVars
<1>5. ASSUME NEW m \in net,
             \/ processInvite(m) \/ InvalidParty(m)
             \/ ProcessAnnounce(m) \/ ProcessDisconnect(m)
      PROVE  UNCHANGED <<seenChats, shown>>
  BY <1>5 DEF processInvite, InvalidParty, ProcessAnnounce, ProcessDisconnect, partyVars
<1>6. CASE UNCHANGED vars
  BY <1>3, <1>6 DEF vars, partyVars
<1> QED
  BY <1>1, <1>2, <1>3, <1>4, <1>5, <1>6 DEF Next, Recv, Command, processParty

\* Every step keeps those who accept an invite out of the party.
LEMMA AcceptingNext ==
  ASSUME TypeOK, AcceptingOutside, [Next]_vars
  PROVE  AcceptingOutside'
<1>1. ASSUME NEW n \in Nodes, AcceptAnnounce(n)
      PROVE  AcceptingOutside'
  BY <1>1 DEF AcceptAnnounce, AcceptingOutside, TypeOK, partyVars
<1>2. ASSUME NEW n \in Nodes, AcceptRegister(n)
      PROVE  AcceptingOutside'
  BY <1>2 DEF AcceptRegister, AcceptingOutside, TypeOK
<1>3. ASSUME inParty' \subseteq inParty, accepting' = accepting
      PROVE  AcceptingOutside'
  BY <1>3 DEF AcceptingOutside
<1>4. ASSUME NEW n \in Nodes, NEW x \in Nodes,
             \/ SendInvite(n, x) \/ SendChat(n)
             \/ SendDisconnect(n) \/ Crash(n)
      PROVE  inParty' \subseteq inParty /\ accepting' = accepting
  BY <1>4 DEF SendInvite, SendChat, SendDisconnect, Crash, partyVars
<1>5. ASSUME NEW m \in net, processInvite(m) \/ processParty(m)
      PROVE  inParty' \subseteq inParty /\ accepting' = accepting
  BY <1>5 DEF processInvite, processParty, InvalidParty, ProcessAnnounce,
              ProcessChat, ProcessDisconnect, partyVars
<1>6. CASE UNCHANGED vars
  BY <1>3, <1>6 DEF vars, partyVars
<1> QED
  BY <1>1, <1>2, <1>3, <1>4, <1>5, <1>6 DEF Next, Recv, Command

-----------------------------------------------------------------------------
(* The theorems *)

\* At the start the founders list each other and nothing is on its way.
LEMMA InvInit == Init => PartyInv
<1> SUFFICES ASSUME Init PROVE PartyInv
  OBVIOUS
<1>1. TypeOK
  BY TypeInit
<1>2. OnlyJoinedListed
  BY NodesAssumption DEF Init, OnlyJoinedListed, Joined
<1>3. MessagesJoined /\ ShownIsSeen /\ AcceptingOutside
  BY NodesAssumption DEF Init, MessagesJoined, ShownIsSeen, AcceptingOutside
<1> QED BY <1>1, <1>2, <1>3 DEF PartyInv

\* The inductive invariant holds in every state of the party, whatever the
\* network does.
THEOREM PartySafe == Spec => []PartyInv
<1>1. Init => PartyInv
  BY InvInit
<1>2. PartyInv /\ [Next]_vars => PartyInv'
  BY TypeNext, ListedNext, ShownNext, AcceptingNext DEF PartyInv, Listed
<1> QED BY <1>1, <1>2, PTL DEF Spec

\* The variables keep their types: at most one invite is pending, and at most
\* one is being accepted, at every node.
THEOREM TypeCorrect == Spec => []TypeOK
<1>1. PartyInv => TypeOK
  BY DEF PartyInv
<1> QED BY <1>1, PartySafe, PTL

\* No list, in use or on its way, names a node that has not accepted an
\* invite.
THEOREM ListedHaveJoined == Spec => []OnlyJoinedListed
<1>1. PartyInv => OnlyJoinedListed
  BY DEF PartyInv
<1> QED BY <1>1, PartySafe, PTL

\* A member sees a chat once, over however many paths it comes and however
\* often.
THEOREM ChatsShownOnce == Spec => []ShownOnce
<1>1. PartyInv => ShownOnce
  <2> SUFFICES ASSUME PartyInv, NEW n \in inParty, NEW c \in Chats
               PROVE  shown[n][c] <= 1
    BY DEF ShownOnce
  <2>1. n \in Nodes
    BY DEF PartyInv, TypeOK
  <2>2. shown[n][c] = 0 \/ shown[n][c] = 1
    BY <2>1 DEF PartyInv, ShownIsSeen
  <2> QED BY <2>2
<1> QED BY <1>1, PartySafe, PTL

\* Handling messages takes nobody off a member's list who has not left.
THEOREM NoEviction == Spec => NobodyEvicted
<1> DEFINE Step == \A n \in inParty \cap inParty' :
                     minList[n] \ minList'[n] \subseteq Elements(left)
<1>1. PartyInv /\ [Next]_vars => [Step]_vars
  <2> SUFFICES ASSUME PartyInv, Next PROVE Step
    OBVIOUS
  <2>1. TypeOK /\ MessagesJoined /\ AcceptingOutside
    BY DEF PartyInv
  <2>2. ASSUME NEW n \in Nodes, AcceptRegister(n)
        PROVE  Step
    <3>1. n \notin inParty
      BY <2>1, <2>2 DEF AcceptRegister, AcceptingOutside
    <3>2. \A k \in Nodes \ {n} : minList'[k] = minList[k]
      BY <2>1, <2>2 DEF AcceptRegister, TypeOK
    <3> QED BY <2>1, <3>1, <3>2 DEF TypeOK
  <2>3. ASSUME NEW m \in net, ProcessAnnounce(m) \/ ProcessChat(m)
        PROVE  Step
    <3>1. \A k \in Nodes : minList[k] \subseteq minList'[k]
      <4>1. CASE ProcessAnnounce(m)
        BY <2>1, <4>1 DEF ProcessAnnounce, TypeOK
      <4>2. CASE ProcessChat(m)
        BY <2>1, <4>2 DEF ProcessChat, TypeOK
      <4> QED BY <2>3, <4>1, <4>2
    <3> QED BY <2>1, <3>1 DEF TypeOK
  <2>4. ASSUME NEW m \in net, ProcessDisconnect(m)
        PROVE  Step
    <3>1. m.peer \in Elements(left)
      BY <2>1, <2>4 DEF ProcessDisconnect, MessagesJoined, MessageJoined
    <3>2. \A k \in Nodes : minList[k] \ {m.peer} \subseteq minList'[k]
      BY <2>1, <2>4 DEF ProcessDisconnect, TypeOK
    <3> QED BY <2>1, <3>1, <3>2 DEF TypeOK
  <2>5. ASSUME minList' = minList
        PROVE  Step
    BY <2>5
  <2>6. ASSUME NEW n \in Nodes, NEW x \in Nodes,
               \/ SendInvite(n, x) \/ AcceptAnnounce(n)
               \/ SendChat(n) \/ SendDisconnect(n) \/ Crash(n)
        PROVE  minList' = minList
    BY <2>6 DEF SendInvite, AcceptAnnounce, SendChat, SendDisconnect, Crash, partyVars
  <2>7. ASSUME NEW m \in net, processInvite(m) \/ InvalidParty(m)
        PROVE  minList' = minList
    BY <2>7 DEF processInvite, InvalidParty, partyVars
  <2> HIDE DEF Step
  <2> QED
    BY <2>2, <2>3, <2>4, <2>5, <2>6, <2>7 DEF Next, Recv, Command, processParty
<1> QED BY <1>1, PartySafe, PTL DEF Spec, NobodyEvicted
-----------------------------------------------------------------------------
(* The ring *)

Place(x) == Position(x, Founders)
Places   == Cardinality(Founders)

\* There are so many places.
LEMMA PlacesType == IsFiniteSet(Founders) /\ Places \in Nat
<1>1. IsFiniteSet(Founders)
  BY NodesAssumption, FS_Subset
<1> QED BY <1>1, FS_CardinalityType DEF Places

\* Who is before another in the order of ids has a place before it.
LEMMA PlaceOrder ==
  ASSUME NEW x \in Founders, NEW y \in Founders, x < y
  PROVE  Place(x) \in Nat /\ Place(y) \in Nat /\ Place(x) < Place(y)
<1> DEFINE X == {z \in Founders : z < x}
           Y == {z \in Founders : z < y}
<1>0. Founders \subseteq Nat
  BY NodesAssumption
<1>1. X \in SUBSET Y /\ x \in Y /\ x \notin X
  <2>1. x \in Nat /\ y \in Nat /\ \A z \in Founders : z \in Nat
    BY <1>0
  <2>2. (\A z \in Founders : z < x => z < y) /\ ~(x < x)
    BY <2>1
  <2>3. X \subseteq Y
    BY <2>2
  <2>4. x \in Y /\ x \notin X
    BY <2>2
  <2> QED BY <2>3, <2>4
<1>2. IsFiniteSet(X) /\ IsFiniteSet(Y)
  BY PlacesType, FS_Subset
<1>3. Cardinality(X) \in Nat /\ Cardinality(Y) \in Nat
  BY <1>2, FS_CardinalityType
<1>4. Cardinality(X) <= Cardinality(Y) /\ Cardinality(X) # Cardinality(Y)
  BY <1>1, <1>2, FS_Subset
<1> QED BY <1>3, <1>4 DEF Place, Position

\* The places are numbered from 0, and each has one founder.
LEMMA PlaceInRing ==
  /\ \A x \in Founders : Place(x) \in 0..(Places - 1)
  /\ \A x, y \in Founders : Place(x) = Place(y) => x = y
  /\ \A k \in 0..(Places - 1) : \E x \in Founders : Place(x) = k
<1>1. ASSUME NEW x \in Founders
      PROVE  Place(x) \in 0..(Places - 1)
  <2> DEFINE X == {z \in Founders : z < x}
  <2>1. X \in SUBSET Founders /\ x \notin X
    BY NodesAssumption
  <2>2. IsFiniteSet(X) /\ Cardinality(X) <= Places /\ Cardinality(X) # Places
    BY <2>1, PlacesType, FS_Subset DEF Places
  <2>3. Cardinality(X) \in Nat
    BY <2>2, FS_CardinalityType
  <2> QED BY <2>2, <2>3, PlacesType DEF Place, Position
<1>2. ASSUME NEW x \in Founders, NEW y \in Founders, Place(x) = Place(y)
      PROVE  x = y
  <2>1. x \in Nat /\ y \in Nat /\ Place(x) \in Int
    BY <1>1, NodesAssumption, PlacesType
  <2>2. ~(x < y) /\ ~(y < x)
    BY <1>2, <2>1, PlaceOrder
  <2> QED BY <2>1, <2>2
<1> DEFINE at == [x \in Founders |-> Place(x)]
<1>3. at \in Injection(Founders, 0..(Places - 1))
  BY <1>1, <1>2 DEF Injection, IsInjective
<1>4. IsFiniteSet(0..(Places - 1)) /\ Cardinality(0..(Places - 1)) = Places
  BY PlacesType, FS_Interval
<1>5. at \in Surjection(Founders, 0..(Places - 1))
  BY <1>3, <1>4, FS_Injection DEF Places
<1>6. \A k \in 0..(Places - 1) : \E x \in Founders : Place(x) = k
  BY <1>5 DEF Surjection
<1> QED BY <1>1, <1>2, <1>6

\* Going on by one place or two, around the end.
LEMMA Around ==
  ASSUME NEW N \in Nat, N > 2, NEW k \in 0..(N - 1)
  PROVE  /\ (k + 1) % N = IF k + 1 < N THEN k + 1 ELSE 0
         /\ (k + 2) % N = IF k + 2 < N THEN k + 2 ELSE k + 2 - N
<1>1. \A i \in 0..(N - 1) : i % N = i
  OBVIOUS
<1>2. \A i \in 0..(N - 1) : (i + N) % N = i
  OBVIOUS
<1>3. CASE k + 2 < N
  BY <1>1, <1>3
<1>4. CASE k + 2 = N
  BY <1>1, <1>2, <1>4
<1>5. CASE k + 1 = N
  BY <1>1, <1>2, <1>5
<1> QED BY <1>3, <1>4, <1>5

\* How many places it is from h on to f, a whole round if they are the same.
Ahead(h, f) ==
  IF Place(h) < Place(f) THEN Place(f) - Place(h) ELSE Place(f) - Place(h) + Places

\* From any founder on to any other that is still there, one of its neighbours is
\* closer, or is the other, and is still there: the next, or the next but one.
LEMMA Closer ==
  ASSUME NoGap, Places > 2, NEW h \in Founders, NEW f \in Founders \ crashed
  PROVE  \E x \in getNeighbors(h, Founders) \ crashed :
           x = f \/ Ahead(x, f) < Ahead(h, f)
<1> DEFINE p == Place(h)
           q == Place(f)
<1>1. /\ Places \in Nat /\ p \in 0..(Places - 1) /\ q \in 0..(Places - 1)
      /\ (p + 1) % Places \in 0..(Places - 1) /\ (p + 2) % Places \in 0..(Places - 1)
  BY PlacesType, PlaceInRing
<1>2. PICK x \in Founders : Place(x) = (p + 1) % Places
  BY <1>1, PlaceInRing
<1>3. PICK y \in Founders : Place(y) = (p + 2) % Places
  BY <1>1, PlaceInRing
<1>4. /\ Place(x) = IF p + 1 < Places THEN p + 1 ELSE 0
      /\ Place(y) = IF p + 2 < Places THEN p + 2 ELSE p + 2 - Places
  BY <1>1, <1>2, <1>3, Around
<1>5. x # h /\ y # h
  BY <1>1, <1>4
<1>6. x \in getNeighbors(h, Founders) /\ y \in getNeighbors(h, Founders)
  BY <1>2, <1>3, <1>5 DEF getNeighbors, Place, Places
<1>7. CASE x \notin crashed
  <2>1. x = f \/ Place(x) # q
    BY PlaceInRing
  <2>2. x = f \/ Ahead(x, f) < Ahead(h, f)
    <3>1. Places \in Nat /\ p \in 0..(Places - 1) /\ q \in 0..(Places - 1)
      BY <1>1
    <3>2. CASE p + 1 < Places
      <4>1. Place(x) = p + 1
        BY <1>4, <3>2
      <4> QED BY <2>1, <3>1, <3>2, <4>1 DEF Ahead
    <3>3. CASE p + 1 = Places
      <4>1. Place(x) = 0
        BY <1>4, <3>1, <3>3
      <4> QED BY <2>1, <3>1, <3>3, <4>1 DEF Ahead
    <3> QED BY <3>1, <3>2, <3>3
  <2>3. x \in getNeighbors(h, Founders) \ crashed
    BY <1>6, <1>7
  <2> QED BY <2>2, <2>3
<1>8. CASE x \in crashed
  <2>1. Place(y) = (Place(x) + 1) % Places
    <3>1. Place(x) \in 0..(Places - 1)
      BY PlaceInRing
    <3>2. (Place(x) + 1) % Places = IF Place(x) + 1 < Places THEN Place(x) + 1 ELSE 0
      BY <1>1, <3>1, Around
    <3>3. Places \in Nat /\ p \in 0..(Places - 1) /\ Places > 2
      BY <1>1
    <3>4. CASE p + 2 < Places
      <4>1. Place(x) = p + 1 /\ Place(y) = p + 2
        BY <1>4, <3>3, <3>4
      <4> QED BY <3>2, <3>3, <3>4, <4>1
    <3>5. CASE p + 2 = Places
      <4>1. Place(x) = p + 1 /\ Place(y) = 0
        BY <1>4, <3>3, <3>5
      <4> QED BY <3>2, <3>3, <3>5, <4>1
    <3>6. CASE p + 1 = Places
      <4>1. Place(x) = 0 /\ Place(y) = 1
        BY <1>4, <3>3, <3>6
      <4> QED BY <3>2, <3>3, <4>1
    <3> QED BY <3>3, <3>4, <3>5, <3>6
  <2>2. y \notin crashed
    BY <1>8, <2>1 DEF NoGap, Place, Places
  <2>3. x # f /\ Place(x) # q /\ (y = f \/ Place(y) # q)
    BY <1>8, PlaceInRing
  <2>4. y = f \/ Ahead(y, f) < Ahead(h, f)
    BY <1>1, <1>4, <2>3 DEF Ahead
  <2> QED BY <1>6, <2>2, <2>4
<1> QED BY <1>7, <1>8
-----------------------------------------------------------------------------
(* A chat goes round *)

\* Who wrote a chat, or got it, has to do with it.
Has(n, c) == c \in seenChats[n] \/ sent[c] = n

ChatTo(n, x, c) == [type |-> "chat", from |-> n, to |-> x, chat |-> c]

\* Whoever has a chat has sent it to all of its neighbours, and who has not got it
\* from there yet will.
Relayed ==
  \A c \in 1..Len(sent) : \A n \in Founders : Has(n, c) =>
    \A x \in getNeighbors(n, Founders) : c \in seenChats[x] \/ ChatTo(n, x, c) \in net

\* As long as nobody was invited and nobody has left, there is nothing but chats
\* between founders, who all have each other on their lists.
Alone ==
  /\ inParty = Founders
  /\ \A n \in Founders : minList[n] = Founders
  /\ \A n \in Nodes \ Founders : minList[n] = {}
  /\ \A n \in Nodes : pending[n] = {} /\ accepting[n] = {}
  /\ \A m \in net : m.type = "chat" /\ m.from \in Founders /\ m.chat \in 1..Len(sent)
  /\ \A c \in 1..Len(sent) : sent[c] \in Founders
  /\ \A n \in Nodes : seenChats[n] \subseteq 1..Len(sent)

RoundInv == invites = 0 /\ left = <<>> => Alone /\ Relayed

\* As long as nobody has left, a step invites somebody, or changes neither the
\* invitations nor the departures.
LEMMA NobodyLeaves ==
  ASSUME TypeOK, [Next]_vars, left' = <<>>
  PROVE  /\ left = <<>> /\ invites \in Nat
         /\ \A n \in Nodes : ~SendDisconnect(n)
         /\ \/ invites' = invites + 1 /\ \E n, x \in Nodes : SendInvite(n, x)
            \/ invites' = invites /\ \A n, x \in Nodes : ~SendInvite(n, x)
<1>1. invites \in Nat
  BY BoundsAssumption DEF TypeOK
<1>2. ASSUME NEW n \in Nodes, NEW x \in Nodes, SendInvite(n, x)
      PROVE  invites' = invites + 1 /\ left' = left
  BY <1>2 DEF SendInvite
<1>3. ASSUME NEW n \in Nodes, SendDisconnect(n)
      PROVE  FALSE
  <2>1. left \in Seq(Nodes) /\ left' = Append(left, n)
    BY <1>3 DEF SendDisconnect, TypeOK
  <2>2. Len(left') = Len(left) + 1 /\ Len(left) \in Nat
    BY <2>1
  <2> QED BY <2>2
<1>4. ASSUME NEW n \in Nodes, AcceptAnnounce(n) \/ AcceptRegister(n) \/ SendChat(n) \/ Crash(n)
      PROVE  UNCHANGED <<invites, left>>
  BY <1>4 DEF AcceptAnnounce, AcceptRegister, SendChat, Crash, history
<1>5. ASSUME NEW m \in net, processInvite(m) \/ processParty(m)
      PROVE  UNCHANGED <<invites, left>>
  BY <1>5 DEF processInvite, processParty, InvalidParty, ProcessAnnounce,
              ProcessChat, ProcessDisconnect, history
<1>6. UNCHANGED vars => UNCHANGED <<invites, left>>
  BY DEF vars, history
<1>7. (\E n, x \in Nodes : SendInvite(n, x)) \/ UNCHANGED <<invites, left>>
  BY <1>3, <1>4, <1>5, <1>6 DEF Next, Recv, Command
<1>8. invites + 1 # invites
  BY <1>1
<1>9. left = <<>>
  BY <1>2, <1>7
<1> QED BY <1>1, <1>2, <1>3, <1>7, <1>8, <1>9

\* Nobody invited yet means nobody invited or gone before.
LEMMA AloneBefore ==
  ASSUME TypeOK, [Next]_vars, invites' = 0, left' = <<>>
  PROVE  /\ invites = 0 /\ left = <<>>
         /\ \A n, x \in Nodes : ~SendInvite(n, x) /\ ~SendDisconnect(n)
BY NobodyLeaves

\* What is sent to the neighbours when a chat is.
LEMMA ToNeighborsAre ==
  ASSUME NEW n, NEW c
  PROVE  /\ \A x \in getNeighbors(n, Founders) :
              ChatTo(n, x, c) \in ToNeighbors(n, Founders, "chat", c)
         /\ \A m \in ToNeighbors(n, Founders, "chat", c) :
              m.type = "chat" /\ m.from = n /\ m.chat = c
<1> DEFINE N == getNeighbors(n, Founders)
<1> HIDE DEF N
<1>1. ToNeighbors(n, Founders, "chat", c) =
        [type : {"chat"}, from : {n}, to : N, chat : {c}]
  BY DEF ToNeighbors, N
<1>2. \A x \in N : ChatTo(n, x, c) \in ToNeighbors(n, Founders, "chat", c)
  BY <1>1 DEF ChatTo
<1>3. ASSUME NEW m \in ToNeighbors(n, Founders, "chat", c)
      PROVE  m.type = "chat" /\ m.from = n /\ m.chat = c
  <2>1. m \in [type : {"chat"}, from : {n}, to : N, chat : {c}]
    BY <1>1
  <2> QED BY <2>1
<1> QED BY <1>2, <1>3 DEF N

\* A new chat goes to the neighbours of its author.
LEMMA RoundSendChat ==
  ASSUME TypeOK, Alone, Relayed, NEW n \in Nodes, SendChat(n)
  PROVE  Alone' /\ Relayed'
<1> DEFINE new == Len(sent) + 1
<1>1. /\ n \in Founders /\ minList[n] = Founders
      /\ net' = net \cup ToNeighbors(n, Founders, "chat", new)
      /\ sent' = Append(sent, n) /\ sent \in Seq(Nodes)
      /\ UNCHANGED <<inParty, minList, seenChats, pending, accepting>>
  BY DEF SendChat, partyVars, Alone, TypeOK
<1>2. /\ Len(sent) \in Nat /\ Len(sent') = new
      /\ \A c \in 1..Len(sent) : sent'[c] = sent[c]
      /\ sent'[new] = n
  BY <1>1
<1>3. \A c \in 1..Len(sent') : c \in 1..Len(sent) \/ c = new
  BY <1>2
<1>4. Alone'
  <2>1. \A m \in net' : m.type = "chat" /\ m.from \in Founders /\ m.chat \in 1..Len(sent')
    BY <1>1, <1>2, ToNeighborsAre DEF Alone
  <2>2. \A c \in 1..Len(sent') : sent'[c] \in Founders
    BY <1>1, <1>2, <1>3 DEF Alone
  <2>3. \A k \in Nodes : seenChats'[k] \subseteq 1..Len(sent')
    BY <1>1, <1>2 DEF Alone
  <2> QED BY <1>1, <2>1, <2>2, <2>3 DEF Alone
<1>5. ASSUME NEW c \in 1..Len(sent'), NEW k \in Founders, Has(k, c)',
             NEW x \in getNeighbors(k, Founders)
      PROVE  c \in seenChats'[x] \/ ChatTo(k, x, c) \in net'
  <2>1. CASE c \in 1..Len(sent)
    <3>1. Has(k, c)
      BY <1>1, <1>2, <1>5, <2>1 DEF Has
    <3> QED BY <1>1, <2>1, <3>1 DEF Relayed
  <2>2. CASE c = new
    <3>1. k \in Nodes /\ new \notin seenChats[k]
      BY <1>2, NodesAssumption DEF Alone
    <3>2. k = n
      BY <1>1, <1>2, <1>5, <2>2, <3>1 DEF Has
    <3> QED BY <1>1, <2>2, <3>2, ToNeighborsAre
  <2> QED BY <1>3, <2>1, <2>2
<1>6. Relayed'
  BY <1>5 DEF Relayed, ChatTo
<1> QED BY <1>4, <1>6

\* Who gets a chat for the first time passes it on to its neighbours.
LEMMA RoundChat ==
  ASSUME TypeOK, Alone, Relayed, NEW m \in net, ProcessChat(m)
  PROVE  Alone' /\ Relayed'
<1> DEFINE n == m.to
           d == m.chat
           out == ToNeighbors(n, Founders, "chat", d)
<1>1. /\ m.type = "chat" /\ m.from \in Founders /\ d \in 1..Len(sent)
      /\ n \in Founders /\ n \in Nodes /\ minList[n] = Founders
  BY NodesAssumption DEF Alone, ProcessChat
<1>2. /\ net \ {m} \subseteq net' /\ net' \subseteq net \cup out
      /\ d \notin seenChats[n] => out \subseteq net'
  BY <1>1 DEF ProcessChat, Receive
<1>3. /\ seenChats' = [seenChats EXCEPT ![n] = @ \cup {d}]
      /\ minList' = [minList EXCEPT ![n] = @ \cup {m.from}]
      /\ UNCHANGED <<inParty, pending, accepting, sent>>
  BY DEF ProcessChat, history
<1>4. /\ seenChats \in [Nodes -> SUBSET Chats] /\ minList \in [Nodes -> SUBSET Nodes]
      /\ Founders \subseteq Nodes
  BY NodesAssumption DEF TypeOK
<1>5. /\ \A k \in Nodes : seenChats[k] \subseteq seenChats'[k]
      /\ \A k \in Nodes : \A c \in seenChats'[k] : c \in seenChats[k] \/ (k = n /\ c = d)
      /\ d \in seenChats'[n]
  BY <1>1, <1>3, <1>4
<1>6. Alone'
  <2>1. /\ \A k \in Founders : minList'[k] = Founders
        /\ \A k \in Nodes \ Founders : minList'[k] = {}
    BY <1>1, <1>3, <1>4 DEF Alone
  <2>2. \A y \in net' : y.type = "chat" /\ y.from \in Founders /\ y.chat \in 1..Len(sent')
    BY <1>1, <1>2, <1>3, ToNeighborsAre DEF Alone
  <2>3. \A k \in Nodes : seenChats'[k] \subseteq 1..Len(sent')
    BY <1>1, <1>3, <1>5 DEF Alone
  <2> QED BY <1>3, <2>1, <2>2, <2>3 DEF Alone
<1>7. ASSUME NEW c \in 1..Len(sent'), NEW k \in Founders, Has(k, c)',
             NEW x \in getNeighbors(k, Founders)
      PROVE  c \in seenChats'[x] \/ ChatTo(k, x, c) \in net'
  <2>1. x \in Nodes /\ k \in Nodes /\ c \in 1..Len(sent)
    BY <1>3, <1>4, NeighborsListed
  <2>2. CASE Has(k, c)
    <3>1. c \in seenChats[x] \/ ChatTo(k, x, c) \in net
      BY <2>1, <2>2 DEF Relayed
    <3>2. CASE ChatTo(k, x, c) = m
      BY <1>5, <3>2 DEF ChatTo
    <3> QED BY <1>2, <1>5, <2>1, <3>1, <3>2
  <2>3. CASE ~Has(k, c)
    <3>1. k = n /\ c = d /\ d \notin seenChats[n]
      BY <1>3, <1>5, <1>7, <2>1, <2>3 DEF Has
    <3> QED BY <1>2, <3>1, ToNeighborsAre
  <2> QED BY <2>2, <2>3
<1>8. Relayed'
  BY <1>7 DEF Relayed, ChatTo
<1> QED BY <1>6, <1>8

\* What is received by who is not a founder was not for a neighbour of one.
LEMMA RoundInvalid ==
  ASSUME TypeOK, Alone, Relayed, NEW m \in net, InvalidParty(m)
  PROVE  Alone' /\ Relayed'
<1>1. /\ m.to \notin Founders
      /\ net \ {m} \subseteq net' /\ net' \subseteq net
      /\ UNCHANGED <<inParty, minList, seenChats, pending, accepting, sent>>
  BY DEF InvalidParty, Receive, partyVars, history, Alone
<1>2. Alone'
  BY <1>1 DEF Alone
<1>3. ASSUME NEW c \in 1..Len(sent), NEW k \in Founders, Has(k, c),
             NEW x \in getNeighbors(k, Founders)
      PROVE  c \in seenChats[x] \/ ChatTo(k, x, c) \in net'
  <2>1. ChatTo(k, x, c) # m
    BY <1>1, NeighborsListed DEF ChatTo
  <2> QED BY <1>1, <1>3, <2>1 DEF Relayed
<1>4. Relayed'
  BY <1>1, <1>3 DEF Relayed, Has, ChatTo
<1> QED BY <1>2, <1>4

\* Every step keeps the invariant.
LEMMA RoundNext == TypeOK /\ RoundInv /\ [Next]_vars => RoundInv'
<1> SUFFICES ASSUME TypeOK, RoundInv, [Next]_vars, invites' = 0, left' = <<>>
             PROVE  Alone' /\ Relayed'
  BY DEF RoundInv
<1>1. /\ Alone /\ Relayed
      /\ \A n, x \in Nodes : ~SendInvite(n, x) /\ ~SendDisconnect(n)
  BY AloneBefore DEF RoundInv
<1>2. ASSUME NEW n \in Nodes
      PROVE  ~AcceptAnnounce(n) /\ ~AcceptRegister(n)
  BY <1>1 DEF Alone, AcceptAnnounce, AcceptRegister
<1>3. ASSUME NEW n \in Nodes, SendChat(n)
      PROVE  Alone' /\ Relayed'
  BY <1>1, <1>3, RoundSendChat
<1>4. CASE UNCHANGED <<partyVars, pending, accepting, net, sent>>
  BY <1>1, <1>4 DEF Alone, Relayed, Has, ChatTo, partyVars
<1>5. ASSUME NEW n \in Nodes, Crash(n)
      PROVE  Alone' /\ Relayed'
  BY <1>4, <1>5 DEF Crash, history
<1>6. CASE UNCHANGED vars
  BY <1>4, <1>6 DEF vars, history
<1>7. ASSUME NEW m \in net
      PROVE  ~processInvite(m) /\ ~ProcessAnnounce(m) /\ ~ProcessDisconnect(m)
  BY <1>1 DEF Alone, processInvite, ProcessAnnounce, ProcessDisconnect
<1>8. ASSUME NEW m \in net, InvalidParty(m) \/ ProcessChat(m)
      PROVE  Alone' /\ Relayed'
  BY <1>1, <1>8, RoundInvalid, RoundChat
<1> QED BY <1>1, <1>2, <1>3, <1>5, <1>6, <1>7, <1>8 DEF Next, Recv, Command, processParty

\* At the start the founders are alone.
LEMMA RoundInit == Init => RoundInv
<1> SUFFICES ASSUME Init PROVE Alone /\ Relayed
  BY DEF RoundInv
<1>1. Len(sent) = 0 /\ Founders \subseteq Nodes
  BY NodesAssumption DEF Init
<1> QED BY <1>1 DEF Init, Alone, Relayed

\* Were there a founder without the chat, some member that has it would be the
\* closest before some such founder; but one of the neighbours to which it has
\* passed the chat on is closer.
LEMMA RoundIsFull ==
  ASSUME Alone, Relayed, NoGap, Places > 2,
         NEW c \in 1..Len(sent), ChatArrived(c), NEW g \in Founders \ crashed
  PROVE  c \in seenChats[g]
<1> DEFINE Lacking == {f \in Founders \ crashed : c \notin seenChats[f]}
           Ways == {Ahead(p[1], p[2]) : p \in {h \in Founders : Has(h, c)} \X Lacking}
<1>1. SUFFICES ASSUME g \in Lacking PROVE FALSE
  OBVIOUS
<1>2. \A h, f \in Founders : Ahead(h, f) \in Nat
  <2>1. ASSUME NEW h \in Founders, NEW f \in Founders
        PROVE  Ahead(h, f) \in Nat
    <3>1. Place(h) \in 0..(Places - 1) /\ Place(f) \in 0..(Places - 1) /\ Places \in Nat
      BY PlaceInRing, PlacesType
    <3> QED BY <3>1 DEF Ahead
  <2> QED BY <2>1
<1>3. sent[c] \in Founders /\ Has(sent[c], c)
  BY DEF Alone, Has
<1>4. Ways # {} /\ Ways \subseteq Nat
  <2>1. <<sent[c], g>> \in {h \in Founders : Has(h, c)} \X Lacking
    BY <1>1, <1>3
  <2> QED BY <1>2, <2>1
<1>5. PICK w \in Ways : \A v \in Ways : ~(<<v, w>> \in OpToRel(<, Nat))
  BY <1>4, WFMin, NatLessThanWellFounded
<1>6. PICK h \in Founders, f \in Lacking : Has(h, c) /\ w = Ahead(h, f)
  BY <1>5
<1>7. PICK x \in getNeighbors(h, Founders) \ crashed : x = f \/ Ahead(x, f) < Ahead(h, f)
  BY <1>6, Closer
<1>8. x \in Founders /\ c \in seenChats[x]
  <2>1. c \in seenChats[x] \/ ChatTo(h, x, c) \in net
    BY <1>6, <1>7 DEF Relayed
  <2>2. ChatTo(h, x, c) \notin net
    BY <1>7 DEF ChatArrived, ChatTo
  <2> QED BY <1>7, <2>1, <2>2, NeighborsListed
<1>9. x # f
  BY <1>8
<1>10. Ahead(x, f) \in Ways
  <2>1. <<x, f>> \in {k \in Founders : Has(k, c)} \X Lacking
    BY <1>8 DEF Has
  <2> QED BY <2>1
<1>11. <<Ahead(x, f), w>> \in OpToRel(<, Nat)
  BY <1>4, <1>5, <1>6, <1>7, <1>9, <1>10 DEF OpToRel
<1> QED BY <1>5, <1>10, <1>11

\* For any number of founders, in whatever order messages arrive and chats are
\* sent, and with any crashes that leave no gap of two in the ring: a chat of
\* which no copy is under way any more has reached every founder that is still
\* there, also the one that wrote it, although each passes it on to three
\* neighbours only.
THEOREM ChatsGoRound == Spec => []ChatGoesRound
<1>1. RoundInv => ChatGoesRound
  BY RoundIsFull DEF RoundInv, ChatGoesRound, Places
<1>2. PartyInv => TypeOK
  BY DEF PartyInv
<1> QED BY <1>1, <1>2, RoundInit, RoundNext, PartySafe, PTL DEF Spec-----------------------------------------------------------------------------
(* A joiner becomes known *)

AnnounceTo(n, y, x) == [type |-> "announce", from |-> n, to |-> y, peer |-> x]

Entering(x) == x \notin Founders /\ (accepting[x] # {} \/ x \in inParty)

\* The founders are on everybody's list, and x may be.
ListsWith(x) ==
  /\ Founders \subseteq inParty /\ inParty \subseteq Founders \cup {x}
  /\ \A n \in inParty : Founders \subseteq minList[n] /\ minList[n] \subseteq Founders \cup {x}
  /\ \A n \in Nodes \ inParty : minList[n] = {}

\* Only x can have been invited.
InvitedIs(x) ==
  \A n \in Nodes : \A L \in pending[n] \cup accepting[n] :
    n = x /\ x \notin Founders /\ L = Founders

\* Only x is announced, once it has accepted, and x chats only when it has
\* neighbours to chat with.
MessagesWith(x) ==
  \A m \in net :
    /\ m.from \in Founders \cup {x}
    /\ m.type # "disconnect"
    /\ m.type = "invite" => m.to = x /\ m.list = Founders
    /\ m.type = "announce" => m.peer = x /\ Entering(x)
    /\ m.type = "chat" /\ m.from = x => x \in minList[x]

\* Every founder has heard of x, or will hear from x itself.
Told(x) ==
  Entering(x) => \A f \in Founders : x \in minList[f] \/ AnnounceTo(x, f, x) \in net

\* The founders that have heard of x and have it for a neighbour told x, or x
\* heard of itself from another.
Answered(x) ==
  \A f \in Founders \ {x} :
    x \in minList[f] /\ x \in getNeighbors(f, Founders \cup {x}) =>
      x \in minList[x] \/ AnnounceTo(f, x, x) \in net

With(x) ==
  /\ ListsWith(x) /\ InvitedIs(x)
  /\ MessagesWith(x)
  /\ Told(x) /\ Answered(x)

\* After one invitation, one node may be about to join the founders.
JoinInv ==
  ~QuickEcho /\ left = <<>> /\ invites = 1 => \E x \in Nodes : With(x)

\* Announcements to the neighbours on a list.
LEMMA ToNeighborsTell ==
  ASSUME NEW n, NEW L, NEW x
  PROVE  /\ \A y \in getNeighbors(n, L) :
              AnnounceTo(n, y, x) \in ToNeighbors(n, L, "announce", x)
         /\ \A m \in ToNeighbors(n, L, "announce", x) :
              m.type = "announce" /\ m.from = n /\ m.peer = x
<1> DEFINE N == getNeighbors(n, L)
<1> HIDE DEF N
<1>1. ToNeighbors(n, L, "announce", x) =
        [type : {"announce"}, from : {n}, to : N, peer : {x}]
  BY DEF ToNeighbors, N
<1>2. \A y \in N : AnnounceTo(n, y, x) \in ToNeighbors(n, L, "announce", x)
  BY <1>1 DEF AnnounceTo
<1>3. ASSUME NEW m \in ToNeighbors(n, L, "announce", x)
      PROVE  m.type = "announce" /\ m.from = n /\ m.peer = x
  <2>1. m \in [type : {"announce"}, from : {n}, to : N, peer : {x}]
    BY <1>1
  <2> QED BY <2>1
<1> QED BY <1>2, <1>3 DEF N

\* Chats to the neighbours on a list, and to nobody from who is not on it.
LEMMA ToNeighborsSay ==
  ASSUME NEW n, NEW L, NEW c, NEW m \in ToNeighbors(n, L, "chat", c)
  PROVE  m.type = "chat" /\ m.from = n /\ n \in L
<1> DEFINE N == getNeighbors(n, L)
<1>1. m \in [type : {"chat"}, from : {n}, to : N, chat : {c}]
  BY DEF ToNeighbors
<1>2. N # {} => n \in L
  BY DEF getNeighbors
<1> HIDE DEF N
<1> QED BY <1>1, <1>2

\* The first invitation names the founders.
LEMMA JoinInvite ==
  ASSUME TypeOK, Alone, NEW n \in Nodes, NEW x \in Nodes, SendInvite(n, x)
  PROVE  With(x)'
<1>1. /\ Founders \subseteq Nodes /\ n \in Founders /\ minList[n] = Founders
      /\ net' = net \cup {[type |-> "invite", from |-> n, to |-> x, list |-> minList[n]]}
      /\ UNCHANGED <<inParty, minList, pending, accepting>>
  BY NodesAssumption DEF SendInvite, partyVars, Alone
<1>2. ListsWith(x)'
  BY <1>1 DEF Alone, ListsWith
<1>3. InvitedIs(x)'
  BY <1>1 DEF Alone, InvitedIs
<1>4. MessagesWith(x)'
  <2>1. ASSUME NEW m \in net
        PROVE  m.type = "chat" /\ m.from \in Founders
    BY DEF Alone
  <2>2. x \in Founders => x \in minList'[x]
    BY <1>1 DEF Alone
  <2> QED BY <1>1, <2>1, <2>2 DEF MessagesWith
<1>5. ~Entering(x)'
  BY <1>1 DEF Entering, Alone
<1>6. ASSUME NEW f \in Founders \ {x}, x \in minList'[f]
      PROVE  x \in minList'[x]
  BY <1>1, <1>6 DEF Alone
<1> QED BY <1>2, <1>3, <1>4, <1>5, <1>6 DEF With, Told, Answered

\* Who accepts tells all the founders.
LEMMA JoinAccept ==
  ASSUME TypeOK, NEW x \in Nodes, With(x), NEW n \in Nodes, AcceptAnnounce(n)
  PROVE  With(x)'
<1>1. PICK L \in pending[n] :
        /\ accepting' = [accepting EXCEPT ![n] = {L}]
        /\ net' = net \cup [type : {"announce"}, from : {n}, to : L \ {n}, peer : {n}]
  BY DEF AcceptAnnounce
<1>2. /\ n = x /\ x \notin Founders /\ L = Founders /\ x \notin inParty
      /\ pending' = [pending EXCEPT ![n] = {}]
      /\ UNCHANGED <<inParty, minList>>
  BY DEF With, InvitedIs, AcceptAnnounce, partyVars
<1> DEFINE out == [type : {"announce"}, from : {x}, to : Founders, peer : {x}]
<1>3. net' = net \cup out
  BY <1>1, <1>2
<1>4. ListsWith(x)'
  BY <1>2 DEF With, ListsWith
<1>5. accepting'[x] = {Founders}
  BY <1>1, <1>2 DEF TypeOK
<1>6. InvitedIs(x)'
  <2>1. \A k \in Nodes \ {x} : pending'[k] = pending[k] /\ accepting'[k] = accepting[k]
    BY <1>1, <1>2 DEF TypeOK
  <2>2. pending'[x] = {}
    BY <1>2 DEF TypeOK
  <2> QED BY <1>2, <1>5, <2>1, <2>2 DEF With, InvitedIs
<1>7. Entering(x)'
  BY <1>2, <1>5 DEF Entering
<1>8. \A m \in out : m.type = "announce" /\ m.from = x /\ m.peer = x
  OBVIOUS
<1>9. MessagesWith(x)'
  BY <1>2, <1>3, <1>7, <1>8 DEF With, MessagesWith
<1>10. Told(x)'
  <2>1. \A f \in Founders : AnnounceTo(x, f, x) \in out
    BY DEF AnnounceTo
  <2> QED BY <1>3, <2>1 DEF Told, AnnounceTo
<1>11. Answered(x)'
  BY <1>2, <1>3 DEF With, Answered, AnnounceTo
<1> QED BY <1>4, <1>6, <1>9, <1>10, <1>11 DEF With

\* Who enters the party has the founders' list, and is not on it.
LEMMA JoinRegister ==
  ASSUME TypeOK, AcceptingOutside, NEW x \in Nodes, With(x),
         NEW n \in Nodes, AcceptRegister(n)
  PROVE  With(x)'
<1>1. PICK L \in accepting[n] : minList' = [minList EXCEPT ![n] = L]
  BY DEF AcceptRegister
<1>2. /\ n = x /\ x \notin Founders /\ L = Founders
      /\ inParty' = inParty \cup {x}
      /\ accepting' = [accepting EXCEPT ![x] = {}]
      /\ UNCHANGED <<pending, net>>
  <2>1. n = x /\ x \notin Founders /\ L = Founders
    BY DEF With, InvitedIs
  <2> QED BY <2>1 DEF AcceptRegister
<1>3. /\ minList'[x] = Founders
      /\ \A k \in Nodes \ {x} : minList'[k] = minList[k] /\ accepting'[k] = accepting[k]
      /\ accepting'[x] = {}
  BY <1>1, <1>2 DEF TypeOK
<1>4. Entering(x) /\ Entering(x)'
  BY <1>2 DEF Entering, AcceptRegister
<1>5. ListsWith(x)'
  BY <1>2, <1>3, NodesAssumption DEF With, ListsWith, TypeOK
<1>6. InvitedIs(x)'
  BY <1>2, <1>3 DEF With, InvitedIs
<1>7. x \notin inParty /\ x \notin minList[x]
  BY <1>2 DEF With, ListsWith, AcceptingOutside, AcceptRegister
<1>8. MessagesWith(x)'
  BY <1>2, <1>4, <1>7 DEF With, MessagesWith
<1>9. Told(x)'
  <2>1. \A f \in Founders : f \in Nodes \ {x}
    BY <1>2, NodesAssumption
  <2> QED BY <1>2, <1>3, <1>4, <2>1 DEF With, Told, AnnounceTo
<1>10. Answered(x)'
  <2>1. \A f \in Founders : f \in Nodes \ {x}
    BY <1>2, NodesAssumption
  <2> QED BY <1>2, <1>3, <1>7, <2>1 DEF With, Answered, AnnounceTo
<1> QED BY <1>5, <1>6, <1>8, <1>9, <1>10 DEF With

\* Whoever chats has neighbours.
LEMMA JoinSendChat ==
  ASSUME TypeOK, NEW x \in Nodes, With(x), NEW n \in Nodes, SendChat(n)
  PROVE  With(x)'
<1> DEFINE out == ToNeighbors(n, minList[n], "chat", Len(sent) + 1)
<1>1. /\ n \in inParty /\ net' = net \cup out
      /\ UNCHANGED <<inParty, minList, pending, accepting>>
  BY DEF SendChat, partyVars
<1>2. \A m \in out : m.type = "chat" /\ m.from = n /\ n \in minList[n]
  BY ToNeighborsSay
<1>3. n \in Founders \cup {x}
  BY <1>1 DEF With, ListsWith
<1> HIDE DEF out
<1>4. MessagesWith(x)'
  BY <1>1, <1>2, <1>3 DEF With, MessagesWith, Entering
<1> QED BY <1>1, <1>4 DEF With, ListsWith, InvitedIs, Told, Answered, Entering, AnnounceTo

\* An invite becomes a pending one.
LEMMA JoinInvited ==
  ASSUME TypeOK, NEW x \in Nodes, With(x), NEW m \in net, processInvite(m)
  PROVE  With(x)'
<1>1. /\ m.type = "invite" /\ m.to = x /\ m.list = Founders
      /\ net \ {m} \subseteq net' /\ net' \subseteq net
      /\ pending' = IF pending[x] = {} /\ x \notin inParty
                      THEN [pending EXCEPT ![x] = {Founders}] ELSE pending
      /\ UNCHANGED <<inParty, minList, accepting>>
  BY DEF processInvite, Receive, partyVars, With, MessagesWith
<1>2. InvitedIs(x)'
  <2>1. CASE pending' = pending
    BY <1>1, <2>1 DEF With, InvitedIs
  <2>2. CASE pending' # pending
    <3>1. x \notin Founders
      BY <1>1, <2>2 DEF With, ListsWith
    <3>2. pending'[x] = {Founders} /\ \A k \in Nodes \ {x} : pending'[k] = pending[k]
      BY <1>1, <2>2 DEF TypeOK
    <3> QED BY <1>1, <3>1, <3>2 DEF With, InvitedIs
  <2> QED BY <2>1, <2>2
<1>3. \A f, y : AnnounceTo(f, y, x) # m
  BY <1>1 DEF AnnounceTo
<1>4. MessagesWith(x)'
  BY <1>1 DEF With, MessagesWith, Entering
<1>5. ListsWith(x)'
  BY <1>1 DEF With, ListsWith
<1>6. Told(x)'
  BY <1>1, <1>3 DEF With, Told, Entering, AnnounceTo
<1>7. Answered(x)'
  BY <1>1, <1>3 DEF With, Answered, AnnounceTo
<1> QED BY <1>2, <1>4, <1>5, <1>6, <1>7 DEF With

\* The messages that nobody reads are not announcements: the founders are in the
\* party, and the joiner, if it is not yet, does not read before it is.
LEMMA JoinInvalid ==
  ASSUME TypeOK, NEW x \in Nodes, With(x), ~QuickEcho, NEW m \in net, InvalidParty(m)
  PROVE  With(x)'
<1>1. /\ m.to \notin inParty /\ accepting[m.to] = {}
      /\ net \ {m} \subseteq net' /\ net' \subseteq net
      /\ UNCHANGED <<inParty, minList, pending, accepting>>
  BY DEF InvalidParty, Receive, partyVars
<1>2. m.type = "announce" => m.to \notin Founders \cup {x}
  BY <1>1 DEF With, ListsWith, MessagesWith, Entering
<1>3. \A f : \A y \in Founders \cup {x} : AnnounceTo(f, y, x) # m
  BY <1>2 DEF AnnounceTo
<1>4. MessagesWith(x)'
  BY <1>1 DEF With, MessagesWith, Entering
<1>5. ListsWith(x)' /\ InvitedIs(x)'
  BY <1>1 DEF With, ListsWith, InvitedIs
<1>6. Told(x)'
  BY <1>1, <1>3 DEF With, Told, Entering, AnnounceTo
<1>7. Answered(x)'
  BY <1>1, <1>3 DEF With, Answered, AnnounceTo
<1> QED BY <1>4, <1>5, <1>6, <1>7 DEF With

\* Whoever reads an announcement lists the joiner, and tells it so when it is a
\* neighbour.
LEMMA JoinAnnounced ==
  ASSUME TypeOK, NEW x \in Nodes, With(x), NEW m \in net, ProcessAnnounce(m)
  PROVE  With(x)'
<1> DEFINE n == m.to
           L == minList[n] \cup {x}
           out == ToNeighbors(n, L, "announce", x)
<1>1. /\ m.type = "announce" /\ m.peer = x /\ m.from \in Founders \cup {x}
      /\ Entering(x) /\ n \in inParty /\ n \in Nodes
  BY DEF ProcessAnnounce, With, MessagesWith, TypeOK
<1>2. /\ net \ {m} \subseteq net' /\ net' \subseteq net \cup out
      /\ x \notin minList[n] => out \subseteq net'
      /\ minList' = [minList EXCEPT ![n] = L \cup {m.from}]
      /\ UNCHANGED <<inParty, pending, accepting>>
  BY <1>1 DEF ProcessAnnounce, Receive
<1>3. /\ minList'[n] = L \cup {m.from} /\ x \in minList'[n]
      /\ \A k \in Nodes \ {n} : minList'[k] = minList[k]
  BY <1>1, <1>2 DEF TypeOK
<1>4. /\ \A y \in getNeighbors(n, L) : AnnounceTo(n, y, x) \in out
      /\ \A y \in out : y.type = "announce" /\ y.from = n /\ y.peer = x
  BY ToNeighborsTell
<1>5. /\ n \in Founders \cup {x} /\ Founders \subseteq Nodes
      /\ Founders \subseteq minList[n] /\ minList[n] \subseteq Founders \cup {x}
  BY <1>1, NodesAssumption DEF With, ListsWith
<1> HIDE DEF out
<1>6. ListsWith(x)'
  <2>1. \A k \in inParty : Founders \subseteq minList'[k] /\ minList'[k] \subseteq Founders \cup {x}
    BY <1>1, <1>3, <1>5 DEF With, ListsWith, TypeOK
  <2>2. \A k \in Nodes \ inParty : minList'[k] = {}
    BY <1>1, <1>3 DEF With, ListsWith
  <2> QED BY <1>2, <2>1, <2>2 DEF With, ListsWith
<1>7. InvitedIs(x)'
  BY <1>2 DEF With, InvitedIs
<1>8. x \in minList[x] => x \in minList'[x]
  BY <1>3
<1>9. MessagesWith(x)'
  BY <1>1, <1>2, <1>4, <1>5, <1>8 DEF With, MessagesWith, Entering
<1>10. Told(x)'
  <2>1. ASSUME NEW f \in Founders
        PROVE  x \in minList'[f] \/ AnnounceTo(x, f, x) \in net'
    <3>1. x \in minList[f] \/ AnnounceTo(x, f, x) \in net
      BY <1>1 DEF With, Told
    <3>2. AnnounceTo(x, f, x) = m => n = f
      BY DEF AnnounceTo
    <3>3. f \in Nodes
      BY <1>5
    <3> QED BY <1>2, <1>3, <3>1, <3>2, <3>3
  <2> QED BY <2>1 DEF Told, AnnounceTo
<1>11. Answered(x)'
  <2>1. ASSUME NEW f \in Founders \ {x}, x \in minList'[f],
               x \in getNeighbors(f, Founders \cup {x}), x \notin minList'[x]
        PROVE  AnnounceTo(f, x, x) \in net'
    <3>1. n # x /\ f \in Nodes /\ x \notin minList[x]
      BY <1>3, <1>5, <1>8, <2>1
    <3>2. AnnounceTo(f, x, x) # m
      BY <3>1 DEF AnnounceTo
    <3>3. CASE x \in minList[f]
      BY <1>2, <2>1, <3>1, <3>2, <3>3 DEF With, Answered
    <3>4. CASE x \notin minList[f]
      <4>1. f = n
        BY <1>3, <2>1, <3>1, <3>4
      <4>2. L = Founders \cup {x}
        BY <1>5, <3>4, <4>1
      <4> QED BY <1>2, <1>4, <2>1, <3>4, <4>1, <4>2
    <3> QED BY <3>3, <3>4
  <2> QED BY <2>1 DEF Answered, AnnounceTo
<1> QED BY <1>6, <1>7, <1>9, <1>10, <1>11 DEF With

\* Whoever reads a chat lists its bearer: if that is the joiner, it has heard of
\* itself.
LEMMA JoinChat ==
  ASSUME TypeOK, NEW x \in Nodes, With(x), NEW m \in net, ProcessChat(m)
  PROVE  With(x)'
<1> DEFINE n == m.to
           out == ToNeighbors(n, minList[n], "chat", m.chat)
<1>1. /\ m.type = "chat" /\ m.from \in Founders \cup {x}
      /\ m.from = x => x \in minList[x]
      /\ n \in inParty /\ n \in Nodes
  BY DEF ProcessChat, With, MessagesWith, TypeOK
<1>2. /\ net \ {m} \subseteq net' /\ net' \subseteq net \cup out
      /\ minList' = [minList EXCEPT ![n] = @ \cup {m.from}]
      /\ UNCHANGED <<inParty, pending, accepting>>
  BY <1>1 DEF ProcessChat, Receive
<1>3. /\ minList'[n] = minList[n] \cup {m.from}
      /\ \A k \in Nodes \ {n} : minList'[k] = minList[k]
  BY <1>1, <1>2 DEF TypeOK
<1>4. \A y \in out : y.type = "chat" /\ y.from = n /\ n \in minList[n]
  BY ToNeighborsSay
<1>5. /\ n \in Founders \cup {x} /\ Founders \subseteq Nodes
  BY <1>1, NodesAssumption DEF With, ListsWith
<1> HIDE DEF out
<1>6. ListsWith(x)'
  <2>1. \A k \in inParty : Founders \subseteq minList'[k] /\ minList'[k] \subseteq Founders \cup {x}
    BY <1>1, <1>3 DEF With, ListsWith, TypeOK
  <2>2. \A k \in Nodes \ inParty : minList'[k] = {}
    BY <1>1, <1>3 DEF With, ListsWith
  <2> QED BY <1>2, <2>1, <2>2 DEF With, ListsWith
<1>7. InvitedIs(x)'
  BY <1>2 DEF With, InvitedIs
<1>8. x \in minList[x] => x \in minList'[x]
  BY <1>3
<1>9. MessagesWith(x)'
  BY <1>2, <1>4, <1>5, <1>8 DEF With, MessagesWith, Entering
<1>10. \A f, y : AnnounceTo(f, y, x) # m
  BY <1>1 DEF AnnounceTo
<1>11. Told(x)'
  <2>1. \A f \in Founders : x \in minList[f] => x \in minList'[f]
    BY <1>3, <1>5
  <2> QED BY <1>2, <1>10, <2>1 DEF With, Told, Entering, AnnounceTo
<1>12. Answered(x)'
  <2>1. ASSUME NEW f \in Founders \ {x}, x \in minList'[f], x \notin minList'[x]
        PROVE  x \in minList[f]
    BY <1>1, <1>3, <1>5, <1>8, <2>1
  <2> QED BY <1>2, <1>8, <1>10, <2>1 DEF With, Answered, AnnounceTo
<1> QED BY <1>6, <1>7, <1>9, <1>11, <1>12 DEF With

\* Every step after the first invitation keeps what is said of who is joining.
LEMMA JoinStep ==
  ASSUME TypeOK, AcceptingOutside, ~QuickEcho, NEW x \in Nodes, With(x),
         [Next]_vars, left' = <<>>, invites' = invites
  PROVE  With(x)'
<1>1. \A n, y \in Nodes : ~SendDisconnect(n) /\ ~SendInvite(n, y)
  BY NobodyLeaves
<1>2. UNCHANGED <<inParty, minList, pending, accepting, net>> => With(x)'
  BY DEF With, ListsWith, InvitedIs, MessagesWith, Told, Answered, Entering, AnnounceTo
<1>3. \A n \in Nodes : Crash(n) => With(x)'
  BY <1>2 DEF Crash, partyVars
<1>4. UNCHANGED vars => With(x)'
  BY <1>2 DEF vars, partyVars
<1>5. ASSUME NEW n \in Nodes, AcceptAnnounce(n) \/ AcceptRegister(n) \/ SendChat(n)
      PROVE  With(x)'
  BY <1>5, JoinAccept, JoinRegister, JoinSendChat
<1>6. ASSUME NEW m \in net, processInvite(m) \/ processParty(m)
      PROVE  With(x)'
  <2>1. ~ProcessDisconnect(m)
    BY DEF ProcessDisconnect, With, MessagesWith
  <2> QED
    BY <1>6, <2>1, JoinInvited, JoinInvalid, JoinAnnounced, JoinChat DEF processParty
<1> QED BY <1>1, <1>3, <1>4, <1>5, <1>6 DEF Next, Recv, Command

\* Every step keeps the invariant.
LEMMA JoinNext == PartyInv /\ RoundInv /\ JoinInv /\ [Next]_vars => JoinInv'
<1> SUFFICES ASSUME PartyInv, RoundInv, JoinInv, [Next]_vars,
                    ~QuickEcho, left' = <<>>, invites' = 1
             PROVE  \E x \in Nodes : With(x)'
  BY DEF JoinInv, With, ListsWith, InvitedIs, MessagesWith, Told, Answered,
         Entering, AnnounceTo
<1>1. /\ left = <<>> /\ invites \in Nat
      /\ \/ invites' = invites + 1 /\ \E n, x \in Nodes : SendInvite(n, x)
         \/ invites' = invites
  BY NobodyLeaves DEF PartyInv
<1>2. CASE invites' = invites
  <2>1. PICK x \in Nodes : With(x)
    BY <1>1, <1>2 DEF JoinInv
  <2> QED BY <1>2, <2>1, JoinStep DEF PartyInv
<1>3. CASE invites' = invites + 1
  <2>1. invites = 0
    BY <1>1, <1>3
  <2>2. PICK n \in Nodes, x \in Nodes : SendInvite(n, x)
    BY <1>1, <1>3
  <2> QED BY <1>1, <2>1, <2>2, JoinInvite DEF PartyInv, RoundInv
<1> QED BY <1>1, <1>2, <1>3

\* Nobody has been invited at the start.
LEMMA JoinInit == Init => JoinInv
BY DEF Init, JoinInv

\* When the announcements of a joiner have stopped going round, the founders have
\* heard of it, and it has heard of itself from a neighbour that is still there.
LEMMA JoinedIsKnown ==
  ASSUME NEW x \in Nodes, With(x), NEW y \in inParty \ crashed, AnnounceArrived(y)
  PROVE  /\ \A f \in (Founders \cap inParty) \ (crashed \cup {y}) : y \in minList[f]
         /\ (\E f \in Founders \ (crashed \cup {y}) :
               y \in getNeighbors(f, Founders \cup {y}))
              => y \in minList[y]
<1>1. CASE y \in Founders
  BY <1>1 DEF With, ListsWith
<1>2. CASE y \notin Founders
  <2>1. y = x /\ Entering(x)
    BY <1>2 DEF With, ListsWith, Entering
  <2>2. \A f : \A z \in (Founders \cup {x}) \ crashed : AnnounceTo(f, z, x) \notin net
    BY <2>1 DEF AnnounceArrived, AnnounceTo
  <2>3. \A f \in Founders \ crashed : x \in minList[f]
    BY <2>1, <2>2 DEF With, Told
  <2>4. ASSUME NEW f \in Founders \ (crashed \cup {x}), x \in getNeighbors(f, Founders \cup {x})
        PROVE  x \in minList[x]
    BY <2>1, <2>2, <2>3, <2>4 DEF With, Answered
  <2> QED BY <2>1, <2>3, <2>4
<1> QED BY <1>1, <1>2

\* For any number of founders, in whatever order messages arrive, with chats and
\* crashes at any time: when the first announcements of a joiner have stopped
\* going round, it is on the list of every founder that is still there, and, if
\* one that has it for a neighbour is, on its own, without which it could not
\* send anything to the party.
THEOREM JoinsGoRound == Spec => []JoinGoesRound
<1>1. RoundInv /\ JoinInv /\ PartyInv => JoinGoesRound
  <2> SUFFICES ASSUME RoundInv, JoinInv, PartyInv, ~QuickEcho, invites <= 1, left = <<>>,
                      NEW y \in inParty \ crashed, AnnounceArrived(y)
               PROVE  /\ \A f \in (Founders \cap inParty) \ (crashed \cup {y}) : y \in minList[f]
                      /\ (\E f \in Founders \ (crashed \cup {y}) :
                            y \in getNeighbors(f, Founders \cup {y}))
                           => y \in minList[y]
    BY DEF JoinGoesRound
  <2>1. invites = 0 \/ invites = 1
    BY BoundsAssumption DEF PartyInv, TypeOK
  <2>2. invites = 0 => y \in Founders /\ \A f \in Founders : y \in minList[f]
    BY DEF RoundInv, Alone
  <2>3. invites = 1 => \E x \in Nodes : With(x)
    BY DEF JoinInv
  <2> QED BY <2>1, <2>2, <2>3, JoinedIsKnown
<1>2. PartyInv => TypeOK
  BY DEF PartyInv
<1> QED
  BY <1>1, <1>2, RoundInit, RoundNext, JoinInit, JoinNext, PartySafe, PTL DEF Spec
=============================================================================
