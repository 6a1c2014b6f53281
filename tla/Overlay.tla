------------------------------ MODULE Overlay -------------------------------
(***************************************************************************)
(* The main line: nodes that find each other and flood chats               *)
(* (white-box/processors.go, white-box/senders.go, white-box/kad.go).      *)
(*                                                                         *)
(* A node joins those that a contact of it knows:                          *)
(*                                                                         *)
(*   joiner    bootstrap ------------------> contact                       *)
(*             <------------------- verifybs                               *)
(*             announce -------------------> flooded to all                *)
(*             request --------------------> contact, then those suggested *)
(*             <---------------- suggestions                               *)
(*                                                                         *)
(* What a handler does is one step, up to a cache entry that it has read   *)
(* and writes back: SendPings may come in between.  (PeerTable takes the   *)
(* handlers apart.)  Messages are delivered in any order, and, in a        *)
(* situation that is lossy, not at all or more than once.                  *)
(***************************************************************************)
EXTENDS Integers, Sequences, FiniteSets

CONSTANTS
  Nodes,         \* ids: numbers of BITS bits
  BITS,          \* 256
  BucketSize,    \* 20
  BitXor(_, _),  \* bitwise exclusive or
  Situations     \* bound: who joins, by which contact, whom else there is,
                 \* whether the network is lossy, and how many commands the
                 \* users give, the joiner's bootstrap aside

Situation ==
  [joiner : Nodes, contact : Nodes, others : SUBSET Nodes, lossy : BOOLEAN,
   commands : Nat]

Present(s)   == {s.contact} \cup s.others
Everybody(s) == Present(s) \cup {s.joiner}

ASSUME SituationAssumption == Situations \subseteq Situation

ASSUME IdsAssumption ==
  /\ BITS \in Nat \ {0} /\ Nodes \subseteq 0..(2^BITS - 1)
  /\ \A x, y \in Nodes : BitXor(x, y) \in Nat /\ (BitXor(x, y) = 0 <=> x = y)

Kinds == {"bootstrap", "verifybs", "announce", "request", "suggestions", "chat",
          "disconnect", "ping", "pulse"}

\* What is signed, whom it is for (for a flood, its author: nobody looks), and
\* the peers that are suggested.
Envelope ==
  [kind : Kinds, from : Nodes, to : Nodes, time : Nat, peers : SUBSET Nodes]

\* An envelope on its way, over one hop.
Packet == [env : Envelope, via : Nodes, dst : Nodes]

\* A PeerCache, and whether there is one.
Cache == [seen : BOOLEAN, added : BOOLEAN, announced : BOOLEAN,
          disconnected : BOOLEAN, time : Nat]
NoCache == [seen |-> FALSE, added |-> FALSE, announced |-> FALSE,
            disconnected |-> FALSE, time |-> 0]

\* What a handler is about to write to the cache.
WriteBacks == [peer : Nodes, entry : Cache]

VARIABLES
  sit,        \* the situation
  up,         \* nodes that run
  clock,      \* the time of the last message of each node
  table,      \* PeerTable: the peers of each node
  cache,      \* PeerCache
  copy,       \* what each node's handler has read of it and will write back
  NoReroute,  \* the routed messages that each node has passed on
  SeenChats,
  chatLog,    \* the chats that each node has shown
  net,        \* packets under way
  sent,       \* history: the chats that were sent
  stale,      \* history: who has taken whom for gone
  joined,     \* has the joiner typed /bs?
  left        \* bound: commands that are left

vars == <<sit, up, clock, table, cache, copy, NoReroute, SeenChats, chatLog, net,
          sent, stale, joined, left>>

-----------------------------------------------------------------------------
(* Distances: the peers of a node are kept in buckets, around its ideal ids *)

Ids     == 0..(2^BITS - 1)
Buckets == 0..(BITS - 1)

Distance == [x \in Ids |-> [y \in Ids |-> BitXor(x, y)]]

calculateIdealTable == [n \in Ids |-> [i \in Buckets |-> BitXor(n, 2^i)]]

\* The ideal id that is nearest to x, and the first such.
closestIndex ==
  [n \in Ids |-> [x \in Ids |->
     CHOOSE i \in Buckets :
       \A j \in Buckets :
         LET di == Distance[calculateIdealTable[n][i]][x]
             dj == Distance[calculateIdealTable[n][j]][x]
         IN  di < dj \/ (di = dj /\ i <= j)]]

\* The distance of x to that ideal, by which a bucket is sorted.
IdealDistance ==
  [n \in Ids |-> [x \in Ids |-> Distance[calculateIdealTable[n][closestIndex[n][x]]][x]]]

\* Those of T that are in the bucket of n in which x would be.
Bucket(n, T, x) == {p \in T : closestIndex[n][p] = closestIndex[n][x]}

\* The k of them that are nearest to x; other buckets are not looked into.
findClosestN(n, x, k) ==
  LET B == Bucket(n, table[n], x)
  IN  {p \in B : Cardinality({q \in B : Distance[q][x] < Distance[p][x]}) < k}

\* Mistake: those that are nearest to the node itself.
RouteNearSelf(n, to) == {p \in findClosestN(n, n, 3) : Distance[p][to] < Distance[n][to]}

\* Where a routed message is sent: to peers that are nearer than the node.
route(n, to) == {p \in findClosestN(n, to, 3) : Distance[p][to] < Distance[n][to]}

\* Who is suggested to peer p.
Suggested(n, p) ==
  (UNION {findClosestN(n, calculateIdealTable[p][i], 1) : i \in Buckets}) \ {p}

\* With peers T, is there room for p in its bucket, or is it nearer than the last?
wouldAddPeer(n, T, p) ==
  LET B == Bucket(n, T, p)
  IN  Cardinality(B) < BucketSize \/ \E q \in B : IdealDistance[n][p] < IdealDistance[n][q]

\* The peers that are first in their buckets.
Fronts(n) ==
  {p \in table[n] :
     \A q \in Bucket(n, table[n], p) : IdealDistance[n][p] <= IdealDistance[n][q]}

-----------------------------------------------------------------------------
(* Sending and receiving *)

Packets(env, n, D) == {[env |-> env, via |-> n, dst |-> d] : d \in D}

\* n's next message, or the k-th from now.
Signed(kind, n, k, to, P) ==
  [kind |-> kind, from |-> n, to |-> to, time |-> clock[n] + k, peers |-> P]

\* Bound: the kinds that a lossy network repeats.  The others are answered each
\* time, with messages of a new time.
Repeated == {"announce", "chat", "disconnect"}

\* The network when packet m has been received.
Remaining(m) == IF sit.lossy /\ m.env.kind \in Repeated THEN net ELSE net \ {m}

\* Recv has nothing left to do of the message before.
Arrives(m, kind) ==
  m \in net /\ m.env.kind = kind /\ m.dst \in up /\ copy[m.dst] = {}

Ticks(n, k) == clock' = [clock EXCEPT ![n] = @ + k]

-----------------------------------------------------------------------------
(* Joining *)

Reconnecting(c, t) == c.disconnected /\ t > c.time

\* Would a message of time t have its author added?
IsNews(c, t) == ~c.seen \/ ~c.added \/ Reconnecting(c, t)

\* Mistake: the mark of a departure is left.
MetAgain(c, t) ==
  IF IsNews(c, t) THEN [c EXCEPT !.seen = TRUE, !.added = TRUE, !.time = t] ELSE c

\* addPeer, if it is called.
Met(c, t) ==
  IF IsNews(c, t)
    THEN [c EXCEPT !.seen = TRUE, !.added = TRUE, !.disconnected = FALSE, !.time = t]
  ELSE c

\* The table of n, after a message of p of time t.
Meeting(n, p, t) == IF IsNews(cache[n][p], t) THEN table[n] \cup {p} ELSE table[n]

Meet(n, p, t) ==
  /\ table' = [table EXCEPT ![n] = Meeting(n, p, t)]
  /\ cache' = [cache EXCEPT ![n][p] = Met(@, t)]

processBootstrap(m) ==
  LET n == m.dst
      p == m.env.from
  IN  /\ Arrives(m, "bootstrap")
      /\ Meet(n, p, m.env.time)
      /\ Ticks(n, 1)
      /\ net' = Remaining(m) \cup Packets(Signed("verifybs", n, 1, p, {}), n, {p})
      /\ UNCHANGED <<sit, up, copy, NoReroute, SeenChats, chatLog, sent, stale, joined, left>>

processVerify(m) ==
  LET n == m.dst
      p == m.env.from
  IN  /\ Arrives(m, "verifybs")
      /\ Meet(n, p, m.env.time)
      /\ Ticks(n, 2)
      /\ net' = Remaining(m) \cup Packets(Signed("announce", n, 1, n, {}), n, {p})
                             \cup Packets(Signed("request", n, 2, p, {}), n, {p})
      /\ UNCHANGED <<sit, up, copy, NoReroute, SeenChats, chatLog, sent, stale, joined, left>>

\* Mistake: an announcement is passed on only by those that did not know its
\* author.
IsNewsOnly(c, t) == IsNews(c, t)

\* Is an announcement passed on?
Floods(c, t) == ~c.seen \/ ~c.announced \/ Reconnecting(c, t)

\* Mistake: it is not marked as such.
AnnouncedForgotten(c) == c

\* The cache entry that is written back after it.
Announced(c) == [c EXCEPT !.seen = TRUE, !.announced = TRUE]

processAnnounce(m) ==
  LET n == m.dst
      p == m.env.from
      c == cache[n][p]
      t == m.env.time
      T == Meeting(n, p, t)
  IN  /\ Arrives(m, "announce")
      /\ IF p = n
           THEN net' = Remaining(m) /\ UNCHANGED <<table, cache, copy>>
         ELSE /\ Meet(n, p, t)
              /\ IF Floods(c, t)
                   THEN /\ net' = Remaining(m) \cup Packets(m.env, n, T)
                        /\ copy' = [copy EXCEPT ![n] =
                                      {[peer |-> p, entry |-> Announced(Met(c, t))]}]
                 ELSE net' = Remaining(m) /\ UNCHANGED copy
      /\ UNCHANGED <<sit, up, clock, NoReroute, SeenChats, chatLog, sent, stale, joined, left>>

processSuggestionRequest(m) ==
  LET n == m.dst
      p == m.env.from
  IN  /\ Arrives(m, "request")
      /\ Meet(n, p, m.env.time)
      /\ Ticks(n, 1)
      /\ net' = Remaining(m) \cup
                  Packets(Signed("suggestions", n, 1, p, Suggested(n, p)), n, {p})
      /\ UNCHANGED <<sit, up, copy, NoReroute, SeenChats, chatLog, sent, stale, joined, left>>

\* Those that were suggested and are not in the cache yet are asked in turn.
\* Their requests have one time here: each goes to somebody else.
processSuggestions(m) ==
  LET n == m.dst
      p == m.env.from
      T == Meeting(n, p, m.env.time)
      Asked == {q \in m.env.peers \ {p} : ~cache[n][q].seen /\ wouldAddPeer(n, T, q)}
  IN  /\ Arrives(m, "suggestions")
      /\ Meet(n, p, m.env.time)
      /\ Ticks(n, IF Asked = {} THEN 0 ELSE 1)
      /\ net' = Remaining(m) \cup
                  UNION {Packets(Signed("request", n, 1, q, {}), n, {q}) : q \in Asked}
      /\ UNCHANGED <<sit, up, copy, NoReroute, SeenChats, chatLog, sent, stale, joined, left>>

-----------------------------------------------------------------------------
(* Chats, departures, pings *)

\* cacheMin, up to the Set.
CacheMin(n, p) ==
  copy' = [copy EXCEPT ![n] = {[peer |-> p, entry |-> [cache[n][p] EXCEPT !.seen = TRUE]]}]

\* The Set of cacheMin and of processAnnounce, whatever the entry is by then.
WriteBack(n) ==
  /\ n \in up
  /\ \E w \in copy[n] : cache' = [cache EXCEPT ![n][w.peer] = w.entry]
  /\ copy' = [copy EXCEPT ![n] = {}]
  /\ UNCHANGED <<sit, up, clock, table, NoReroute, SeenChats, chatLog, net, sent,
                 stale, joined, left>>

\* Mistake: a chat is not put down as seen.
Unmarked(n, c) == SeenChats[n]

Marked(n, c) == SeenChats[n] \cup {c}

\* Mistake: a chat is not sent back to where it comes from.
PassedAhead(m) == table[m.dst] \ {m.via, m.env.from}

\* To whom a chat is passed on.
PassedOn(m) == table[m.dst]

processChat(m) ==
  LET n == m.dst
      p == m.env.from
      c == <<p, m.env.time>>
  IN  /\ Arrives(m, "chat")
      /\ IF c \in SeenChats[n]
           THEN net' = Remaining(m) /\ UNCHANGED <<SeenChats, chatLog>>
         ELSE /\ chatLog' = [chatLog EXCEPT ![n] = Append(@, c)]
              /\ net' = Remaining(m) \cup Packets(m.env, n, PassedOn(m))
              /\ SeenChats' = [SeenChats EXCEPT ![n] = Marked(n, c)]
      /\ CacheMin(n, p)
      /\ UNCHANGED <<sit, up, clock, table, cache, NoReroute, sent, stale, joined, left>>

processDisconnect(m) ==
  LET n == m.dst
      p == m.env.from
      c == cache[n][p]
      T == table[n] \ {p}
  IN  /\ Arrives(m, "disconnect")
      /\ table' = [table EXCEPT ![n] = T]
      /\ IF ~c.seen \/ ~c.disconnected
           THEN /\ cache' = [cache EXCEPT ![n][p] =
                               [c EXCEPT !.seen = TRUE, !.disconnected = TRUE]]
                /\ net' = Remaining(m) \cup Packets(m.env, n, T)
         ELSE net' = Remaining(m) /\ UNCHANGED cache
      /\ UNCHANGED <<sit, up, clock, copy, NoReroute, SeenChats, chatLog, sent, stale, joined, left>>

\* sendPulse: the answer is routed.
processPing(m) ==
  LET n == m.dst
      p == m.env.from
  IN  /\ Arrives(m, "ping")
      /\ net' = Remaining(m) \cup Packets(Signed("pulse", n, 1, p, {}), n, route(n, p))
      /\ Ticks(n, 1)
      /\ UNCHANGED <<sit, up, table, cache, copy, NoReroute, SeenChats, chatLog, sent,
                     stale, joined, left>>

\* A routed message for another node is passed on if it is in NoReroute, and put
\* there then; otherwise it is dropped.  If it is for this node, refreshPeer: the
\* entry of its author is not stale, which is not kept here (see SendPings).
\* NoReroute has times; no two messages are of the same time.
processPulse(m) ==
  LET n  == m.dst
      id == <<m.env.from, m.env.time>>
  IN  /\ Arrives(m, "pulse")
      /\ IF m.env.to # n /\ id \in NoReroute[n]
           THEN /\ net' = Remaining(m) \cup Packets(m.env, n, route(n, m.env.to))
                /\ NoReroute' = [NoReroute EXCEPT ![n] = @ \cup {id}]
         ELSE net' = Remaining(m) /\ UNCHANGED NoReroute
      /\ UNCHANGED <<sit, up, clock, table, cache, copy, SeenChats, chatLog, sent, stale, joined, left>>

\* A datagram is lost, or its addressee has gone.
Lose(m) ==
  /\ m \in net /\ (sit.lossy \/ m.dst \notin up)
  /\ net' = net \ {m}
  /\ UNCHANGED <<sit, up, clock, table, cache, copy, NoReroute, SeenChats, chatLog, sent,
                 stale, joined, left>>

Deliver ==
  \/ \E m \in net :
       \/ processBootstrap(m) \/ processVerify(m) \/ processAnnounce(m)
       \/ processSuggestionRequest(m) \/ processSuggestions(m) \/ processChat(m)
       \/ processDisconnect(m) \/ processPing(m) \/ processPulse(m)
       \/ Lose(m)
  \/ \E n \in Nodes : WriteBack(n)

-----------------------------------------------------------------------------
(* Commands, and the ping loop *)

\* The joiner's first command; so that there is one joiner, nobody else's.  No
\* code looks whether the contact is a peer already, or the joiner itself.
SendBootstrap ==
  LET n == sit.joiner
  IN  /\ n \in up /\ ~joined
      /\ joined' = TRUE
      /\ net' = net \cup Packets(Signed("bootstrap", n, 1, sit.contact, {}), n, {sit.contact})
      /\ Ticks(n, 1)
      /\ UNCHANGED <<sit, up, table, cache, copy, NoReroute, SeenChats, chatLog, sent,
                     stale, left>>

\* One of the commands that are left.
Uses(n) == n \in up /\ left > 0 /\ left' = left - 1

\* Not even shown to its author, until it comes back.
SendChat(n) ==
  /\ Uses(n) /\ table[n] # {}
  /\ net' = net \cup Packets(Signed("chat", n, 1, n, {}), n, Fronts(n))
  /\ sent' = sent \cup {<<n, clock[n] + 1>>}
  /\ Ticks(n, 1)
  /\ UNCHANGED <<sit, up, table, cache, copy, NoReroute, SeenChats, chatLog, stale,
                 joined>>

\* /quit
SendDisconnect(n) ==
  /\ Uses(n)
  /\ net' = net \cup Packets(Signed("disconnect", n, 1, n, {}), n, table[n])
  /\ up' = up \ {n}
  /\ Ticks(n, 1)
  /\ UNCHANGED <<sit, table, cache, copy, NoReroute, SeenChats, chatLog, sent, stale,
                 joined>>

\* A turn of SendPings.  S are the peers of whom no pulse has come for sixty
\* seconds: any, since pulses may be late.  A write-back of the entry of one of
\* them that is due comes after this, or was overwritten by it: removeStalePeers,
\* too, reads an entry before it writes it.
SendPings(n, S) ==
  /\ Uses(n) /\ table[n] # {}
  /\ table' = [table EXCEPT ![n] = @ \ S]
  /\ cache' = [cache EXCEPT ![n] = [p \in Nodes |->
                 IF p \in S THEN [@[p] EXCEPT !.seen = TRUE, !.disconnected = TRUE]
                 ELSE @[p]]]
  /\ \/ UNCHANGED copy
     \/ copy' = [copy EXCEPT ![n] = {w \in @ : w.peer \notin S}]
  /\ stale' = stale \cup ({n} \X S)
  /\ net' = net \cup Packets(Signed("ping", n, 1, n, {}), n, table[n] \ S)
  /\ Ticks(n, 1)
  /\ UNCHANGED <<sit, up, NoReroute, SeenChats, chatLog, sent, joined>>

Command ==
  \/ SendBootstrap
  \/ \E n \in Nodes :
       \/ SendChat(n)
       \/ SendDisconnect(n)
       \/ \E S \in SUBSET table[n] : SendPings(n, S)

-----------------------------------------------------------------------------

\* Those that are there know each other.
Known == [NoCache EXCEPT !.seen = TRUE, !.added = TRUE, !.announced = TRUE]

Init ==
  /\ sit \in Situations
  /\ up = Everybody(sit)
  /\ clock = [n \in Nodes |-> 0]
  /\ table = [n \in Nodes |-> IF n \in Present(sit) THEN Present(sit) \ {n} ELSE {}]
  /\ cache = [n \in Nodes |-> [p \in Nodes |-> IF p \in table[n] THEN Known ELSE NoCache]]
  /\ copy = [n \in Nodes |-> {}]
  /\ NoReroute = [n \in Nodes |-> {}]
  /\ SeenChats = [n \in Nodes |-> {}]
  /\ chatLog = [n \in Nodes |-> <<>>]
  /\ net = {}
  /\ sent = {}
  /\ stale = {}
  /\ joined = FALSE
  /\ left = sit.commands

Next == Deliver \/ Command

Spec == Init /\ [][Next]_vars

\* What has arrived is handled.
FairSpec == Spec /\ WF_vars(Deliver)

-----------------------------------------------------------------------------
(* Correctness *)

\* Every variable of the model has values of its type.
TypeOK ==
  /\ sit \in Situations
  /\ up \subseteq Nodes
  /\ clock \in [Nodes -> Nat]
  /\ table \in [Nodes -> SUBSET Nodes]
  /\ cache \in [Nodes -> [Nodes -> Cache]]
  /\ copy \in [Nodes -> SUBSET WriteBacks]
  /\ NoReroute \in [Nodes -> SUBSET (Nodes \X Nat)]
  /\ SeenChats \in [Nodes -> SUBSET (Nodes \X Nat)]
  /\ chatLog \in [Nodes -> Seq(Nodes \X Nat)]
  /\ \A m \in net : m \in Packet
  /\ sent \subseteq Nodes \X Nat
  /\ stale \subseteq Nodes \X Nodes
  /\ joined \in BOOLEAN
  /\ left \in 0..sit.commands

\* The kinds that a node sends to others, and nobody passes on.
Direct == {"bootstrap", "verifybs", "request", "suggestions", "ping"}

\* A node is a peer of its own if it was told to join by itself, not otherwise,
\* though no handler but that of announcements looks.
ToItself(n) == n = sit.joiner /\ n = sit.contact

\* What the cache of n says of p, or is about to say.
Entries(n, p) == {cache[n][p]} \cup {w.entry : w \in {v \in copy[n] : v.peer = p}}

\* Those in the table count as added and connected, and so do no others but those
\* that the node took for gone, if a write-back undid the mark.  Who counts as gone
\* has left or was taken for gone.
CacheFits(n, p) ==
  \A c \in Entries(n, p) :
    /\ p \in table[n] => c.added /\ ~c.disconnected
    /\ c.added /\ ~c.disconnected => p \in table[n] \/ <<n, p>> \in stale
    /\ c.added \/ c.disconnected => c.seen
    /\ c.disconnected => p \notin up \/ <<n, p>> \in stale
    /\ c.added = cache[n][p].added

\* The inductive invariant.  Tables and caches agree, but for marks that got lost;
\* no node but one that joined by itself is a peer of its own, or hears of itself.
\* What is shown is down as seen, and what is seen or under way was sent.  No node
\* writes more than it has ticked, and who has said goodbye is gone.
OverlayInv ==
  /\ TypeOK
  /\ \A n, p \in Nodes : CacheFits(n, p)
  /\ \A n \in Nodes : n \in table[n] => ToItself(n)
  /\ \A m \in net : m.env.kind \in Direct /\ m.env.from = m.dst => ToItself(m.dst)
  /\ \A m \in net : m.env.kind = "suggestions" => m.dst \notin m.env.peers
  /\ \A m \in net : m.env.kind = "disconnect" => m.env.from \notin up
  /\ \A n \in Nodes : \A i \in DOMAIN chatLog[n] : chatLog[n][i] \in SeenChats[n]
  /\ \A n \in Nodes : SeenChats[n] \subseteq sent
  /\ \A m \in net : m.env.time <= clock[m.env.from]
  /\ \A m \in net : m.env.kind = "chat" => <<m.env.from, m.env.time>> \in sent
  /\ \A c \in sent : c[2] <= clock[c[1]]

Main == INSTANCE Broadcast
          WITH Chats <- Nodes \X Nat, said <- sent, log <- chatLog

\* Whatever paths a chat takes, and however often and in which order it comes,
\* it is shown once, and only if it was sent.
ImplementsBroadcast == Main!Spec

\* Nobody has left, and nobody was taken for gone.
Undisturbed == up = Everybody(sit) /\ stale = {}

\* When all messages of a bootstrap have arrived, everybody has the joiner in
\* its table, whatever the ids, and the joiner has its contact; it need not have
\* the others.
JoinerKnown ==
  net = {} /\ ~sit.lossy /\ Undisturbed /\ joined =>
    /\ sit.contact \in table[sit.joiner]
    /\ \A n \in Present(sit) \ {sit.joiner} : sit.joiner \in table[n]

UnderWay(kind, p, n) ==
  \E m \in net : m.env.kind = kind /\ m.env.from = p /\ m.dst = n

\* Nobody has left, and of those that were there first none was taken for gone.
Undivided ==
  up = Everybody(sit) /\ \A x, y \in Present(sit) : <<x, y>> \notin stale

\* Everybody has heard of the joiner, or will.
Reached ==
  \A n \in Present(sit) \ {sit.joiner} :
    cache[n][sit.joiner].added \/ UnderWay("announce", sit.joiner, n)

\* How far the joiner is: there is always something under way that carries on.
Advances ==
  LET j == sit.joiner
      c == sit.contact
  IN  \/ UnderWay("bootstrap", j, c)
      \/ UnderWay("verifybs", c, j)
      \/ cache[j][c].added /\ (UnderWay("announce", j, c) \/ Reached)

\* The inductive invariant of joining.  Only the joiner introduces itself; those
\* that were there have met each other; and nobody else knows the joiner before it
\* says something.  Who has passed its announcement on has done so to all.
JoiningInv ==
  LET j == sit.joiner
  IN  /\ up \subseteq Everybody(sit)
      /\ \A m \in net :
           /\ m.env.kind \in {"bootstrap", "announce", "request"} => m.env.from = j
           /\ m.env.kind \in {"verifybs", "suggestions"} => m.dst = j
      /\ \A x, y \in Present(sit) : x # y => cache[x][y].added
      /\ ~joined /\ j \notin Present(sit) =>
           /\ table[j] = {} /\ \A n \in Nodes : j \notin table[n]
           /\ \A m \in net : m.env.from # j /\ m.dst # j
      /\ ~sit.lossy /\ Undivided =>
           /\ (\E n \in Present(sit) : \E e \in Entries(n, j) : e.announced) => Reached
           /\ joined => Advances

\* A node that has the author of a ping in its table answers it directly: what
\* findClosestN gives, from one bucket, has the addressee.  Only to itself a node
\* sends no answer.
PingAnswered ==
  [][\A m \in net :
       processPing(m) /\ m.env.from \in table[m.dst] /\ m.env.from # m.dst =>
         [env |-> Signed("pulse", m.dst, 1, m.env.from, {}),
          via |-> m.dst, dst |-> m.env.from] \in net']_vars

\* A message that gets to a node on the way for the first time is passed on to
\* those that are nearer to its addressee.
RoutedThrough ==
  [][\A m \in net :
       /\ processPulse(m) /\ m.env.to # m.dst
       /\ <<m.env.from, m.env.time>> \notin NoReroute[m.dst]
       => Packets(m.env, m.dst, route(m.dst, m.env.to)) \subseteq net']_vars

\* Nobody has left, and everybody has everybody in the table.
Complete == up = Everybody(sit) /\ \A n \in up : up \ {n} \subseteq table[n]

\* A chat is sent to the first of each bucket only, and shown to its author as
\* it comes back.  If everybody knows everybody while the first chat of a node is
\* on its way, it still reaches all, over those that got it.  (If the first of
\* a bucket has gone, those behind it do not get the chat.)
ChatReachesAll ==
  \A a \in Nodes :
    (/\ Complete /\ ~sit.lossy
     /\ \E m \in net : m.env.kind = "chat" /\ m.env.from = a
     /\ \A n \in Nodes : \A c \in SeenChats[n] : c[1] # a)
       ~> (\/ ~Complete
           \/ \E c \in sent : c[1] = a /\
                \A n \in up : \E i \in DOMAIN chatLog[n] : chatLog[n][i] = c)

ChatUnderWay(c, p) ==
  \E m \in net : m.env.kind = "chat" /\ <<m.env.from, m.env.time>> = c /\ m.dst = p

\* A chat is in the hands of somebody, or on its way to somebody, and who has it
\* has passed it on to all others.
Spreading(c) ==
  /\ \E n \in up : c \in SeenChats[n] \/ ChatUnderWay(c, n)
  /\ \A n \in up : c \in SeenChats[n] =>
       \A p \in up \ {n} : c \in SeenChats[p] \/ ChatUnderWay(c, p)

\* A flood is never left half done: whatever comes in between, as long as all know
\* each other and nobody leaves, a chat goes on until everybody has it.
ChatsGoOn ==
  [][~sit.lossy /\ Complete /\ up' = up =>
       \A c \in sent : Spreading(c) => Spreading(c)']_vars

\* Floods end: each node passes on each chat, announcement and departure once.
FloodsEnd == [](~sit.lossy) => <>[](net = {})
=============================================================================
