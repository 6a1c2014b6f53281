--------------------------- MODULE Overlay_proofs ---------------------------
(***************************************************************************)
(* Theorems about Overlay, for any nodes, ids of any number of bits,       *)
(* buckets of any size, any number of commands, and networks that lose,    *)
(* repeat and reorder packets.                                             *)
(***************************************************************************)
EXTENDS Overlay, FiniteSetTheorems, TLAPS

-----------------------------------------------------------------------------
(* The parts of the invariant *)

TablesFit == \A n, p \in Nodes : CacheFits(n, p)

NoSelf ==
  /\ \A n \in Nodes : n \in table[n] => ToItself(n)
  /\ \A m \in net : m.env.kind \in Direct /\ m.env.from = m.dst => ToItself(m.dst)
  /\ \A m \in net : m.env.kind = "suggestions" => m.dst \notin m.env.peers

Departed == \A m \in net : m.env.kind = "disconnect" => m.env.from \notin up

LogSeen == \A n \in Nodes : \A i \in DOMAIN chatLog[n] : chatLog[n][i] \in SeenChats[n]

SeenSent == \A n \in Nodes : SeenChats[n] \subseteq sent

NetSent ==
  /\ \A m \in net : m.env.time <= clock[m.env.from]
  /\ \A m \in net : m.env.kind = "chat" => <<m.env.from, m.env.time>> \in sent

SentTimes == \A c \in sent : c[2] <= clock[c[1]]

LEMMA OverlayParts ==
  OverlayInv <=>
    TypeOK /\ NoSelf /\ TablesFit /\ Departed /\ LogSeen /\ SeenSent /\ NetSent /\ SentTimes
BY DEF OverlayInv, NoSelf, TablesFit, Departed, LogSeen, SeenSent, NetSent, SentTimes

-----------------------------------------------------------------------------
(* Types *)

\* The fields of a packet.
LEMMA PacketTypes ==
  ASSUME TypeOK, NEW m \in net
  PROVE  /\ m.via \in Nodes /\ m.dst \in Nodes /\ m.env \in Envelope
         /\ m.env.from \in Nodes /\ m.env.to \in Nodes /\ m.env.time \in Nat
         /\ m.env.kind \in Kinds /\ m.env.peers \subseteq Nodes
<1>1. m \in Packet
  BY DEF TypeOK
<1>2. m.env \in Envelope /\ m.via \in Nodes /\ m.dst \in Nodes
  BY <1>1 DEF Packet
<1> QED BY <1>2 DEF Envelope

\* What a node signs is an envelope, and later than what it signed before.
LEMMA SignedType ==
  ASSUME TypeOK, NEW n \in Nodes, NEW k \in Nat, NEW kind \in Kinds,
         NEW to \in Nodes, NEW P \in SUBSET Nodes
  PROVE  /\ Signed(kind, n, k, to, P) \in Envelope
         /\ Signed(kind, n, k, to, P).kind = kind
         /\ Signed(kind, n, k, to, P).from = n
         /\ Signed(kind, n, k, to, P).time = clock[n] + k
         /\ clock[n] + k \in Nat
<1>1. clock[n] + k \in Nat
  BY DEF TypeOK
<1> QED BY <1>1 DEF Signed, Envelope

\* Packets of an envelope, sent by a node to nodes.
LEMMA PacketsType ==
  ASSUME NEW env \in Envelope, NEW n \in Nodes, NEW D \in SUBSET Nodes
  PROVE  \A x \in Packets(env, n, D) : x \in Packet /\ x.env = env /\ x.via = n
BY DEF Packets, Packet

\* What findClosestN finds are peers.
LEMMA ClosestArePeers ==
  ASSUME NEW n, NEW x, NEW k
  PROVE  findClosestN(n, x, k) \subseteq table[n]
BY DEF findClosestN, Bucket

\* So are those a message is routed to, and those that are suggested.
LEMMA RoutedToPeers ==
  ASSUME TypeOK, NEW n \in Nodes, NEW p
  PROVE  /\ table[n] \subseteq Nodes /\ route(n, p) \subseteq Nodes
         /\ Suggested(n, p) \subseteq Nodes /\ Fronts(n) \subseteq Nodes
<1>1. table[n] \subseteq Nodes
  BY DEF TypeOK
<1>2. route(n, p) \subseteq table[n]
  BY ClosestArePeers DEF route
<1>3. Suggested(n, p) \subseteq table[n]
  BY ClosestArePeers DEF Suggested
<1>4. Fronts(n) \subseteq table[n]
  BY DEF Fronts
<1> QED BY <1>1, <1>2, <1>3, <1>4

-----------------------------------------------------------------------------
(* Tables and caches *)

\* A cache entry after a message that adds its author, or does not.
LEMMA MetCache ==
  ASSUME NEW c \in Cache, NEW t \in Nat
  PROVE  /\ Met(c, t) \in Cache
         /\ IsNews(c, t) => Met(c, t).added /\ ~Met(c, t).disconnected /\ Met(c, t).seen
         /\ ~IsNews(c, t) => Met(c, t) = c
BY DEF Met, Cache

\* And after an announcement that is passed on.
LEMMA AnnouncedCache ==
  ASSUME NEW c \in Cache
  PROVE  /\ Announced(c) \in Cache /\ Announced(c).seen
         /\ Announced(c).added = c.added
         /\ Announced(c).disconnected = c.disconnected
BY DEF Announced, Cache

\* A node's entries of a peer: the one in the cache, and those that are due.
LEMMA EntriesAre ==
  ASSUME NEW n, NEW p, NEW e
  PROVE  /\ e \in Entries(n, p) <=>
              e = cache[n][p] \/ \E w \in copy[n] : w.peer = p /\ w.entry = e
         /\ e \in Entries(n, p)' <=>
              e = cache'[n][p] \/ \E w \in copy'[n] : w.peer = p /\ w.entry = e
BY DEF Entries

\* The tables, the caches and what is due for them have their types.
TablesTyped ==
  /\ table \in [Nodes -> SUBSET Nodes]
  /\ cache \in [Nodes -> [Nodes -> Cache]]
  /\ copy \in [Nodes -> SUBSET WriteBacks]

\* The entry of a peer whose node has nothing due fits the table.
LEMMA FitsNow ==
  ASSUME TablesFit, NEW n \in Nodes, NEW p \in Nodes
  PROVE  /\ p \in table[n] => cache[n][p].added /\ ~cache[n][p].disconnected
         /\ cache[n][p].added /\ ~cache[n][p].disconnected =>
              p \in table[n] \/ <<n, p>> \in stale
         /\ cache[n][p].added \/ cache[n][p].disconnected => cache[n][p].seen
         /\ cache[n][p].disconnected => p \notin up \/ <<n, p>> \in stale
<1>1. cache[n][p] \in Entries(n, p)
  BY EntriesAre
<1> QED BY <1>1 DEF TablesFit, CacheFits

\* Entries that were there before still fit, if the table is the same, whoever
\* leaves or is taken for gone.
LEMMA FitKept ==
  ASSUME TablesFit, NEW n \in Nodes, NEW p \in Nodes,
         p \in table'[n] <=> p \in table[n],
         cache'[n][p] \in Entries(n, p),
         \A e : e \in Entries(n, p)' => e \in Entries(n, p),
         up' \subseteq up, stale \subseteq stale'
  PROVE  CacheFits(n, p)'
<1>1. cache'[n][p].added = cache[n][p].added
  BY DEF TablesFit, CacheFits
<1>2. ASSUME NEW e \in Entries(n, p)'
      PROVE  /\ p \in table'[n] => e.added /\ ~e.disconnected
             /\ e.added /\ ~e.disconnected => p \in table'[n] \/ <<n, p>> \in stale'
             /\ e.added \/ e.disconnected => e.seen
             /\ e.disconnected => p \notin up' \/ <<n, p>> \in stale'
             /\ e.added = cache'[n][p].added
  <2>1. e \in Entries(n, p)
    BY <1>2
  <2> QED BY <1>1, <2>1 DEF TablesFit, CacheFits
<1> QED BY <1>2 DEF CacheFits

\* One node, with nothing due, changes its entry of one peer, and its table to
\* match; what is due then says the same.
LEMMA OneEntry ==
  ASSUME TypeOK, TablesFit, NEW n \in Nodes, NEW p \in Nodes, NEW c \in Cache,
         NEW T \in SUBSET Nodes, NEW D \in SUBSET WriteBacks,
         copy[n] = {},
         \A q \in Nodes \ {p} : q \in T <=> q \in table[n],
         \A w \in D : /\ w.peer = p /\ w.entry.seen
                      /\ w.entry.added = c.added /\ w.entry.disconnected = c.disconnected,
         p \in T => c.added /\ ~c.disconnected,
         c.added /\ ~c.disconnected => p \in T \/ <<n, p>> \in stale,
         c.added \/ c.disconnected => c.seen,
         c.disconnected => p \notin up \/ <<n, p>> \in stale,
         table' = [table EXCEPT ![n] = T],
         cache' = [cache EXCEPT ![n][p] = c],
         copy' = [copy EXCEPT ![n] = D],
         UNCHANGED <<up, stale>>
  PROVE  TablesTyped' /\ TablesFit'
<1>1. /\ table \in [Nodes -> SUBSET Nodes] /\ cache \in [Nodes -> [Nodes -> Cache]]
      /\ copy \in [Nodes -> SUBSET WriteBacks]
  BY DEF TypeOK
<1>2. /\ table' \in [Nodes -> SUBSET Nodes] /\ cache' \in [Nodes -> [Nodes -> Cache]]
      /\ copy' \in [Nodes -> SUBSET WriteBacks]
  BY <1>1
<1>3. ASSUME NEW k \in Nodes, NEW q \in Nodes PROVE CacheFits(k, q)'
  <2>1. CASE k = n /\ q = p
    <3>1. table'[k] = T /\ cache'[k][q] = c /\ copy'[k] = D
      BY <1>1, <2>1
    <3>2. \A e \in Entries(k, q)' :
             /\ e.added = c.added /\ e.disconnected = c.disconnected
             /\ c.added \/ c.disconnected => e.seen
      BY <2>1, <3>1, EntriesAre
    <3> QED BY <2>1, <3>1, <3>2 DEF CacheFits
  <2>2. CASE k = n /\ q # p
    <3>1. table'[k] = T /\ cache'[k][q] = cache[n][q] /\ copy'[k] = D
      BY <1>1, <2>2
    <3>2. \A e : e \in Entries(k, q)' => e \in Entries(k, q)
      BY <2>2, <3>1, EntriesAre
    <3>3. cache'[k][q] \in Entries(k, q) /\ (q \in table'[k] <=> q \in table[k])
      BY <2>2, <3>1, EntriesAre
    <3> QED BY <3>2, <3>3, FitKept
  <2>3. CASE k # n
    <3>1. table'[k] = table[k] /\ cache'[k][q] = cache[k][q] /\ copy'[k] = copy[k]
      BY <1>1, <2>3
    <3>2. \A e : e \in Entries(k, q)' => e \in Entries(k, q)
      BY <3>1, EntriesAre
    <3>3. cache'[k][q] \in Entries(k, q)
      BY <3>1, EntriesAre
    <3> QED BY <3>1, <3>2, <3>3, FitKept
  <2> QED BY <2>1, <2>2, <2>3
<1> QED BY <1>2, <1>3 DEF TablesFit, TablesTyped

\* A node meets another, and nothing, or the same, is due then.
LEMMA MeetTable ==
  ASSUME TypeOK, TablesFit, NEW n \in Nodes, NEW p \in Nodes, NEW t \in Nat,
         Meet(n, p, t), copy[n] = {}, NEW D \in SUBSET WriteBacks,
         \A w \in D : w.peer = p /\ w.entry = Announced(Met(cache[n][p], t)),
         copy' = [copy EXCEPT ![n] = D], UNCHANGED <<up, stale>>
  PROVE  TablesTyped' /\ TablesFit'
<1> DEFINE c == Met(cache[n][p], t)
           T == Meeting(n, p, t)
<1>1. cache[n][p] \in Cache /\ table[n] \subseteq Nodes
  BY DEF TypeOK
<1>2. /\ c \in Cache
      /\ IsNews(cache[n][p], t) => c.added /\ ~c.disconnected /\ c.seen
      /\ ~IsNews(cache[n][p], t) => c = cache[n][p]
  BY <1>1, MetCache
<1>3. T \in SUBSET Nodes /\ \A q \in Nodes \ {p} : q \in T <=> q \in table[n]
  BY <1>1 DEF Meeting
<1>4. /\ p \in T => c.added /\ ~c.disconnected
      /\ c.added /\ ~c.disconnected => p \in T \/ <<n, p>> \in stale
      /\ c.added \/ c.disconnected => c.seen
      /\ c.disconnected => p \notin up \/ <<n, p>> \in stale
  <2>1. CASE IsNews(cache[n][p], t)
    BY <1>2, <2>1 DEF Meeting
  <2>2. CASE ~IsNews(cache[n][p], t)
    <3>1. T = table[n] /\ c = cache[n][p]
      BY <1>2, <2>2 DEF Meeting
    <3> QED BY <3>1, FitsNow
  <2> QED BY <2>1, <2>2
<1>5. \A w \in D : /\ w.peer = p /\ w.entry.seen
                   /\ w.entry.added = c.added /\ w.entry.disconnected = c.disconnected
  BY <1>2, AnnouncedCache
<1>6. table' = [table EXCEPT ![n] = T] /\ cache' = [cache EXCEPT ![n][p] = c]
  BY DEF Meet
<1> HIDE DEF c, T
<1> QED BY <1>2, <1>3, <1>4, <1>5, <1>6, OneEntry

\* A node announces itself.
LEMMA AnnounceTable ==
  ASSUME TypeOK, TablesFit, NEW m \in net, processAnnounce(m), m.env.from # m.dst
  PROVE  TablesTyped' /\ TablesFit'
<1> DEFINE n == m.dst
           p == m.env.from
           t == m.env.time
           c == cache[n][p]
           D == IF Floods(c, t) THEN {[peer |-> p, entry |-> Announced(Met(c, t))]} ELSE {}
<1>1. n \in Nodes /\ p \in Nodes /\ t \in Nat
  BY PacketTypes
<1>2. c \in Cache /\ copy \in [Nodes -> SUBSET WriteBacks]
  BY <1>1 DEF TypeOK
<1>3. Met(c, t) \in Cache
  BY <1>1, <1>2, MetCache
<1>4. Announced(Met(c, t)) \in Cache
  BY <1>3, AnnouncedCache
<1>5. D \in SUBSET WriteBacks /\ \A w \in D : w.peer = p /\ w.entry = Announced(Met(c, t))
  BY <1>1, <1>4 DEF WriteBacks
<1>6. Meet(n, p, t) /\ copy[n] = {} /\ UNCHANGED <<up, stale>>
  BY DEF processAnnounce, Arrives
<1>7. copy' = [copy EXCEPT ![n] = D]
  <2>1. CASE Floods(c, t)
    BY <2>1 DEF processAnnounce
  <2>2. CASE ~Floods(c, t)
    BY <1>1, <1>2, <1>6, <2>2 DEF processAnnounce
  <2> QED BY <2>1, <2>2
<1> HIDE DEF D, n, p, t
<1> QED BY <1>1, <1>5, <1>6, <1>7, MeetTable DEF c

\* A node takes leave.
LEMMA DisconnectTable ==
  ASSUME TypeOK, TablesFit, Departed, NEW m \in net, processDisconnect(m)
  PROVE  TablesTyped' /\ TablesFit'
<1> DEFINE n == m.dst
           p == m.env.from
           T == table[n] \ {p}
           d == cache[n][p]
           c == IF ~d.seen \/ ~d.disconnected
                  THEN [d EXCEPT !.seen = TRUE, !.disconnected = TRUE] ELSE d
<1>1. n \in Nodes /\ p \in Nodes
  BY PacketTypes
<1>2. d \in Cache /\ T \in SUBSET Nodes
  BY <1>1 DEF TypeOK
<1>3. c \in Cache /\ c.disconnected /\ c.seen
  BY <1>2 DEF Cache
<1>4. cache' = [cache EXCEPT ![n][p] = c]
  <2>1. CASE ~d.seen \/ ~d.disconnected
    BY <2>1 DEF processDisconnect
  <2>2. CASE ~(~d.seen \/ ~d.disconnected)
    <3>1. cache' = cache
      BY <2>2 DEF processDisconnect
    <3> QED BY <1>1, <2>2, <3>1 DEF TypeOK
  <2> QED BY <2>1, <2>2
<1>5. table' = [table EXCEPT ![n] = T] /\ UNCHANGED <<up, stale>>
  BY DEF processDisconnect
<1>6. copy[n] = {} /\ p \notin up
  BY DEF processDisconnect, Arrives, Departed
<1>7. copy' = [copy EXCEPT ![n] = {}]
  BY <1>1, <1>6 DEF processDisconnect, TypeOK
<1>8. \A q \in Nodes \ {p} : q \in T <=> q \in table[n]
  OBVIOUS
<1>9. p \notin T
  OBVIOUS
<1>10. {} \in SUBSET WriteBacks
  OBVIOUS
<1> HIDE DEF n, p, T, c, d
<1> QED BY <1>1, <1>2, <1>3, <1>4, <1>5, <1>6, <1>7, <1>8, <1>9, <1>10, OneEntry

\* cacheMin marks an entry as seen and changes nothing else.
LEMMA ChatTable ==
  ASSUME TypeOK, TablesFit, NEW m \in net, processChat(m)
  PROVE  TablesTyped' /\ TablesFit'
<1> DEFINE n == m.dst
           p == m.env.from
           T == table[n]
           c == cache[n][p]
           e == [c EXCEPT !.seen = TRUE]
           D == {[peer |-> p, entry |-> e]}
<1>1. n \in Nodes /\ p \in Nodes
  BY PacketTypes
<1>2. c \in Cache /\ T \in SUBSET Nodes
  BY <1>1 DEF TypeOK
<1>3. e \in Cache /\ e.seen /\ e.added = c.added /\ e.disconnected = c.disconnected
  BY <1>2 DEF Cache
<1>4. /\ D \in SUBSET WriteBacks
      /\ \A w \in D : /\ w.peer = p /\ w.entry.seen
                      /\ w.entry.added = c.added /\ w.entry.disconnected = c.disconnected
  <2>1. \A w \in D : w \in WriteBacks /\ w.peer = p /\ w.entry = e
    <3> HIDE DEF e, p
    <3> QED BY <1>1, <1>3 DEF WriteBacks
  <2> QED BY <1>3, <2>1
<1>5. /\ cache' = [cache EXCEPT ![n][p] = c] /\ table' = [table EXCEPT ![n] = T]
      /\ UNCHANGED <<up, stale>>
  BY <1>1 DEF processChat, TypeOK
<1>6. copy' = [copy EXCEPT ![n] = D] /\ copy[n] = {}
  BY DEF processChat, CacheMin, Arrives
<1>7. /\ p \in T => c.added /\ ~c.disconnected
      /\ c.added /\ ~c.disconnected => p \in T \/ <<n, p>> \in stale
      /\ c.added \/ c.disconnected => c.seen
      /\ c.disconnected => p \notin up \/ <<n, p>> \in stale
  BY <1>1, FitsNow
<1>8. \A q \in Nodes \ {p} : q \in T <=> q \in table[n]
  OBVIOUS
<1> HIDE DEF n, p, T, c, e, D
<1> QED BY <1>1, <1>2, <1>4, <1>5, <1>6, <1>7, <1>8, OneEntry

\* What was due is written.
LEMMA WriteBackTable ==
  ASSUME TypeOK, TablesFit, NEW n \in Nodes, WriteBack(n)
  PROVE  TablesTyped' /\ TablesFit'
<1>1. /\ table \in [Nodes -> SUBSET Nodes] /\ cache \in [Nodes -> [Nodes -> Cache]]
      /\ copy \in [Nodes -> SUBSET WriteBacks]
  BY DEF TypeOK
<1>2. PICK w \in copy[n] : cache' = [cache EXCEPT ![n][w.peer] = w.entry]
  BY DEF WriteBack
<1>3. w.peer \in Nodes /\ w.entry \in Cache
  BY <1>1, <1>2 DEF WriteBacks
<1>4. copy' = [copy EXCEPT ![n] = {}] /\ UNCHANGED <<table, up, stale>>
  BY DEF WriteBack
<1>5. /\ table' \in [Nodes -> SUBSET Nodes] /\ cache' \in [Nodes -> [Nodes -> Cache]]
      /\ copy' \in [Nodes -> SUBSET WriteBacks]
  BY <1>1, <1>2, <1>3, <1>4
<1>6. ASSUME NEW k \in Nodes, NEW q \in Nodes PROVE CacheFits(k, q)'
  <2>1. cache'[k][q] = IF k = n /\ q = w.peer THEN w.entry ELSE cache[k][q]
    BY <1>1, <1>2, <1>3
  <2>2. copy'[k] \subseteq copy[k]
    BY <1>1, <1>4
  <2>3. cache'[k][q] \in Entries(k, q)
    BY <1>2, <2>1, EntriesAre
  <2>4. \A e : e \in Entries(k, q)' => e \in Entries(k, q)
    BY <2>2, <2>3, EntriesAre
  <2> QED BY <1>4, <2>3, <2>4, FitKept
<1> QED BY <1>5, <1>6 DEF TablesFit, TablesTyped

\* Stale peers are taken out of the table and marked.
LEMMA PingsTable ==
  ASSUME TypeOK, TablesFit, NEW n \in Nodes, NEW S \in SUBSET table[n], SendPings(n, S)
  PROVE  TablesTyped' /\ TablesFit'
<1> DEFINE New(p) == IF p \in S
                       THEN [cache[n][p] EXCEPT !.seen = TRUE, !.disconnected = TRUE]
                     ELSE cache[n][p]
<1>1. /\ table \in [Nodes -> SUBSET Nodes] /\ cache \in [Nodes -> [Nodes -> Cache]]
      /\ copy \in [Nodes -> SUBSET WriteBacks]
  BY DEF TypeOK
<1>2. /\ table' = [table EXCEPT ![n] = table[n] \ S]
      /\ cache' = [cache EXCEPT ![n] = [p \in Nodes |-> New(p)]]
      /\ stale' = stale \cup ({n} \X S) /\ up' = up
  BY DEF SendPings
<1>3. ASSUME NEW p \in Nodes
      PROVE  /\ New(p) \in Cache /\ New(p).added = cache[n][p].added
             /\ p \in S => New(p).disconnected /\ New(p).seen
             /\ p \notin S => New(p) = cache[n][p]
  <2>1. cache[n][p] \in Cache
    BY <1>1
  <2> QED BY <2>1 DEF Cache
<1> HIDE DEF New
<1>4. table' \in [Nodes -> SUBSET Nodes] /\ cache' \in [Nodes -> [Nodes -> Cache]]
  BY <1>1, <1>2, <1>3
<1>5. copy' \in [Nodes -> SUBSET WriteBacks] /\ \A k \in Nodes : copy'[k] \subseteq copy[k]
  <2>1. CASE copy' = copy
    BY <1>1, <2>1
  <2>2. CASE copy' = [copy EXCEPT ![n] = {w \in @ : w.peer \notin S}]
    BY <1>1, <2>2
  <2> QED BY <2>1, <2>2 DEF SendPings
<1>6. ASSUME NEW k \in Nodes, NEW q \in Nodes PROVE CacheFits(k, q)'
  <2>1. CASE k = n /\ q \in S
    <3>1. q \notin table'[k] /\ cache'[k][q] = New(q) /\ <<k, q>> \in stale'
      BY <1>1, <1>2, <2>1
    <3>2. \A e \in Entries(k, q)' :
            /\ e.added \/ e.disconnected => e.seen
            /\ e.added = cache'[k][q].added
      <4>1. ASSUME NEW e \in Entries(k, q)', e # cache'[k][q]
            PROVE  (e.added \/ e.disconnected => e.seen) /\ e.added = cache[k][q].added
        <5>1. e \in Entries(k, q)
          BY <1>5, <4>1, EntriesAre
        <5> QED BY <5>1 DEF TablesFit, CacheFits
      <4> QED BY <1>3, <2>1, <3>1, <4>1
    <3> QED BY <3>1, <3>2 DEF CacheFits
  <2>2. CASE ~(k = n /\ q \in S)
    <3>1. cache'[k][q] = cache[k][q] /\ (q \in table'[k] <=> q \in table[k])
      BY <1>1, <1>2, <1>3, <2>2
    <3>2. \A e : e \in Entries(k, q)' => e \in Entries(k, q)
      BY <1>5, <3>1, EntriesAre
    <3>3. cache'[k][q] \in Entries(k, q)
      BY <3>1, EntriesAre
    <3> QED BY <1>2, <3>1, <3>2, <3>3, FitKept
  <2> QED BY <2>1, <2>2
<1> QED BY <1>4, <1>5, <1>6 DEF TablesFit, TablesTyped

\* No step makes the table and the cache disagree, or what is due for it.
LEMMA TableStep ==
  ASSUME TypeOK, TablesFit, Departed, Next
  PROVE  TablesTyped' /\ TablesFit'
<1> DEFINE Goal == TablesTyped' /\ TablesFit'
<1>1. ASSUME UNCHANGED <<table, cache, copy, stale>>, up' \subseteq up PROVE Goal
  <2>1. TablesTyped'
    BY <1>1 DEF TypeOK, TablesTyped
  <2>2. ASSUME NEW k \in Nodes, NEW q \in Nodes PROVE CacheFits(k, q)'
    <3>1. /\ \A e : e \in Entries(k, q)' => e \in Entries(k, q)
          /\ cache'[k][q] \in Entries(k, q)
      BY <1>1, EntriesAre
    <3> QED BY <1>1, <3>1, FitKept
  <2> QED BY <2>1, <2>2 DEF TablesFit
<1>2. ASSUME NEW m \in net, Meet(m.dst, m.env.from, m.env.time), copy[m.dst] = {},
             UNCHANGED <<copy, up, stale>>
      PROVE  Goal
  <2>1. m.dst \in Nodes /\ m.env.from \in Nodes /\ m.env.time \in Nat
    BY PacketTypes
  <2>2. copy' = [copy EXCEPT ![m.dst] = {}]
    BY <1>2, <2>1 DEF TypeOK
  <2>3. {} \in SUBSET WriteBacks
    OBVIOUS
  <2> QED BY <1>2, <2>1, <2>2, <2>3, MeetTable
<1>3. ASSUME NEW m \in net, processBootstrap(m) \/ processVerify(m)
                \/ processSuggestionRequest(m) \/ processSuggestions(m)
      PROVE  Goal
  <2>1. Meet(m.dst, m.env.from, m.env.time) /\ copy[m.dst] = {} /\ UNCHANGED <<copy, up, stale>>
    BY <1>3 DEF processBootstrap, processVerify, processSuggestionRequest,
                processSuggestions, Arrives
  <2> QED BY <1>2, <2>1
<1>4. ASSUME NEW m \in net, processPing(m) \/ processPulse(m) \/ Lose(m) PROVE Goal
  <2>1. UNCHANGED <<table, cache, copy, stale, up>>
    BY <1>4 DEF processPing, processPulse, Lose
  <2> QED BY <1>1, <2>1
<1>5. ASSUME NEW m \in net, processAnnounce(m) PROVE Goal
  <2>1. CASE m.env.from = m.dst
    <3>1. UNCHANGED <<table, cache, copy, stale, up>>
      BY <1>5, <2>1 DEF processAnnounce
    <3> QED BY <1>1, <3>1
  <2>2. CASE m.env.from # m.dst
    BY <1>5, <2>2, AnnounceTable
  <2> QED BY <2>1, <2>2
<1>6. CASE Deliver
  BY <1>3, <1>4, <1>5, <1>6, ChatTable, DisconnectTable, WriteBackTable, Zenon DEF Deliver
<1>7. CASE Command
  <2>1. ASSUME NEW n \in Nodes, SendChat(n) \/ SendDisconnect(n) PROVE Goal
    <3>1. UNCHANGED <<table, cache, copy, stale>> /\ up' \subseteq up
      BY <2>1 DEF SendChat, SendDisconnect
    <3> QED BY <1>1, <3>1
  <2>2. CASE SendBootstrap
    <3>1. UNCHANGED <<table, cache, copy, stale, up>>
      BY <2>2 DEF SendBootstrap
    <3> QED BY <1>1, <3>1
  <2>3. ASSUME NEW n \in Nodes, NEW S \in SUBSET table[n], SendPings(n, S) PROVE Goal
    BY <2>3, PingsTable
  <2> QED BY <1>7, <2>1, <2>2, <2>3, Zenon DEF Command
<1> QED BY <1>6, <1>7 DEF Next

-----------------------------------------------------------------------------
(* Clocks *)

\* A clock that ticks.
LEMMA TicksClock ==
  ASSUME TypeOK, NEW n \in Nodes, NEW k \in Nat, Ticks(n, k)
  PROVE  /\ clock' \in [Nodes -> Nat]
         /\ clock'[n] = clock[n] + k
         /\ \A q \in Nodes : clock[q] <= clock'[q]
<1>1. clock \in [Nodes -> Nat] /\ clock' = [clock EXCEPT ![n] = clock[n] + k]
  BY DEF TypeOK, Ticks
<1> QED BY <1>1

\* No clock goes back.
LEMMA ClockStep ==
  ASSUME TypeOK, Next
  PROVE  clock' \in [Nodes -> Nat] /\ \A q \in Nodes : clock[q] <= clock'[q]
<1> DEFINE Goal == clock' \in [Nodes -> Nat] /\ \A q \in Nodes : clock[q] <= clock'[q]
<1>1. ASSUME clock' = clock PROVE Goal
  BY <1>1 DEF TypeOK
<1>2. ASSUME NEW n \in Nodes, NEW k \in {0, 1, 2}, Ticks(n, k) PROVE Goal
  BY <1>2, TicksClock
<1>3. ASSUME NEW m \in net,
             \/ processBootstrap(m) \/ processVerify(m) \/ processSuggestionRequest(m)
             \/ processSuggestions(m) \/ processPing(m)
      PROVE  Goal
  <2>1. \E k \in {0, 1, 2} : Ticks(m.dst, k)
    BY <1>3 DEF processBootstrap, processVerify, processSuggestionRequest,
                processSuggestions, processPing
  <2> QED BY <1>2, <2>1, PacketTypes
<1>4. ASSUME NEW m \in net,
             \/ processAnnounce(m) \/ processChat(m) \/ processDisconnect(m)
             \/ processPulse(m) \/ Lose(m)
      PROVE  Goal
  <2>1. clock' = clock
    BY <1>4 DEF processAnnounce, processChat, processDisconnect, processPulse, Lose
  <2> QED BY <1>1, <2>1
<1>5. CASE Deliver
  <2>1. ASSUME NEW n \in Nodes, WriteBack(n) PROVE Goal
    BY <1>1, <2>1 DEF WriteBack
  <2> QED BY <1>3, <1>4, <1>5, <2>1, Zenon DEF Deliver
<1>6. CASE SendBootstrap
  <2>1. sit.joiner \in Nodes
    BY SituationAssumption DEF TypeOK, Situation
  <2>2. Ticks(sit.joiner, 1)
    BY <1>6 DEF SendBootstrap
  <2> QED BY <1>2, <2>1, <2>2
<1>7. ASSUME NEW n \in Nodes, SendChat(n) \/ SendDisconnect(n) PROVE Goal
  <2>1. Ticks(n, 1)
    BY <1>7 DEF SendChat, SendDisconnect
  <2> QED BY <1>2, <2>1
<1>8. ASSUME NEW n \in Nodes, NEW S \in SUBSET table[n], SendPings(n, S) PROVE Goal
  <2>1. Ticks(n, 1)
    BY <1>8 DEF SendPings
  <2> QED BY <1>2, <2>1
<1> QED BY <1>5, <1>6, <1>7, <1>8, Zenon DEF Next, Command

-----------------------------------------------------------------------------
(* Chats *)

\* What is appended comes last.
LEMMA Appended ==
  ASSUME NEW S, NEW s \in Seq(S), NEW e \in S
  PROVE  /\ Append(s, e) \in Seq(S)
         /\ \A i \in DOMAIN Append(s, e) :
              Append(s, e)[i] = e \/ (i \in DOMAIN s /\ Append(s, e)[i] = s[i])
OBVIOUS

\* A chat that is handled was sent; it is shown if, and only if, it is new.
LEMMA ChatHandled ==
  ASSUME TypeOK, NetSent, NEW m \in net, processChat(m)
  PROVE  \E n \in Nodes : \E c \in sent :
           /\ c \in Nodes \X Nat
           /\ sent' = sent
           /\ \/ UNCHANGED <<SeenChats, chatLog>>
              \/ /\ c \notin SeenChats[n]
                 /\ chatLog' = [chatLog EXCEPT ![n] = Append(chatLog[n], c)]
                 /\ SeenChats' = [SeenChats EXCEPT ![n] = SeenChats[n] \cup {c}]
<1> DEFINE n == m.dst
           c == <<m.env.from, m.env.time>>
<1>1. n \in Nodes /\ c \in Nodes \X Nat
  BY PacketTypes
<1>2. c \in sent
  BY DEF NetSent, processChat, Arrives
<1>3. /\ sent' = sent
      /\ \/ UNCHANGED <<SeenChats, chatLog>>
         \/ /\ c \notin SeenChats[n]
            /\ chatLog' = [chatLog EXCEPT ![n] = Append(chatLog[n], c)]
            /\ SeenChats' = [SeenChats EXCEPT ![n] = SeenChats[n] \cup {c}]
  BY DEF processChat, Marked
<1> QED BY <1>1, <1>2, <1>3

\* A chat that is sent is one more.
LEMMA ChatSent ==
  ASSUME TypeOK, SentTimes, NEW n \in Nodes, SendChat(n)
  PROVE  \E c \in Nodes \X Nat :
           /\ c \notin sent /\ sent' = sent \cup {c}
           /\ c[2] <= clock'[c[1]]
           /\ UNCHANGED <<SeenChats, chatLog>>
<1> DEFINE c == <<n, clock[n] + 1>>
<1>1. clock[n] \in Nat /\ clock' \in [Nodes -> Nat] /\ clock'[n] = clock[n] + 1
  BY TicksClock DEF SendChat, TypeOK
<1>2. c \in Nodes \X Nat /\ c[1] = n /\ c[2] = clock[n] + 1
  BY <1>1
<1>3. c \notin sent
  <2>1. ASSUME c \in sent PROVE FALSE
    <3>1. c[2] <= clock[c[1]]
      BY <2>1 DEF SentTimes
    <3> QED BY <1>1, <1>2, <3>1
  <2> QED BY <2>1
<1>4. sent' = sent \cup {c} /\ UNCHANGED <<SeenChats, chatLog>>
  BY DEF SendChat
<1> QED BY <1>1, <1>2, <1>3, <1>4

\* In all other steps nothing is sent or shown.
LEMMA NoChat ==
  ASSUME Next
  PROVE  \/ \E m \in net : processChat(m)
         \/ \E n \in Nodes : SendChat(n)
         \/ UNCHANGED <<sent, SeenChats, chatLog>>
<1>1. ASSUME NEW m \in net,
             \/ processBootstrap(m) \/ processVerify(m) \/ processSuggestionRequest(m)
             \/ processSuggestions(m) \/ processPing(m) \/ processAnnounce(m)
             \/ processDisconnect(m) \/ processPulse(m) \/ Lose(m)
      PROVE  UNCHANGED <<sent, SeenChats, chatLog>>
  BY <1>1 DEF processBootstrap, processVerify, processSuggestionRequest,
              processSuggestions, processPing, processAnnounce, processDisconnect,
              processPulse, Lose
<1>2. ASSUME NEW n \in Nodes, NEW S,
             WriteBack(n) \/ SendDisconnect(n) \/ SendPings(n, S)
      PROVE  UNCHANGED <<sent, SeenChats, chatLog>>
  BY <1>2 DEF WriteBack, SendDisconnect, SendPings
<1>3. SendBootstrap => UNCHANGED <<sent, SeenChats, chatLog>>
  BY DEF SendBootstrap
<1> QED BY <1>1, <1>2, <1>3, Zenon DEF Next, Deliver, Command

\* What is shown is down as seen, and what is seen was sent.
LEMMA ChatStep ==
  ASSUME TypeOK, LogSeen, SeenSent, NetSent, SentTimes, Next
  PROVE  /\ SeenChats' \in [Nodes -> SUBSET (Nodes \X Nat)]
         /\ chatLog' \in [Nodes -> Seq(Nodes \X Nat)]
         /\ sent \subseteq sent' /\ sent' \subseteq Nodes \X Nat
         /\ LogSeen' /\ SeenSent' /\ SentTimes'
<1> DEFINE Goal == /\ SeenChats' \in [Nodes -> SUBSET (Nodes \X Nat)]
                   /\ chatLog' \in [Nodes -> Seq(Nodes \X Nat)]
                   /\ sent \subseteq sent' /\ sent' \subseteq Nodes \X Nat
                   /\ LogSeen' /\ SeenSent' /\ SentTimes'
<1>1. /\ SeenChats \in [Nodes -> SUBSET (Nodes \X Nat)]
      /\ chatLog \in [Nodes -> Seq(Nodes \X Nat)]
      /\ sent \subseteq Nodes \X Nat
      /\ clock \in [Nodes -> Nat] /\ clock' \in [Nodes -> Nat]
      /\ \A q \in Nodes : clock[q] <= clock'[q]
  BY ClockStep DEF TypeOK
<1>2. \A c \in sent : c[2] <= clock'[c[1]]
  <2> SUFFICES ASSUME NEW c \in sent PROVE c[2] <= clock'[c[1]]
    OBVIOUS
  <2>1. c[1] \in Nodes /\ c[2] \in Nat
    BY <1>1
  <2>2. c[2] <= clock[c[1]] /\ clock[c[1]] <= clock'[c[1]]
    BY <1>1, <2>1 DEF SentTimes
  <2>3. clock[c[1]] \in Nat /\ clock'[c[1]] \in Nat
    BY <1>1, <2>1
  <2> QED BY <2>1, <2>2, <2>3
<1>3. ASSUME UNCHANGED <<sent, SeenChats, chatLog>> PROVE Goal
  BY <1>1, <1>2, <1>3 DEF LogSeen, SeenSent, SentTimes
<1>4. ASSUME NEW n \in Nodes, SendChat(n) PROVE Goal
  <2>1. PICK c \in Nodes \X Nat :
          /\ sent' = sent \cup {c} /\ c[2] <= clock'[c[1]]
          /\ UNCHANGED <<SeenChats, chatLog>>
    BY <1>4, ChatSent
  <2> QED BY <1>1, <1>2, <2>1 DEF LogSeen, SeenSent, SentTimes
<1>5. ASSUME NEW m \in net, processChat(m) PROVE Goal
  <2>1. PICK n \in Nodes, c \in sent :
           /\ c \in Nodes \X Nat
           /\ sent' = sent
           /\ \/ UNCHANGED <<SeenChats, chatLog>>
              \/ /\ c \notin SeenChats[n]
                 /\ chatLog' = [chatLog EXCEPT ![n] = Append(chatLog[n], c)]
                 /\ SeenChats' = [SeenChats EXCEPT ![n] = SeenChats[n] \cup {c}]
    BY <1>5, ChatHandled
  <2>2. CASE UNCHANGED <<SeenChats, chatLog>>
    BY <1>3, <2>1, <2>2
  <2>3. CASE /\ chatLog' = [chatLog EXCEPT ![n] = Append(chatLog[n], c)]
             /\ SeenChats' = [SeenChats EXCEPT ![n] = SeenChats[n] \cup {c}]
    <3>1. chatLog[n] \in Seq(Nodes \X Nat)
      BY <1>1
    <3>2. /\ Append(chatLog[n], c) \in Seq(Nodes \X Nat)
          /\ \A i \in DOMAIN Append(chatLog[n], c) :
               Append(chatLog[n], c)[i] = c
                 \/ (i \in DOMAIN chatLog[n] /\ Append(chatLog[n], c)[i] = chatLog[n][i])
      BY <2>1, <3>1, Appended
    <3>3. SeenChats' \in [Nodes -> SUBSET (Nodes \X Nat)]
          /\ chatLog' \in [Nodes -> Seq(Nodes \X Nat)]
      BY <1>1, <2>1, <2>3, <3>2
    <3>4. ASSUME NEW q \in Nodes, NEW i \in DOMAIN chatLog'[q]
          PROVE  chatLog'[q][i] \in SeenChats'[q]
      <4>1. CASE q = n
        <5>1. chatLog'[q] = Append(chatLog[n], c) /\ SeenChats'[q] = SeenChats[n] \cup {c}
          BY <1>1, <2>3, <4>1
        <5> QED BY <3>2, <5>1 DEF LogSeen
      <4>2. CASE q # n
        <5>1. chatLog'[q] = chatLog[q] /\ SeenChats'[q] = SeenChats[q]
          BY <1>1, <2>3, <4>2
        <5> QED BY <5>1 DEF LogSeen
      <4> QED BY <4>1, <4>2
    <3>5. SeenSent'
      BY <1>1, <2>1, <2>3 DEF SeenSent
    <3>6. SentTimes'
      BY <1>2, <2>1 DEF SentTimes
    <3> QED BY <1>1, <2>1, <3>3, <3>4, <3>5, <3>6 DEF LogSeen
  <2> QED BY <2>1, <2>2, <2>3
<1> QED BY <1>3, <1>4, <1>5, NoChat

-----------------------------------------------------------------------------
(* Packets *)

\* A packet that may be sent: no later than its author's clock, a chat only if it
\* was put down as sent, a goodbye only of one who has left, and none of a node to
\* itself, unless it joins by itself.
Proper(x) ==
  /\ x \in Packet
  /\ x.env.time <= clock'[x.env.from]
  /\ x.env.kind = "chat" => <<x.env.from, x.env.time>> \in sent'
  /\ x.env.kind \in Direct /\ x.env.from = x.dst => ToItself(x.dst)
  /\ x.env.kind = "disconnect" => x.env.from \notin up'
  /\ x.env.kind = "suggestions" => x.dst \notin x.env.peers

\* What a node signs, and sends to nodes, is proper, but for chats.
LEMMA SignedProper ==
  ASSUME TypeOK, NEW n \in Nodes, NEW k \in {1, 2}, NEW j \in {1, 2}, j <= k, Ticks(n, k),
         NEW kind \in Kinds \ {"chat"}, NEW to \in Nodes, NEW P \in SUBSET Nodes,
         NEW D \in SUBSET Nodes, n \in D => ToItself(n),
         kind = "suggestions" => D \cap P = {}, kind = "disconnect" => n \notin up'
  PROVE  \A x \in Packets(Signed(kind, n, j, to, P), n, D) : Proper(x)
<1> DEFINE e == Signed(kind, n, j, to, P)
<1>1. e \in Envelope /\ e.kind = kind /\ e.from = n /\ e.time = clock[n] + j /\ e.peers = P
  BY SignedType DEF Signed
<1>2. clock[n] \in Nat /\ clock'[n] = clock[n] + k
  BY TicksClock DEF TypeOK
<1>3. e.time <= clock'[n]
  BY <1>1, <1>2
<1> HIDE DEF e
<1>4. \A x \in Packets(e, n, D) : x \in Packet /\ x.env = e /\ x.via = n /\ x.dst \in D
  BY <1>1, PacketsType DEF Packets
<1> QED BY <1>1, <1>3, <1>4 DEF Proper, e

\* A packet that is passed on is proper, if it is of a flood.
LEMMA PassedProper ==
  ASSUME TypeOK, NetSent, Departed, Next, NEW m \in net, m.env.kind \in Repeated,
         sent \subseteq sent', up' \subseteq up, NEW D \in SUBSET Nodes
  PROVE  \A x \in Packets(m.env, m.dst, D) : Proper(x)
<1>1. m.env \in Envelope /\ m.dst \in Nodes /\ m.env.from \in Nodes /\ m.env.time \in Nat
  BY PacketTypes
<1>2. \A x \in Packets(m.env, m.dst, D) : x \in Packet /\ x.env = m.env
  BY <1>1, PacketsType
<1>3. m.env.time <= clock[m.env.from] /\ clock[m.env.from] <= clock'[m.env.from]
  BY <1>1, ClockStep DEF NetSent
<1>4. clock[m.env.from] \in Nat /\ clock'[m.env.from] \in Nat
  BY <1>1, ClockStep DEF TypeOK
<1>5. m.env.time <= clock'[m.env.from]
  BY <1>1, <1>3, <1>4
<1>6. m.env.kind = "chat" => <<m.env.from, m.env.time>> \in sent'
  BY DEF NetSent
<1>7. m.env.kind = "disconnect" => m.env.from \notin up'
  BY DEF Departed
<1> QED BY <1>2, <1>5, <1>6, <1>7 DEF Proper, Repeated, Direct

\* A chat that is sent is proper.
LEMMA ChatProper ==
  ASSUME TypeOK, NEW n \in Nodes, SendChat(n)
  PROVE  \A x \in Packets(Signed("chat", n, 1, n, {}), n, Fronts(n)) : Proper(x)
<1> DEFINE e == Signed("chat", n, 1, n, {})
<1>1. e \in Envelope /\ e.kind = "chat" /\ e.from = n /\ e.time = clock[n] + 1
  <2>1. "chat" \in Kinds /\ {} \in SUBSET Nodes /\ 1 \in Nat
    BY DEF Kinds
  <2> QED BY <2>1, SignedType
<1>2. clock[n] \in Nat /\ clock'[n] = clock[n] + 1
  BY TicksClock DEF TypeOK, SendChat
<1>3. <<n, clock[n] + 1>> \in sent'
  BY DEF SendChat
<1>4. Fronts(n) \in SUBSET Nodes
  BY RoutedToPeers
<1> HIDE DEF e
<1>5. \A x \in Packets(e, n, Fronts(n)) : x \in Packet /\ x.env = e /\ x.via = n
  BY <1>1, <1>4, PacketsType
<1>6. e.time <= clock'[n]
  BY <1>1, <1>2
<1> QED BY <1>1, <1>3, <1>5, <1>6 DEF Proper, Direct, e

\* A pulse that is passed on is proper, too.
LEMMA PulseProper ==
  ASSUME TypeOK, NetSent, Next, NEW m \in net, m.env.kind = "pulse",
         NEW D \in SUBSET Nodes
  PROVE  \A x \in Packets(m.env, m.dst, D) : Proper(x)
<1>1. m.env \in Envelope /\ m.dst \in Nodes /\ m.env.from \in Nodes /\ m.env.time \in Nat
  BY PacketTypes
<1>2. \A x \in Packets(m.env, m.dst, D) : x \in Packet /\ x.env = m.env
  BY <1>1, PacketsType
<1>3. m.env.time <= clock[m.env.from] /\ clock[m.env.from] <= clock'[m.env.from]
  BY <1>1, ClockStep DEF NetSent
<1>4. clock[m.env.from] \in Nat /\ clock'[m.env.from] \in Nat
  BY <1>1, ClockStep DEF TypeOK
<1>5. m.env.time <= clock'[m.env.from]
  BY <1>1, <1>3, <1>4
<1> QED BY <1>2, <1>5 DEF Proper, Direct

\* An answer of a node to the author of a message.
LEMMA DirectProper ==
  ASSUME TypeOK, NEW m \in net, m.env.from = m.dst => ToItself(m.dst), Ticks(m.dst, 1),
         NEW kind \in Kinds \ {"chat", "disconnect"}, NEW P \in SUBSET (Nodes \ {m.env.from})
  PROVE  \A x \in Packets(Signed(kind, m.dst, 1, m.env.from, P), m.dst, {m.env.from}) :
           Proper(x)
<1>1. /\ m.dst \in Nodes /\ m.env.from \in Nodes /\ P \in SUBSET Nodes
      /\ {m.env.from} \in SUBSET Nodes /\ {m.env.from} \cap P = {}
      /\ m.dst \in {m.env.from} => ToItself(m.dst)
  BY PacketTypes
<1> QED BY <1>1, SignedProper

\* Every packet of the next state was there, or is proper.
LEMMA NetStep ==
  ASSUME TypeOK, NoSelf, NetSent, Departed, sent \subseteq sent', up' \subseteq up, Next,
         NEW x \in net'
  PROVE  x \in net \/ Proper(x)
<1>1. ASSUME NEW m \in net PROVE Remaining(m) \subseteq net
  BY DEF Remaining
<1>2. ASSUME NEW m \in net
      PROVE  /\ m.dst \in Nodes /\ m.env.from \in Nodes
             /\ table[m.dst] \in SUBSET Nodes
             /\ Meeting(m.dst, m.env.from, m.env.time) \in SUBSET Nodes
             /\ Suggested(m.dst, m.env.from) \in SUBSET (Nodes \ {m.env.from})
             /\ \A p : /\ route(m.dst, p) \in SUBSET Nodes
                       /\ m.dst \in route(m.dst, p) => ToItself(m.dst)
  <2>1. m.dst \in Nodes /\ m.env.from \in Nodes
    BY PacketTypes
  <2>2. table[m.dst] \in SUBSET Nodes /\ (m.dst \in table[m.dst] => ToItself(m.dst))
    BY <2>1 DEF TypeOK, NoSelf
  <2>3. \A p : route(m.dst, p) \subseteq table[m.dst]
    BY ClosestArePeers DEF route
  <2>4. Meeting(m.dst, m.env.from, m.env.time) \in SUBSET Nodes
    BY <2>1, <2>2 DEF Meeting
  <2>5. /\ Suggested(m.dst, m.env.from) \subseteq Nodes
        /\ m.env.from \notin Suggested(m.dst, m.env.from)
    BY <2>1, RoutedToPeers DEF Suggested
  <2> QED BY <2>1, <2>2, <2>3, <2>4, <2>5
<1>3. CASE \E m \in net : processBootstrap(m)
  <2>1. PICK m \in net : processBootstrap(m)
    BY <1>3
  <2>2. m.env.from = m.dst => ToItself(m.dst)
    BY <2>1 DEF processBootstrap, Arrives, NoSelf, Direct
  <2>3. Ticks(m.dst, 1)
        /\ x \in net \cup Packets(Signed("verifybs", m.dst, 1, m.env.from, {}), m.dst, {m.env.from})
    BY <2>1, <1>1 DEF processBootstrap
  <2> QED BY <2>2, <2>3, DirectProper DEF Kinds
<1>4. CASE \E m \in net : processVerify(m)
  <2>1. PICK m \in net : processVerify(m)
    BY <1>4
  <2>2. {m.env.from} \in SUBSET Nodes /\ (m.dst \in {m.env.from} => ToItself(m.dst))
    BY <1>2, <2>1 DEF processVerify, Arrives, NoSelf, Direct
  <2>3. Ticks(m.dst, 2)
        /\ x \in net \cup Packets(Signed("announce", m.dst, 1, m.dst, {}), m.dst, {m.env.from})
                     \cup Packets(Signed("request", m.dst, 2, m.env.from, {}), m.dst, {m.env.from})
    BY <2>1, <1>1 DEF processVerify
  <2>4. \A y \in Packets(Signed("announce", m.dst, 1, m.dst, {}), m.dst, {m.env.from}) : Proper(y)
    BY <1>2, <2>2, <2>3, SignedProper DEF Kinds
  <2>5. \A y \in Packets(Signed("request", m.dst, 2, m.env.from, {}), m.dst, {m.env.from}) : Proper(y)
    BY <1>2, <2>2, <2>3, SignedProper DEF Kinds
  <2> QED BY <2>3, <2>4, <2>5
<1>5. CASE \E m \in net : processSuggestionRequest(m)
  <2>1. PICK m \in net : processSuggestionRequest(m)
    BY <1>5
  <2>2. m.env.from = m.dst => ToItself(m.dst)
    BY <2>1 DEF processSuggestionRequest, Arrives, NoSelf, Direct
  <2>3. Ticks(m.dst, 1)
        /\ x \in net \cup Packets(Signed("suggestions", m.dst, 1, m.env.from,
                                         Suggested(m.dst, m.env.from)), m.dst, {m.env.from})
    BY <2>1, <1>1 DEF processSuggestionRequest
  <2>4. Suggested(m.dst, m.env.from) \in SUBSET (Nodes \ {m.env.from})
    BY <1>2
  <2> QED BY <2>2, <2>3, <2>4, DirectProper DEF Kinds
<1>6. CASE \E m \in net : processSuggestions(m)
  <2>1. PICK m \in net : processSuggestions(m)
    BY <1>6
  <2>2. x \in net \/ (/\ Ticks(m.dst, 1)
                      /\ \E q \in m.env.peers :
                           x \in Packets(Signed("request", m.dst, 1, q, {}), m.dst, {q}))
    BY <2>1, <1>1 DEF processSuggestions
  <2>3. m.dst \notin m.env.peers
    BY <2>1 DEF processSuggestions, Arrives, NoSelf
  <2>4. ASSUME NEW q \in m.env.peers, Ticks(m.dst, 1),
               x \in Packets(Signed("request", m.dst, 1, q, {}), m.dst, {q})
        PROVE  Proper(x)
    <3>1. q \in Nodes /\ {q} \in SUBSET Nodes /\ m.dst \notin {q}
      BY <2>3, PacketTypes
    <3> QED BY <1>2, <2>4, <3>1, SignedProper DEF Kinds
  <2> QED BY <2>2, <2>4
<1>7. CASE \E m \in net : processAnnounce(m)
  <2>1. PICK m \in net : processAnnounce(m)
    BY <1>7
  <2>2. m.env.kind \in Repeated
        /\ x \in net \cup Packets(m.env, m.dst, Meeting(m.dst, m.env.from, m.env.time))
    BY <2>1, <1>1 DEF processAnnounce, Arrives, Repeated
  <2> QED BY <1>2, <2>2, PassedProper
<1>8. CASE \E m \in net : processChat(m)
  <2>1. PICK m \in net : processChat(m)
    BY <1>8
  <2>2. m.env.kind \in Repeated /\ x \in net \cup Packets(m.env, m.dst, table[m.dst])
    BY <2>1, <1>1 DEF processChat, Arrives, Repeated, PassedOn
  <2> QED BY <1>2, <2>2, PassedProper
<1>9. CASE \E m \in net : processDisconnect(m)
  <2>1. PICK m \in net : processDisconnect(m)
    BY <1>9
  <2>2. m.env.kind \in Repeated
        /\ x \in net \cup Packets(m.env, m.dst, table[m.dst] \ {m.env.from})
    BY <2>1, <1>1 DEF processDisconnect, Arrives, Repeated
  <2>3. table[m.dst] \ {m.env.from} \in SUBSET Nodes
    BY <1>2
  <2> QED BY <2>2, <2>3, PassedProper
<1>10. CASE \E m \in net : processPing(m)
  <2>1. PICK m \in net : processPing(m)
    BY <1>10
  <2>2. Ticks(m.dst, 1)
        /\ x \in net \cup Packets(Signed("pulse", m.dst, 1, m.env.from, {}), m.dst,
                                  route(m.dst, m.env.from))
    BY <2>1, <1>1 DEF processPing
  <2>3. /\ route(m.dst, m.env.from) \in SUBSET Nodes
        /\ m.dst \in route(m.dst, m.env.from) => ToItself(m.dst)
    BY <1>2
  <2> QED BY <1>2, <2>2, <2>3, SignedProper DEF Kinds
<1>11. CASE \E m \in net : processPulse(m)
  <2>1. PICK m \in net : processPulse(m)
    BY <1>11
  <2>2. m.env.kind = "pulse"
        /\ x \in net \cup Packets(m.env, m.dst, route(m.dst, m.env.to))
    BY <2>1, <1>1 DEF processPulse, Arrives
  <2>3. route(m.dst, m.env.to) \in SUBSET Nodes
    BY <1>2
  <2> QED BY <2>2, <2>3, PulseProper
<1>12. CASE SendBootstrap
  <2>1. /\ sit.joiner \in Nodes /\ sit.contact \in Nodes /\ {sit.contact} \in SUBSET Nodes
        /\ sit.joiner \in {sit.contact} => ToItself(sit.joiner)
    BY SituationAssumption DEF TypeOK, Situation, ToItself
  <2>2. Ticks(sit.joiner, 1)
        /\ x \in net \cup Packets(Signed("bootstrap", sit.joiner, 1, sit.contact, {}),
                                  sit.joiner, {sit.contact})
    BY <1>12 DEF SendBootstrap
  <2> QED BY <2>1, <2>2, SignedProper DEF Kinds
<1>13. CASE \E n \in Nodes : SendChat(n)
  <2>1. PICK n \in Nodes : SendChat(n)
    BY <1>13
  <2>2. x \in net \cup Packets(Signed("chat", n, 1, n, {}), n, Fronts(n))
    BY <2>1 DEF SendChat
  <2> QED BY <2>1, <2>2, ChatProper
<1>14. CASE \E n \in Nodes : SendDisconnect(n)
  <2>1. PICK n \in Nodes : SendDisconnect(n)
    BY <1>14
  <2>2. Ticks(n, 1) /\ n \notin up'
        /\ x \in net \cup Packets(Signed("disconnect", n, 1, n, {}), n, table[n])
    BY <2>1 DEF SendDisconnect
  <2>3. table[n] \in SUBSET Nodes /\ (n \in table[n] => ToItself(n))
    BY DEF TypeOK, NoSelf
  <2> QED BY <2>2, <2>3, SignedProper DEF Kinds
<1>15. CASE \E n \in Nodes : \E S \in SUBSET table[n] : SendPings(n, S)
  <2>0. PICK n \in Nodes : \E S \in SUBSET table[n] : SendPings(n, S)
    BY <1>15
  <2>1. PICK S \in SUBSET table[n] : SendPings(n, S)
    BY <2>0
  <2>2. Ticks(n, 1) /\ x \in net \cup Packets(Signed("ping", n, 1, n, {}), n, table[n] \ S)
    BY <2>1 DEF SendPings
  <2>3. table[n] \ S \in SUBSET Nodes /\ (n \in table[n] \ S => ToItself(n))
    BY DEF TypeOK, NoSelf
  <2> QED BY <2>2, <2>3, SignedProper DEF Kinds
<1>16. CASE \E m \in net : Lose(m)
  BY <1>16 DEF Lose
<1>17. CASE \E n \in Nodes : WriteBack(n)
  BY <1>17 DEF WriteBack
<1> QED
  BY <1>3, <1>4, <1>5, <1>6, <1>7, <1>8, <1>9, <1>10, <1>11, <1>12, <1>13, <1>14, <1>15,
     <1>16, <1>17, Zenon
     DEF Next, Deliver, Command

-----------------------------------------------------------------------------
(* The invariant *)

\* No node takes itself for a peer, unless it joins by itself.
LEMMA TableOfOthers ==
  ASSUME TypeOK, NoSelf, Next
  PROVE  \A n \in Nodes : n \in table'[n] => ToItself(n)
<1> DEFINE Goal == \A n \in Nodes : n \in table'[n] => ToItself(n)
<1>1. table \in [Nodes -> SUBSET Nodes] /\ \A n \in Nodes : n \in table[n] => ToItself(n)
  BY DEF TypeOK, NoSelf
<1>2. ASSUME NEW n \in Nodes, NEW T, n \in T => ToItself(n),
             table' = [table EXCEPT ![n] = T]
      PROVE  Goal
  BY <1>1, <1>2
<1>3. ASSUME table' = table PROVE Goal
  BY <1>1, <1>3
<1>4. ASSUME NEW m \in net, m.env.from = m.dst => ToItself(m.dst),
             table' = [table EXCEPT ![m.dst] = Meeting(m.dst, m.env.from, m.env.time)]
      PROVE  Goal
  <2>1. m.dst \in Nodes
        /\ (m.dst \in Meeting(m.dst, m.env.from, m.env.time) => ToItself(m.dst))
    BY <1>1, <1>4, PacketTypes DEF Meeting
  <2> QED BY <1>2, <1>4, <2>1
<1>5. ASSUME NEW m \in net, \/ processBootstrap(m) \/ processVerify(m)
                            \/ processSuggestionRequest(m) \/ processSuggestions(m)
      PROVE  Goal
  <2>1. /\ m.env.from = m.dst => ToItself(m.dst)
        /\ table' = [table EXCEPT ![m.dst] = Meeting(m.dst, m.env.from, m.env.time)]
    BY <1>5 DEF processBootstrap, processVerify, processSuggestionRequest,
                processSuggestions, Arrives, Meet, NoSelf, Direct
  <2> QED BY <1>4, <2>1
<1>6. ASSUME NEW m \in net, processAnnounce(m) PROVE Goal
  BY <1>3, <1>4, <1>6 DEF processAnnounce, Meet
<1>7. ASSUME NEW m \in net, processDisconnect(m) PROVE Goal
  <2>1. /\ m.dst \in Nodes
        /\ m.dst \in table[m.dst] \ {m.env.from} => ToItself(m.dst)
        /\ table' = [table EXCEPT ![m.dst] = table[m.dst] \ {m.env.from}]
    BY <1>1, <1>7, PacketTypes DEF processDisconnect
  <2> QED BY <1>2, <2>1
<1>8. ASSUME NEW m \in net, processChat(m) \/ processPing(m) \/ processPulse(m) \/ Lose(m)
      PROVE  Goal
  BY <1>3, <1>8 DEF processChat, processPing, processPulse, Lose
<1>9. ASSUME NEW n \in Nodes, SendChat(n) \/ SendDisconnect(n) PROVE Goal
  BY <1>3, <1>9 DEF SendChat, SendDisconnect
<1>10. ASSUME NEW n \in Nodes, NEW S \in SUBSET table[n], SendPings(n, S) PROVE Goal
  <2>1. table' = [table EXCEPT ![n] = table[n] \ S]
        /\ (n \in table[n] \ S => ToItself(n))
    BY <1>1, <1>10 DEF SendPings
  <2> QED BY <1>2, <2>1
<1>11. CASE SendBootstrap
  BY <1>3, <1>11 DEF SendBootstrap
<1>12. ASSUME NEW n \in Nodes, WriteBack(n) PROVE Goal
  BY <1>3, <1>12 DEF WriteBack
<1> QED
  BY <1>5, <1>6, <1>7, <1>8, <1>9, <1>10, <1>11, <1>12, Zenon DEF Next, Deliver, Command

\* The situation stays, nobody comes back, and the commands run out.
LEMMA CommandStep ==
  ASSUME TypeOK, Next
  PROVE  sit' = sit /\ up' \subseteq up /\ left' \in 0..sit.commands
<1> DEFINE Goal == sit' = sit /\ up' \subseteq up /\ left' \in 0..sit.commands
<1>1. up \subseteq Nodes /\ left \in 0..sit.commands /\ sit.commands \in Nat
  BY SituationAssumption DEF TypeOK, Situation
<1>2. ASSUME UNCHANGED <<sit, up, left>> PROVE Goal
  BY <1>1, <1>2
<1>3. ASSUME NEW m \in net,
             \/ processBootstrap(m) \/ processVerify(m) \/ processSuggestionRequest(m)
             \/ processSuggestions(m) \/ processPing(m) \/ processAnnounce(m)
             \/ processChat(m) \/ processDisconnect(m) \/ processPulse(m) \/ Lose(m)
      PROVE  Goal
  <2>1. UNCHANGED <<sit, up, left>>
    BY <1>3 DEF processBootstrap, processVerify, processSuggestionRequest,
                processSuggestions, processPing, processAnnounce, processChat,
                processDisconnect, processPulse, Lose
  <2> QED BY <1>2, <2>1
<1>4. ASSUME NEW n \in Nodes, Uses(n), sit' = sit, up' = up \/ up' = up \ {n} PROVE Goal
  BY <1>1, <1>4 DEF Uses
<1>5. ASSUME NEW n \in Nodes, SendChat(n) \/ SendDisconnect(n) PROVE Goal
  BY <1>4, <1>5 DEF SendChat, SendDisconnect
<1>6. ASSUME NEW n \in Nodes, NEW S \in SUBSET table[n], SendPings(n, S) PROVE Goal
  BY <1>4, <1>6 DEF SendPings
<1>7. CASE SendBootstrap
  BY <1>2, <1>7 DEF SendBootstrap
<1>8. ASSUME NEW n \in Nodes, WriteBack(n) PROVE Goal
  BY <1>2, <1>8 DEF WriteBack
<1> QED BY <1>3, <1>5, <1>6, <1>7, <1>8, Zenon DEF Next, Deliver, Command

\* Who is taken for gone, whether the joiner has set out, and what is down as passed
\* on have their types.
LEMMA HistoryStep ==
  ASSUME TypeOK, Next
  PROVE  /\ stale' \in SUBSET (Nodes \X Nodes) /\ stale \subseteq stale'
         /\ joined' \in BOOLEAN /\ (joined => joined')
         /\ NoReroute' \in [Nodes -> SUBSET (Nodes \X Nat)]
<1> DEFINE Goal == /\ stale' \in SUBSET (Nodes \X Nodes) /\ stale \subseteq stale'
                   /\ joined' \in BOOLEAN /\ (joined => joined')
                   /\ NoReroute' \in [Nodes -> SUBSET (Nodes \X Nat)]
<1>1. /\ stale \in SUBSET (Nodes \X Nodes) /\ joined \in BOOLEAN
      /\ NoReroute \in [Nodes -> SUBSET (Nodes \X Nat)] /\ table \in [Nodes -> SUBSET Nodes]
  BY DEF TypeOK
<1>2. ASSUME UNCHANGED <<stale, joined, NoReroute>> PROVE Goal
  BY <1>1, <1>2
<1>3. ASSUME NEW m \in net,
             \/ processBootstrap(m) \/ processVerify(m) \/ processSuggestionRequest(m)
             \/ processSuggestions(m) \/ processPing(m) \/ processAnnounce(m)
             \/ processChat(m) \/ processDisconnect(m) \/ Lose(m)
      PROVE  Goal
  <2>1. UNCHANGED <<stale, joined, NoReroute>>
    BY <1>3 DEF processBootstrap, processVerify, processSuggestionRequest,
                processSuggestions, processPing, processAnnounce, processChat,
                processDisconnect, Lose
  <2> QED BY <1>2, <2>1
<1>4. ASSUME NEW m \in net, processPulse(m) PROVE Goal
  <2>1. m.dst \in Nodes /\ <<m.env.from, m.env.time>> \in Nodes \X Nat
    BY PacketTypes
  <2>2. stale' = stale /\ joined' = joined
    BY <1>4 DEF processPulse
  <2>3. CASE NoReroute' = NoReroute
    BY <1>2, <2>2, <2>3
  <2>4. CASE NoReroute' = [NoReroute EXCEPT ![m.dst] = @ \cup {<<m.env.from, m.env.time>>}]
    BY <1>1, <2>1, <2>2, <2>4
  <2> QED BY <1>4, <2>3, <2>4 DEF processPulse
<1>5. ASSUME NEW n \in Nodes, WriteBack(n) \/ SendChat(n) \/ SendDisconnect(n) PROVE Goal
  BY <1>2, <1>5 DEF WriteBack, SendChat, SendDisconnect
<1>6. ASSUME NEW n \in Nodes, NEW S \in SUBSET table[n], SendPings(n, S) PROVE Goal
  <2>1. stale' = stale \cup ({n} \X S) /\ joined' = joined /\ NoReroute' = NoReroute
    BY <1>6 DEF SendPings
  <2>2. {n} \X S \subseteq Nodes \X Nodes
    BY <1>1
  <2> QED BY <1>1, <2>1, <2>2
<1>7. CASE SendBootstrap
  BY <1>1, <1>7 DEF SendBootstrap
<1> QED BY <1>3, <1>4, <1>5, <1>6, <1>7, Zenon DEF Next, Deliver, Command

LEMMA OverlayInit == Init => OverlayInv
<1> SUFFICES ASSUME Init PROVE OverlayInv
  OBVIOUS
<1>1. sit \in Situation /\ sit.commands \in Nat /\ Everybody(sit) \subseteq Nodes
      /\ Present(sit) \subseteq Nodes
  BY SituationAssumption DEF Init, Situation, Everybody, Present
<1>2. NoCache \in Cache /\ Known \in Cache
  BY DEF NoCache, Known, Cache
<1>3. \A n \in Nodes : table[n] = IF n \in Present(sit) THEN Present(sit) \ {n} ELSE {}
  BY DEF Init
<1>4. \A n, p \in Nodes : cache[n][p] = IF p \in table[n] THEN Known ELSE NoCache
  BY DEF Init
<1>5. table \in [Nodes -> SUBSET Nodes] /\ cache \in [Nodes -> [Nodes -> Cache]]
  BY <1>1, <1>2 DEF Init
<1>6. /\ copy \in [Nodes -> SUBSET WriteBacks]
      /\ NoReroute \in [Nodes -> SUBSET (Nodes \X Nat)]
      /\ clock \in [Nodes -> Nat] /\ SeenChats \in [Nodes -> SUBSET (Nodes \X Nat)]
      /\ chatLog \in [Nodes -> Seq(Nodes \X Nat)]
      /\ \A n \in Nodes : DOMAIN chatLog[n] = {} /\ SeenChats[n] = {}
  BY DEF Init
<1>7. TypeOK
  <2>1. sit \in Situations /\ up \subseteq Nodes /\ left \in 0..sit.commands
    BY <1>1 DEF Init
  <2>2. sent = {} /\ stale = {} /\ net = {} /\ joined = FALSE
    BY DEF Init
  <2> QED BY <1>5, <1>6, <2>1, <2>2 DEF TypeOK
<1>8. NoSelf
  BY <1>3 DEF NoSelf, Init
<1>9. TablesFit
  <2>1. /\ Known.seen /\ Known.added /\ ~Known.disconnected
        /\ ~NoCache.added /\ ~NoCache.disconnected
    BY DEF Known, NoCache
  <2>2. ASSUME NEW n \in Nodes, NEW p \in Nodes, NEW e \in Entries(n, p)
        PROVE  e = cache[n][p]
    <3>1. copy[n] = {}
      BY DEF Init
    <3> QED BY <3>1, EntriesAre
  <2> QED BY <1>4, <2>1, <2>2 DEF TablesFit, CacheFits
<1>10. LogSeen /\ SeenSent
  BY <1>6 DEF LogSeen, SeenSent
<1>11. NetSent /\ SentTimes /\ Departed
  BY DEF NetSent, SentTimes, Departed, Init
<1> QED BY <1>7, <1>8, <1>9, <1>10, <1>11, OverlayParts

LEMMA OverlayStep == OverlayInv /\ [Next]_vars => OverlayInv'
<1> SUFFICES ASSUME OverlayInv, [Next]_vars PROVE OverlayInv'
  OBVIOUS
<1>1. TypeOK /\ NoSelf /\ TablesFit /\ Departed /\ LogSeen /\ SeenSent /\ NetSent /\ SentTimes
  BY OverlayParts
<1>2. CASE UNCHANGED vars
  <2>1. TablesFit'
    BY <1>1, <1>2 DEF TablesFit, CacheFits, Entries, vars
  <2>2. (TypeOK /\ NoSelf /\ Departed /\ LogSeen /\ SeenSent /\ NetSent /\ SentTimes)'
    BY <1>1, <1>2 DEF TypeOK, NoSelf, ToItself, Departed, LogSeen, SeenSent, NetSent,
                      SentTimes, vars
  <2> QED BY <2>1, <2>2, OverlayParts, PTL
<1>3. CASE Next
  <2>1. TablesTyped' /\ TablesFit'
    BY <1>1, <1>3, TableStep
  <2>2. clock' \in [Nodes -> Nat] /\ \A q \in Nodes : clock[q] <= clock'[q]
    BY <1>1, <1>3, ClockStep
  <2>3. /\ SeenChats' \in [Nodes -> SUBSET (Nodes \X Nat)]
        /\ chatLog' \in [Nodes -> Seq(Nodes \X Nat)]
        /\ sent \subseteq sent' /\ sent' \subseteq Nodes \X Nat
        /\ LogSeen' /\ SeenSent' /\ SentTimes'
    BY <1>1, <1>3, ChatStep
  <2>4. sit' = sit /\ up' \subseteq up /\ left' \in 0..sit.commands
    BY <1>1, <1>3, CommandStep
  <2>5. \A n \in Nodes : n \in table'[n] => ToItself(n)
    BY <1>1, <1>3, TableOfOthers
  <2>6. ASSUME NEW x \in net' PROVE Proper(x) \/ x \in net
    BY <1>1, <1>3, <2>3, <2>4, <2>6, NetStep
  <2>7. ASSUME NEW x \in net
        PROVE  /\ x \in Packet
               /\ x.env.time <= clock'[x.env.from]
               /\ x.env.kind = "chat" => <<x.env.from, x.env.time>> \in sent'
               /\ x.env.kind \in Direct /\ x.env.from = x.dst => ToItself(x.dst)
               /\ x.env.kind = "suggestions" => x.dst \notin x.env.peers
               /\ x.env.kind = "disconnect" => x.env.from \notin up'
    <3>1. x.env.from \in Nodes /\ x.env.time \in Nat
      BY <1>1, PacketTypes
    <3>2. x.env.time <= clock[x.env.from] /\ clock[x.env.from] <= clock'[x.env.from]
      BY <1>1, <2>2, <3>1 DEF NetSent
    <3>3. clock[x.env.from] \in Nat /\ clock'[x.env.from] \in Nat
      BY <1>1, <2>2, <3>1 DEF TypeOK
    <3>4. x.env.time <= clock'[x.env.from]
      BY <3>1, <3>2, <3>3
    <3> QED BY <1>1, <2>3, <2>4, <3>4 DEF TypeOK, NoSelf, NetSent, Departed
  <2>8. /\ \A x \in net' : x \in Packet
        /\ \A n : ToItself(n)' <=> ToItself(n)
    BY <2>4, <2>6, <2>7 DEF Proper, ToItself
  <2>9. NoSelf' /\ Departed' /\ NetSent'
    BY <2>5, <2>6, <2>7, <2>8 DEF Proper, NoSelf, Departed, NetSent
  <2>10. TypeOK'
    <3>1. /\ stale' \in SUBSET (Nodes \X Nodes) /\ joined' \in BOOLEAN
          /\ NoReroute' \in [Nodes -> SUBSET (Nodes \X Nat)]
      BY <1>1, <1>3, HistoryStep
    <3> QED BY <1>1, <2>1, <2>2, <2>3, <2>4, <2>8, <3>1 DEF TypeOK, TablesTyped
  <2>11. (/\ TypeOK /\ NoSelf /\ TablesFit /\ Departed /\ LogSeen /\ SeenSent /\ NetSent
          /\ SentTimes)'
    BY <2>1, <2>3, <2>9, <2>10
  <2> QED BY <2>11, OverlayParts, PTL
<1> QED BY <1>2, <1>3

\* Whoever joins by whom, itself included, and whichever marks are lost as caches are
\* written back: those in a table count as added and connected, no others do but
\* those that were taken for gone, and none that is there counts as gone otherwise;
\* no node is a peer of its own but one that was told to join by itself; what is
\* shown is down as seen, and what is seen was sent.
THEOREM Invariant == Spec => []OverlayInv
<1> QED BY OverlayInit, OverlayStep, PTL DEF Spec

-----------------------------------------------------------------------------
(* What it is for *)

\* In all situations, in whichever order, and however often the packets of a
\* flood come, a node shows a chat once, and only if it was sent.
THEOREM ShownOnce == Spec => ImplementsBroadcast
<1>1. Init => Main!Init
  BY DEF Init, Main!Init
<1>2. OverlayInv /\ [Next]_vars => [Main!Next]_(Main!vars)
  <2> SUFFICES ASSUME OverlayInv, [Next]_vars PROVE [Main!Next]_(Main!vars)
    OBVIOUS
  <2>1. TypeOK /\ LogSeen /\ NetSent /\ SentTimes
    BY OverlayParts
  <2>2. CASE UNCHANGED <<sent, SeenChats, chatLog>>
    BY <2>2 DEF Main!vars
  <2>3. ASSUME NEW n \in Nodes, SendChat(n) PROVE Main!Next
    <3>1. PICK c \in Nodes \X Nat :
            c \notin sent /\ sent' = sent \cup {c} /\ UNCHANGED <<SeenChats, chatLog>>
      BY <2>1, <2>3, ChatSent
    <3>2. c \in sent' \ sent
      BY <3>1
    <3> QED BY <3>1, <3>2 DEF Main!Next, Main!Say
  <2>4. ASSUME NEW m \in net, processChat(m) PROVE [Main!Next]_(Main!vars)
    <3>1. PICK n \in Nodes, c \in sent :
            /\ sent' = sent
            /\ \/ UNCHANGED <<SeenChats, chatLog>>
               \/ /\ c \notin SeenChats[n]
                  /\ chatLog' = [chatLog EXCEPT ![n] = Append(chatLog[n], c)]
      BY <2>1, <2>4, ChatHandled
    <3>2. CASE UNCHANGED <<SeenChats, chatLog>>
      BY <3>1, <3>2 DEF Main!vars
    <3>3. CASE /\ c \notin SeenChats[n]
               /\ chatLog' = [chatLog EXCEPT ![n] = Append(chatLog[n], c)]
      <4>1. \A i \in DOMAIN chatLog[n] : chatLog[n][i] # c
        BY <2>1, <3>3 DEF LogSeen
      <4> QED BY <3>1, <3>3, <4>1 DEF Main!Next, Main!Show
    <3> QED BY <3>1, <3>2, <3>3
  <2>5. CASE UNCHANGED vars
    BY <2>5 DEF vars, Main!vars
  <2>6. CASE Next
    BY <2>2, <2>3, <2>4, <2>6, NoChat
  <2> QED BY <2>5, <2>6
<1> QED BY <1>1, <1>2, Invariant, PTL DEF Spec, ImplementsBroadcast, Main!Spec

\* A peer is the nearest to itself, in whichever bucket it is.
LEMMA NearestToItself ==
  ASSUME TypeOK, NEW n \in Nodes, NEW p \in table[n], p # n
  PROVE  p \in route(n, p)
<1> DEFINE B == Bucket(n, table[n], p)
<1>1. p \in Nodes /\ n # p /\ table[n] \subseteq Nodes /\ Nodes \subseteq Ids
  BY IdsAssumption DEF TypeOK, Ids
<1>2. \A q \in Nodes : Distance[q][p] = BitXor(q, p)
  BY <1>1 DEF Distance
<1>3. \A q \in Nodes : Distance[q][p] \in Nat /\ (Distance[q][p] = 0 <=> q = p)
  BY <1>1, <1>2, IdsAssumption
<1>4. B \subseteq Nodes /\ p \in B
  BY <1>1 DEF Bucket
<1>5. {q \in B : Distance[q][p] < Distance[p][p]} = {}
  BY <1>1, <1>3, <1>4
<1>6. Cardinality({q \in B : Distance[q][p] < Distance[p][p]}) < 3
  BY <1>5, FS_EmptySet
<1>7. p \in findClosestN(n, p, 3)
  BY <1>4, <1>6 DEF findClosestN
<1>8. Distance[p][p] < Distance[n][p]
  BY <1>1, <1>3
<1> QED BY <1>7, <1>8 DEF route

\* Whatever the ids, the width of the ids and the size of the buckets, a node
\* answers the pings of its peers, but its own, directly, though it looks for their
\* author in one bucket.
THEOREM PeersAnswered == Spec => PingAnswered
<1> DEFINE Answer(m) == [env |-> Signed("pulse", m.dst, 1, m.env.from, {}),
                         via |-> m.dst, dst |-> m.env.from]
           Answered == \A m \in net :
                         processPing(m) /\ m.env.from \in table[m.dst] /\ m.env.from # m.dst
                           => Answer(m) \in net'
<1>1. OverlayInv => Answered
  <2> SUFFICES ASSUME OverlayInv, NEW m \in net, processPing(m),
                      m.env.from \in table[m.dst], m.env.from # m.dst
               PROVE  Answer(m) \in net'
    OBVIOUS
  <2>1. TypeOK /\ m.dst \in Nodes
    BY OverlayParts, PacketTypes
  <2>2. m.env.from \in route(m.dst, m.env.from)
    BY <2>1, NearestToItself
  <2>3. Packets(Signed("pulse", m.dst, 1, m.env.from, {}), m.dst,
                route(m.dst, m.env.from)) \subseteq net'
    BY DEF processPing
  <2> QED BY <2>2, <2>3 DEF Packets
<1>2. OverlayInv /\ [Next]_vars => [Answered]_vars
  BY <1>1
<1> QED BY <1>2, Invariant, PTL DEF Spec, PingAnswered
=============================================================================
