-------------------------- MODULE PeerTable_proofs --------------------------
(***************************************************************************)
(* Theorems about PeerTable, for any peers, any number of messages, and    *)
(* any order and repetition in which they come.                            *)
(***************************************************************************)
EXTENDS PeerTable, TLAPS

-----------------------------------------------------------------------------
(* Types *)

\* A cache entry stays one when its marks are set.
LEMMA CacheUpdates ==
  ASSUME NEW c \in Cache
  PROVE  /\ [c EXCEPT !.seen = TRUE] \in Cache
         /\ [c EXCEPT !.announced = TRUE] \in Cache
         /\ [c EXCEPT !.disconnected = TRUE] \in Cache
         /\ \A t \in 0..MaxTime :
              [c EXCEPT !.added = TRUE, !.disconnected = FALSE, !.time = t] \in Cache
BY DEF Cache

\* The empty cache entry and the empty list are what their types say.
LEMMA EmptyTypes == NoCache \in Cache /\ NoEntries \in Entries
BY BoundAssumption DEF NoCache, Cache, NoEntries, Entries

\* A handler that is not idle has a peer, a time and a copy.
LEMMA RecvFields ==
  ASSUME TypeOK, recv.pc # "idle"
  PROVE  /\ recv.from \in Peers /\ recv.time \in 1..MaxTime
         /\ recv.copy \in Cache /\ recv.flood \in BOOLEAN
         /\ recv = [pc |-> recv.pc, from |-> recv.from, time |-> recv.time,
                    copy |-> recv.copy, flood |-> recv.flood]
<1>1. recv # Idle
  BY DEF Idle
<1> QED BY <1>1 DEF TypeOK, RecvType

\* So does removeStalePeers.
LEMMA PingsFields ==
  ASSUME TypeOK, pings.pc # "idle"
  PROVE  pings.pc = "mark" /\ pings.peer \in Peers /\ pings.copy \in Cache
<1>1. pings # Idle
  BY DEF Idle
<1> QED BY <1>1 DEF TypeOK

\* What a handler starts with.
LEMMA AtType ==
  ASSUME NEW m \in Message, NEW c \in Cache, NEW flood \in BOOLEAN,
         NEW pc \in {"add", "set", "insert", "flood", "mark", "cache", "gone", "leave"}
  PROVE  At(pc, m, c, flood) \in RecvType
BY DEF At, RecvType, Message

\* What a handler goes on with.
LEMMA RecvGoesOn ==
  ASSUME TypeOK, recv.pc # "idle", NEW c \in Cache,
         NEW pc \in {"add", "set", "insert", "flood", "mark", "cache", "gone", "leave"}
  PROVE  /\ [recv EXCEPT !.pc = pc] \in RecvType
         /\ [recv EXCEPT !.pc = pc, !.copy = c] \in RecvType
         /\ Finish \in RecvType
<1>1. Idle \in RecvType
  BY DEF RecvType
<1>2. recv \in [pc : {"add", "set", "insert", "flood", "mark", "cache", "gone", "leave"},
                from : Peers, time : 1..MaxTime, copy : Cache, flood : BOOLEAN]
  BY DEF TypeOK, RecvType, Idle
<1>3. [recv EXCEPT !.pc = pc] \in RecvType
  BY <1>2 DEF RecvType
<1>4. [recv EXCEPT !.pc = pc, !.copy = c] \in RecvType
  BY <1>2 DEF RecvType
<1>5. Finish \in RecvType
  BY <1>1, <1>2 DEF Finish, RecvType
<1> QED BY <1>3, <1>4, <1>5

\* After addPeer comes the flood, or nothing.
LEMMA FinishPc ==
  ASSUME TypeOK, recv.pc # "idle"
  PROVE  Finish.pc \in {"idle", "flood"}
<1>1. CASE recv.flood
  <2>1. recv \in [pc : {"add", "set", "insert", "flood", "mark", "cache", "gone", "leave"},
                  from : Peers, time : 1..MaxTime, copy : Cache, flood : BOOLEAN]
    BY DEF TypeOK, RecvType, Idle
  <2>2. [recv EXCEPT !.pc = "flood"].pc = "flood"
    BY <2>1
  <2> QED BY <1>1, <2>2 DEF Finish
<1>2. CASE ~recv.flood
  BY <1>2 DEF Finish, Idle
<1> QED BY <1>1, <1>2

\* Sending keeps the network and the clocks within their types.
LEMMA SendType ==
  ASSUME TypeOK, NEW p \in Peers, NEW kind \in Kinds, Send(p, kind)
  PROVE  clock' \in [Peers -> 0..MaxTime] /\ net' \subseteq Message
<1>1. clock[p] \in 0..MaxTime /\ clock[p] < MaxTime
  BY DEF TypeOK, Send
<1>2. clock[p] + 1 \in 1..MaxTime
  BY <1>1, BoundAssumption
<1>3. clock' = [clock EXCEPT ![p] = clock[p] + 1] /\ clock \in [Peers -> 0..MaxTime]
  BY DEF Send, TypeOK
<1>4. clock'[p] \in 1..MaxTime /\ clock' \in [Peers -> 0..MaxTime]
  BY <1>2, <1>3
<1>5. [from |-> p, kind |-> kind, time |-> clock'[p]] \in Message
  BY <1>4 DEF Message
<1> QED BY <1>4, <1>5 DEF Send, TypeOK

\* Writing a cache entry and writing the entries of the table.
LEMMA SetType ==
  ASSUME TypeOK, NEW p \in Peers, NEW c \in Cache, Set(p, c)
  PROVE  cache' \in [Peers -> Cache]
BY CacheUpdates DEF Set, TypeOK

LEMMA SetFields ==
  ASSUME TypeOK, NEW p \in Peers, NEW c \in Cache, Set(p, c)
  PROVE  /\ cache'[p].seen
         /\ cache'[p].added = c.added
         /\ cache'[p].disconnected = c.disconnected
         /\ cache'[p].time = c.time
         /\ \A q \in Peers \ {p} : cache'[q] = cache[q]
<1>1. cache'[p] = [c EXCEPT !.seen = TRUE]
      /\ \A q \in Peers \ {p} : cache'[q] = cache[q]
  BY DEF Set, TypeOK
<1> QED BY <1>1 DEF Cache

LEMMA PutType ==
  ASSUME TypeOK, NEW p \in Peers, NEW e \in Entries, Put(p, e)
  PROVE  table' \in [Peers -> Entries]
BY DEF Put, TypeOK

\* The initial state is well typed.
LEMMA TypeInit == Init => TypeOK
BY EmptyTypes, BoundAssumption DEF Init, TypeOK, RecvType

\* Every step of a handler of Recv keeps every variable within its type.
LEMMA TypeRecv ==
  ASSUME TypeOK, \/ RecvStep
                 \/ \E m \in net : processMessage(m)
                 \/ \E p \in Peers : ProcessPulse(p)
  PROVE  TypeOK'
<1>0. net \subseteq Message /\ cache \in [Peers -> Cache] /\ table \in [Peers -> Entries]
      /\ recv \in RecvType /\ Idle \in RecvType
  BY DEF TypeOK, RecvType
<1>1. ASSUME NEW m \in net, ProcessHello(m) PROVE TypeOK'
  <2>1. m \in Message /\ cache[m.from] \in Cache
    BY <1>0 DEF Message
  <2>2. PICK f \in BOOLEAN :
          recv' \in {At("add", m, cache[m.from], f), At("flood", m, cache[m.from], f), Idle}
    BY <1>1 DEF ProcessHello
  <2>3. recv' \in RecvType
    BY <1>0, <2>1, <2>2, AtType
  <2> QED BY <1>1, <2>3 DEF ProcessHello, TypeOK, peerVars
<1>2. ASSUME NEW m \in net, CacheMinGet(m) PROVE TypeOK'
  <2>1. m \in Message /\ cache[m.from] \in Cache
    BY <1>0 DEF Message
  <2>2. recv' \in RecvType
    BY <1>2, <2>1, AtType DEF CacheMinGet
  <2> QED BY <1>2, <2>2 DEF CacheMinGet, TypeOK, peerVars
<1>3. ASSUME NEW m \in net, ProcessDisconnect(m) PROVE TypeOK'
  <2>1. m \in Message /\ m.from \in Peers
    BY <1>0 DEF Message
  <2>2. recv' \in RecvType
    BY <1>3, <2>1, AtType, EmptyTypes DEF ProcessDisconnect
  <2>3. table' \in [Peers -> Entries]
    BY <1>3, <2>1, PutType, EmptyTypes DEF ProcessDisconnect, RemovePeer
  <2> QED BY <1>3, <2>2, <2>3 DEF ProcessDisconnect, TypeOK, peerVars
<1>4. ASSUME NEW p \in Peers, ProcessPulse(p) PROVE TypeOK'
  <2>1. [fresh |-> table[p].fresh + table[p].stale, stale |-> 0] \in Entries
    BY <1>0 DEF Entries
  <2>2. table' \in [Peers -> Entries]
    BY <1>4, <2>1, PutType DEF ProcessPulse
  <2> QED BY <1>4, <2>2 DEF ProcessPulse, TypeOK, peerVars
<1>5. CASE AddGet
  <2>1. recv.pc # "idle" /\ recv.from \in Peers
    BY <1>5, RecvFields DEF AddGet
  <2>2. recv' \in RecvType
    BY <1>0, <1>5, <2>1, RecvGoesOn DEF AddGet
  <2> QED BY <1>5, <2>2 DEF AddGet, TypeOK, peerVars
<1>6. CASE AddSet
  <2>1. recv.pc # "idle" /\ recv.from \in Peers /\ recv.copy \in Cache
        /\ recv.time \in 0..MaxTime
    BY <1>6, RecvFields, BoundAssumption DEF AddSet
  <2>2. recv' \in RecvType
    BY <1>6, <2>1, RecvGoesOn DEF AddSet
  <2>3. cache' \in [Peers -> Cache]
    BY <1>6, <2>1, SetType, CacheUpdates DEF AddSet
  <2> QED BY <1>6, <2>2, <2>3 DEF AddSet, TypeOK, peerVars
<1>7. CASE AddInsert
  <2>1. recv.pc # "idle" /\ recv.from \in Peers
    BY <1>7, RecvFields DEF AddInsert
  <2>2. recv' \in RecvType
    BY <1>0, <1>7, <2>1, RecvGoesOn DEF AddInsert
  <2>3. [table[recv.from] EXCEPT !.fresh = @ + 1] \in Entries
    BY <1>0, <2>1 DEF Entries
  <2>4. table' \in [Peers -> Entries]
    BY <1>7, <2>1, <2>3, PutType DEF AddInsert
  <2> QED BY <1>7, <2>2, <2>4 DEF AddInsert, TypeOK, peerVars
<1>8. CASE FloodAnnounce
  <2>1. recv.pc # "idle" /\ recv.from \in Peers
    BY <1>8, RecvFields DEF FloodAnnounce
  <2>2. recv' \in RecvType
    BY <1>0, <1>8, <2>1, RecvGoesOn DEF FloodAnnounce
  <2> QED BY <1>8, <2>2 DEF FloodAnnounce, TypeOK, peerVars
<1>9. CASE MarkAnnounced
  <2>1. recv.from \in Peers /\ recv.copy \in Cache
    BY <1>9, RecvFields DEF MarkAnnounced
  <2>2. cache' \in [Peers -> Cache]
    BY <1>9, <2>1, SetType, CacheUpdates DEF MarkAnnounced
  <2> QED BY <1>0, <1>9, <2>2 DEF MarkAnnounced, TypeOK, peerVars
<1>10. CASE CacheMinSet
  <2>1. recv.from \in Peers /\ recv.copy \in Cache
    BY <1>10, RecvFields DEF CacheMinSet
  <2>2. cache' \in [Peers -> Cache]
    BY <1>10, <2>1, SetType DEF CacheMinSet
  <2> QED BY <1>0, <1>10, <2>2 DEF CacheMinSet, TypeOK, peerVars
<1>11. CASE DisconnectGet
  <2>1. recv.pc # "idle" /\ recv.from \in Peers
    BY <1>11, RecvFields DEF DisconnectGet
  <2>2. recv' \in RecvType
    BY <1>0, <1>11, <2>1, RecvGoesOn DEF DisconnectGet
  <2> QED BY <1>11, <2>2 DEF DisconnectGet, TypeOK, peerVars
<1>12. CASE DisconnectSet
  <2>1. recv.from \in Peers /\ recv.copy \in Cache
    BY <1>12, RecvFields DEF DisconnectSet
  <2>2. cache' \in [Peers -> Cache]
    BY <1>12, <2>1, SetType, CacheUpdates DEF DisconnectSet
  <2> QED BY <1>0, <1>12, <2>2 DEF DisconnectSet, TypeOK, peerVars
<1> QED BY <1>1, <1>2, <1>3, <1>4, <1>5, <1>6, <1>7, <1>8, <1>9, <1>10, <1>11, <1>12
        DEF RecvStep, processMessage

\* So does every step of SendPings and of the peers, and time.
LEMMA TypeOthers ==
  ASSUME TypeOK, \/ \E p \in Peers : Age(p) \/ RemoveStale(p)
                 \/ MarkStale
                 \/ \E p \in Peers : PeerNext(p)
  PROVE  TypeOK'
<1>1. ASSUME NEW p \in Peers, Age(p) PROVE TypeOK'
  <2>1. [fresh |-> table[p].fresh - 1, stale |-> table[p].stale + 1] \in Entries
    BY <1>1 DEF Age, TypeOK, Entries
  <2>2. table' \in [Peers -> Entries]
    BY <1>1, <2>1, PutType DEF Age
  <2> QED BY <1>1, <2>2 DEF Age, TypeOK, peerVars
<1>2. ASSUME NEW p \in Peers, RemoveStale(p) PROVE TypeOK'
  <2>1. [table[p] EXCEPT !.stale = 0] \in Entries /\ cache[p] \in Cache
    BY DEF TypeOK, Entries
  <2>2. table' \in [Peers -> Entries]
    BY <1>2, <2>1, PutType DEF RemoveStale
  <2>3. pings' \in {Idle} \cup [pc : {"mark"}, peer : Peers, copy : Cache]
    BY <1>2, <2>1 DEF RemoveStale
  <2> QED BY <1>2, <2>2, <2>3 DEF RemoveStale, TypeOK, peerVars
<1>3. CASE MarkStale
  <2>1. pings.peer \in Peers /\ pings.copy \in Cache
    BY <1>3, PingsFields DEF MarkStale
  <2>2. cache' \in [Peers -> Cache]
    BY <1>3, <2>1, SetType, CacheUpdates DEF MarkStale
  <2> QED BY <1>3, <2>2 DEF MarkStale, TypeOK, peerVars
<1>4. ASSUME NEW p \in Peers, NEW kind \in Kinds, Introduce(p, kind) PROVE TypeOK'
  BY <1>4, SendType DEF Introduce, TypeOK
<1>5. ASSUME NEW p \in Peers, Leave(p) PROVE TypeOK'
  BY <1>5, SendType DEF Leave, TypeOK, Kinds
<1>6. ASSUME NEW p \in Peers, Crash(p) \/ Start(p) \/ SendPulse(p) PROVE TypeOK'
  BY <1>6 DEF Crash, Start, SendPulse, TypeOK, peerVars
<1> QED BY <1>1, <1>2, <1>3, <1>4, <1>5, <1>6 DEF PeerNext, Kinds

\* Type correctness: the variables of the table, of the cache and of the two
\* goroutines that work on them have values of their types in every state.
THEOREM PeerTypeCorrect == Spec => []TypeOK
<1>1. TypeOK /\ UNCHANGED vars => TypeOK'
  BY DEF TypeOK, vars, peerVars
<1>2. TypeOK /\ [Next]_vars => TypeOK'
  BY <1>1, TypeRecv, TypeOthers DEF Next
<1> QED BY TypeInit, <1>2, PTL DEF Spec

-----------------------------------------------------------------------------
(* The table agrees with the cache *)

\* The parts of the invariant that are not about types.
Agree == /\ TableCached /\ TimeOfAdded /\ MarkingStale
         /\ Adding /\ Leaving /\ WritingBack

\* They hold at the beginning.
LEMMA AgreeInit == Init => Agree
BY DEF Init, Agree, TableCached, TimeOfAdded, MarkingStale, Adding, Leaving,
       WritingBack, RecvAt, Marking, Idle, NoCache

\* Reading the cache, and deciding on what to do, keeps them.
LEMMA AgreeHello ==
  ASSUME TypeOK, Agree, NEW m \in net, ProcessHello(m)
  PROVE  Agree'
<1> DEFINE c == cache[m.from]
<1>1. m.from \in Peers /\ m.time \in 1..MaxTime /\ c \in Cache
  BY DEF TypeOK, Message
<1>2. PICK f \in BOOLEAN :
        recv' = IF ~c.seen \/ ~c.added \/ Reconnecting(c, m.time) THEN At("add", m, c, f)
                ELSE IF f THEN At("flood", m, c, f) ELSE Idle
  BY DEF ProcessHello
<1>3. UNCHANGED <<cache, table, pings>>
  BY DEF ProcessHello
<1>4. TableCached' /\ TimeOfAdded' /\ MarkingStale'
  BY <1>3 DEF Agree, TableCached, TimeOfAdded, MarkingStale, Marking
<1>5. Adding'
  BY <1>1, <1>2, <1>3 DEF Agree, Adding, TableCached, MarkingStale, RecvAt, Marking, At, Idle, Reconnecting
<1>6. Leaving' /\ WritingBack'
  BY <1>1, <1>2, <1>3 DEF Leaving, WritingBack, RecvAt, At, Idle
<1> QED BY <1>4, <1>5, <1>6 DEF Agree

\* addPeer, up to writing the cache, keeps them:
LEMMA AgreeAdd ==
  ASSUME TypeOK, Agree, AddGet \/ AddSet
  PROVE  Agree'
<1>1. CASE AddGet
  <2>1. recv.pc = "add" /\ recv.from \in Peers /\ UNCHANGED <<cache, table, pings>>
    BY <1>1, RecvFields DEF AddGet
  <2>2. recv' = Finish \/ recv' = [recv EXCEPT !.pc = "set", !.copy = cache[recv.from]]
    BY <1>1 DEF AddGet
  <2>3. /\ recv'.pc \in {"idle", "flood", "set"}
        /\ recv'.pc = "set" => recv'.from = recv.from /\ recv'.time = recv.time
    <3>1. recv' = [recv EXCEPT !.pc = "set", !.copy = cache[recv.from]] =>
            /\ recv'.pc = "set" /\ recv'.from = recv.from /\ recv'.time = recv.time
      BY <2>1, RecvFields
    <3>2. Finish.pc \in {"idle", "flood"}
      BY <2>1, FinishPc
    <3> QED BY <2>2, <3>1, <3>2
  <2>4. Adding' /\ Leaving' /\ WritingBack'
    BY <2>1, <2>3 DEF Agree, Adding, Leaving, WritingBack, RecvAt, Marking
  <2> QED BY <2>1, <2>4 DEF Agree, TableCached, TimeOfAdded, MarkingStale, Marking
<1>2. CASE AddSet
  <2> DEFINE c == [recv.copy EXCEPT !.seen = TRUE, !.added = TRUE,
                                    !.disconnected = FALSE, !.time = recv.time]
  <2>1. /\ recv.pc = "set" /\ recv.from \in Peers /\ recv.copy \in Cache
        /\ recv.time \in 1..MaxTime /\ UNCHANGED <<table, pings>>
    BY <1>2, RecvFields DEF AddSet
  <2>2. c.seen /\ c.added /\ ~c.disconnected
    BY <2>1 DEF Cache
  <2>3. cache' = [cache EXCEPT ![recv.from] = c]
    BY <1>2, <2>1 DEF AddSet, Set, Cache
  <2>4. /\ cache'[recv.from] = c
        /\ \A p \in Peers \ {recv.from} : cache'[p] = cache[p]
    BY <2>1, <2>3 DEF TypeOK
  <2>5. recv'.pc = "insert" /\ recv'.from = recv.from
    BY <1>2, <2>1, RecvFields DEF AddSet
  <2>6. table[recv.from] = NoEntries /\ ~Marking(recv.from)
    BY <2>1 DEF Agree, Adding, RecvAt
  <2>7. TableCached' /\ TimeOfAdded' /\ MarkingStale'
    BY <2>1, <2>2, <2>4, <2>6 DEF Agree, TableCached, TimeOfAdded, MarkingStale, Marking
  <2>8. Adding' /\ Leaving' /\ WritingBack'
    BY <2>1, <2>2, <2>4, <2>5, <2>6 DEF Adding, Leaving, WritingBack, RecvAt, Marking
  <2> QED BY <2>7, <2>8 DEF Agree
<1> QED BY <1>1, <1>2

\* and so does putting the peer into the table, which it is not in.
LEMMA AgreeInsert ==
  ASSUME TypeOK, Agree, AddInsert
  PROVE  Agree'
<1>1. recv.pc = "insert" /\ recv.from \in Peers /\ pings.pc = "idle"
      /\ UNCHANGED <<cache, pings>>
  BY RecvFields DEF AddInsert, TableUnlocked
<1>2. /\ table[recv.from] = NoEntries
      /\ cache[recv.from].seen /\ cache[recv.from].added /\ ~cache[recv.from].disconnected
  BY <1>1 DEF Agree, Adding, RecvAt
<1>3. table'[recv.from] = [fresh |-> 1, stale |-> 0]
  BY <1>1, <1>2 DEF AddInsert, Put, NoEntries, TypeOK
<1>4. \A p \in Peers \ {recv.from} : table'[p] = table[p]
  BY <1>1 DEF AddInsert, Put, TypeOK
<1>5. recv'.pc = "idle" \/ recv'.pc = "flood"
  BY <1>1, FinishPc DEF AddInsert
<1>6. TableCached'
  BY <1>1, <1>2, <1>3, <1>4 DEF Agree, TableCached
<1>7. TimeOfAdded' /\ MarkingStale' /\ Adding' /\ Leaving' /\ WritingBack'
  BY <1>1, <1>5 DEF Agree, TimeOfAdded, MarkingStale, Marking, Adding, Leaving,
                    WritingBack, RecvAt
<1> QED BY <1>6, <1>7 DEF Agree

\* Reading an entry in order to write it back keeps them.
LEMMA AgreeRead ==
  ASSUME TypeOK, Agree,
         FloodAnnounce \/ \E m \in net : CacheMinGet(m)
  PROVE  Agree'
<1>1. UNCHANGED <<cache, table, pings>>
  BY DEF FloodAnnounce, CacheMinGet
<1>2. recv'.pc \in {"mark", "cache"} /\ recv'.from \in Peers
      /\ recv'.copy = cache[recv'.from]
  <2>1. CASE FloodAnnounce
    BY <2>1, RecvFields DEF FloodAnnounce
  <2>2. ASSUME NEW m \in net, CacheMinGet(m)
        PROVE  recv'.pc = "cache" /\ recv'.from = m.from /\ m.from \in Peers
               /\ recv'.copy = cache[m.from]
    BY <2>2 DEF CacheMinGet, At, TypeOK, Message
  <2> QED BY <2>1, <2>2
<1>3. Adding' /\ Leaving' /\ WritingBack'
  BY <1>2, <1>1 DEF Adding, Leaving, WritingBack, RecvAt
<1> QED BY <1>1, <1>3 DEF Agree, TableCached, TimeOfAdded, MarkingStale, Marking

\* Writing it back changes nothing that they say, but for the entry being there,
\* and for the mark of SendPings being lost.
LEMMA AgreeWriteBack ==
  ASSUME TypeOK, Agree, MarkAnnounced \/ CacheMinSet
  PROVE  Agree'
<1>1. /\ recv.pc \in {"mark", "cache"} /\ recv.from \in Peers /\ recv.copy \in Cache
      /\ recv'.pc = "idle" /\ UNCHANGED <<table, pings>>
  BY RecvFields DEF MarkAnnounced, CacheMinSet, Idle
<1>2. /\ cache'[recv.from].seen
      /\ cache'[recv.from].added = recv.copy.added
      /\ cache'[recv.from].disconnected = recv.copy.disconnected
      /\ cache'[recv.from].time = recv.copy.time
      /\ \A p \in Peers \ {recv.from} : cache'[p] = cache[p]
  <2>1. CASE MarkAnnounced
    <3> DEFINE c == [recv.copy EXCEPT !.announced = TRUE]
    <3>1. c \in Cache /\ c.added = recv.copy.added
          /\ c.disconnected = recv.copy.disconnected /\ c.time = recv.copy.time
      BY <1>1, CacheUpdates DEF Cache
    <3>2. Set(recv.from, c)
      BY <2>1 DEF MarkAnnounced
    <3> HIDE DEF c
    <3> QED BY <1>1, <3>1, <3>2, SetFields
  <2>2. CASE CacheMinSet
    BY <1>1, <2>2, SetFields DEF CacheMinSet
  <2> QED BY <2>1, <2>2
<1>3. /\ recv.copy.added = cache[recv.from].added
      /\ recv.copy.time = cache[recv.from].time
      /\ recv.copy.seen = cache[recv.from].seen
      /\ recv.copy.disconnected => cache[recv.from].disconnected
  BY <1>1 DEF Agree, WritingBack, RecvAt
<1>4. TableCached'
  BY <1>1, <1>2, <1>3 DEF Agree, TableCached
<1>5. TimeOfAdded'
  BY <1>1, <1>2, <1>3 DEF Agree, TimeOfAdded
<1>6. MarkingStale'
  BY <1>1, <1>2, <1>3 DEF Agree, MarkingStale, Marking
<1>7. Adding' /\ Leaving' /\ WritingBack'
  BY <1>1 DEF Adding, Leaving, WritingBack, RecvAt
<1> QED BY <1>4, <1>5, <1>6, <1>7 DEF Agree

\* A departure takes the peer out of the table, and stops what marks it.
LEMMA AgreeDisconnect ==
  ASSUME TypeOK, Agree, NEW m \in net, ProcessDisconnect(m)
  PROVE  Agree'
<1>1. m.from \in Peers /\ pings.pc = "idle" /\ UNCHANGED <<cache, pings>>
  BY DEF ProcessDisconnect, TableUnlocked, TypeOK, Message
<1>2. /\ table'[m.from] = NoEntries
      /\ \A p \in Peers \ {m.from} : table'[p] = table[p]
  BY <1>1 DEF ProcessDisconnect, RemovePeer, Put, TypeOK
<1>3. recv'.pc = "gone" /\ recv'.from = m.from
  BY DEF ProcessDisconnect, At
<1>4. TableCached'
  BY <1>1, <1>2 DEF Agree, TableCached
<1>5. Adding' /\ Leaving' /\ WritingBack'
  BY <1>1, <1>2, <1>3 DEF Adding, Leaving, WritingBack, RecvAt, Marking
<1>6. TimeOfAdded' /\ MarkingStale'
  BY <1>1 DEF Agree, TimeOfAdded, MarkingStale, Marking
<1> QED BY <1>4, <1>5, <1>6 DEF Agree

\* Its cache entry is read,
LEMMA AgreeLeaveRead ==
  ASSUME TypeOK, Agree, DisconnectGet
  PROVE  Agree'
<1>1. recv.pc = "gone" /\ recv.from \in Peers /\ UNCHANGED <<cache, table, pings>>
  BY RecvFields DEF DisconnectGet
<1>2. \/ recv'.pc = "idle"
      \/ recv'.pc = "leave" /\ recv'.from = recv.from /\ recv'.copy = cache[recv.from]
  BY <1>1, RecvFields DEF DisconnectGet, Idle
<1>3. Adding' /\ Leaving' /\ WritingBack'
  BY <1>1, <1>2 DEF Agree, Adding, Leaving, WritingBack, RecvAt, Marking
<1> QED BY <1>1, <1>3 DEF Agree, TableCached, TimeOfAdded, MarkingStale, Marking

\* and marked.
LEMMA AgreeLeave ==
  ASSUME TypeOK, Agree, DisconnectSet
  PROVE  Agree'
<1> DEFINE c == [recv.copy EXCEPT !.disconnected = TRUE]
<1>1. /\ recv.pc = "leave" /\ recv.from \in Peers /\ recv.copy \in Cache
      /\ recv'.pc = "idle" /\ UNCHANGED <<table, pings>> /\ Set(recv.from, c)
  BY RecvFields DEF DisconnectSet, Idle
<1>2. /\ table[recv.from] = NoEntries /\ ~Marking(recv.from)
      /\ recv.copy = cache[recv.from]
  BY <1>1 DEF Agree, Leaving, RecvAt
<1>3. c \in Cache /\ c.added = recv.copy.added /\ c.time = recv.copy.time
  BY <1>1, CacheUpdates DEF Cache
<1>4. /\ cache'[recv.from].seen
      /\ cache'[recv.from].added = cache[recv.from].added
      /\ cache'[recv.from].time = cache[recv.from].time
      /\ \A p \in Peers \ {recv.from} : cache'[p] = cache[p]
  <2> HIDE DEF c
  <2> QED BY <1>1, <1>2, <1>3, SetFields
<1>5. TableCached'
  BY <1>1, <1>2, <1>4 DEF Agree, TableCached
<1>6. TimeOfAdded'
  BY <1>1, <1>4 DEF Agree, TimeOfAdded
<1>7. MarkingStale'
  BY <1>1, <1>2, <1>4 DEF Agree, MarkingStale, Marking
<1>8. Adding' /\ Leaving' /\ WritingBack'
  BY <1>1 DEF Adding, Leaving, WritingBack, RecvAt
<1> QED BY <1>5, <1>6, <1>7, <1>8 DEF Agree

\* A pulse and the time that passes leave in the table who is in it.
LEMMA AgreeRefresh ==
  ASSUME TypeOK, Agree, NEW p \in Peers, ProcessPulse(p) \/ Age(p)
  PROVE  Agree'
<1>1. UNCHANGED <<cache, recv, pings>>
  BY DEF ProcessPulse, Age
<1>2. \A q \in Peers \ {p} : table'[q] = table[q]
  BY DEF ProcessPulse, Age, Put, TypeOK
<1>3. table[p] \in Entries
  BY DEF TypeOK
<1>4. CASE ProcessPulse(p)
  <2>1. table'[p] = [fresh |-> table[p].fresh + table[p].stale, stale |-> 0]
    BY <1>4 DEF ProcessPulse, Put, TypeOK
  <2>2. table[p] = NoEntries => table'[p] = NoEntries
    BY <2>1 DEF NoEntries
  <2>3. table'[p].fresh + table'[p].stale = table[p].fresh + table[p].stale
    BY <1>3, <2>1 DEF Entries
  <2> QED BY <1>1, <1>2, <2>2, <2>3 DEF Agree, TableCached, TimeOfAdded, MarkingStale,
                                        Adding, Leaving, WritingBack, RecvAt, Marking
<1>5. CASE Age(p)
  <2>1. table'[p] = [fresh |-> table[p].fresh - 1, stale |-> table[p].stale + 1]
    BY <1>5 DEF Age, Put, TypeOK
  <2>2. table[p] # NoEntries
    BY <1>5 DEF Age, NoEntries
  <2>3. table'[p].fresh + table'[p].stale = table[p].fresh + table[p].stale
    BY <1>3, <2>1 DEF Entries
  <2> QED BY <1>1, <1>2, <2>2, <2>3 DEF Agree, TableCached, TimeOfAdded, MarkingStale,
                                        Adding, Leaving, WritingBack, RecvAt, Marking
<1> QED BY <1>4, <1>5

\* A stale peer is taken out of the table, and is about to be marked;
LEMMA AgreeRemove ==
  ASSUME TypeOK, Agree, NEW p \in Peers, RemoveStale(p)
  PROVE  Agree'
<1>1. UNCHANGED <<cache, recv>> /\ pings.pc = "idle" /\ table[p].stale > 0
  BY DEF RemoveStale, TableUnlocked
<1>2. table[p] \in Entries /\ table[p] # NoEntries
  BY <1>1 DEF TypeOK, NoEntries
<1>3. /\ table[p].fresh + table[p].stale = 1
      /\ cache[p].seen /\ cache[p].added /\ ~cache[p].disconnected
  BY <1>2 DEF Agree, TableCached
<1>4. table[p].fresh = 0
  BY <1>1, <1>2, <1>3 DEF Entries
<1>5. table'[p] = [table[p] EXCEPT !.stale = 0]
      /\ \A q \in Peers \ {p} : table'[q] = table[q]
  BY DEF RemoveStale, Put, TypeOK
<1>6. table'[p] = NoEntries
  BY <1>2, <1>4, <1>5 DEF Entries, NoEntries
<1>7. pings' = [pc |-> "mark", peer |-> p, copy |-> cache[p]]
  BY <1>3 DEF RemoveStale
<1>8. ~RecvAt(p, {"add", "set"}) /\ ~RecvAt(p, {"insert"}) /\ ~RecvAt(p, {"gone", "leave"})
  BY <1>2 DEF Agree, Adding, Leaving
<1>9. TableCached' /\ TimeOfAdded'
  BY <1>1, <1>5, <1>6 DEF Agree, TableCached, TimeOfAdded
<1>10. MarkingStale'
  BY <1>1, <1>3, <1>6, <1>7 DEF MarkingStale, Marking
<1>11. Adding' /\ Leaving' /\ WritingBack'
  BY <1>1, <1>5, <1>7, <1>8 DEF Agree, Adding, Leaving, WritingBack, RecvAt, Marking
<1> QED BY <1>9, <1>10, <1>11 DEF Agree

\* it is marked, and no handler was about to add it or to mark it meanwhile.
LEMMA AgreeMark ==
  ASSUME TypeOK, Agree, MarkStale
  PROVE  Agree'
<1> DEFINE p == pings.peer
           c == [pings.copy EXCEPT !.disconnected = TRUE]
<1>1. /\ p \in Peers /\ pings.copy \in Cache /\ Marking(p)
      /\ pings'.pc = "idle" /\ UNCHANGED <<table, recv>> /\ Set(p, c)
  BY PingsFields DEF MarkStale, Marking, Idle
<1>2. /\ table[p] = NoEntries
      /\ cache[p].seen /\ cache[p].added
      /\ pings.copy.seen /\ pings.copy.added
      /\ pings.copy.time = cache[p].time
  BY <1>1 DEF Agree, MarkingStale
<1>3. c \in Cache /\ c.added = pings.copy.added /\ c.time = pings.copy.time /\ c.disconnected
  BY <1>1, CacheUpdates DEF Cache
<1>4. /\ cache'[p].seen /\ cache'[p].added /\ cache'[p].disconnected
      /\ cache'[p].time = cache[p].time
      /\ \A q \in Peers \ {p} : cache'[q] = cache[q]
  <2> HIDE DEF c
  <2> QED BY <1>1, <1>2, <1>3, SetFields
<1>5. ~RecvAt(p, {"add", "set"}) /\ ~RecvAt(p, {"insert"}) /\ ~RecvAt(p, {"gone", "leave"})
  BY <1>1 DEF Agree, Adding, Leaving
<1>6. TableCached' /\ TimeOfAdded'
  BY <1>1, <1>2, <1>4 DEF Agree, TableCached, TimeOfAdded
<1>7. MarkingStale'
  BY <1>1 DEF MarkingStale, Marking
<1>8. Adding' /\ Leaving' /\ WritingBack'
  <2> HIDE DEF p
  <2>1. Adding'
    BY <1>1, <1>4, <1>5 DEF Agree, Adding, RecvAt, Marking
  <2>2. Leaving'
    BY <1>1, <1>4, <1>5 DEF Agree, Leaving, RecvAt, Marking
  <2>3. WritingBack'
    BY <1>1, <1>2, <1>4 DEF Agree, WritingBack, RecvAt
  <2> QED BY <2>1, <2>2, <2>3
<1> QED BY <1>6, <1>7, <1>8 DEF Agree

\* The peers only send.
LEMMA AgreePeers ==
  ASSUME Agree, NEW p \in Peers, PeerNext(p)
  PROVE  Agree'
<1>1. UNCHANGED <<cache, table, recv, pings>>
  BY DEF PeerNext, Introduce, Leave, Crash, Start, SendPulse
<1> QED BY <1>1 DEF Agree, TableCached, TimeOfAdded, MarkingStale, Adding, Leaving,
                    WritingBack, RecvAt, Marking

\* Every step keeps the table and the cache in agreement.
LEMMA AgreeNext == TypeOK /\ Agree /\ [Next]_vars => Agree'
<1>1. Agree /\ UNCHANGED vars => Agree'
  BY DEF vars, Agree, TableCached, TimeOfAdded, MarkingStale, Adding, Leaving,
         WritingBack, RecvAt, Marking
<1>2. ASSUME TypeOK, Agree, NEW m \in net, processMessage(m) PROVE Agree'
  BY <1>2, AgreeHello, AgreeRead, AgreeDisconnect DEF processMessage
<1>3. ASSUME TypeOK, Agree, RecvStep PROVE Agree'
  BY <1>3, AgreeAdd, AgreeInsert, AgreeRead, AgreeWriteBack, AgreeLeaveRead, AgreeLeave
     DEF RecvStep
<1> QED BY <1>1, <1>2, <1>3, AgreeRefresh, AgreeRemove, AgreeMark, AgreePeers DEF Next

\* The inductive invariant: who is in the table counts as added and connected,
\* and what Recv and SendPings are about to do fits what they will find.
THEOREM PeerInvariant == Spec => []PeerInv
<1>1. TypeOK /\ Agree <=> PeerInv
  BY DEF Agree, PeerInv
<1>2. Init => Agree
  BY AgreeInit
<1>3. Spec => []Agree
  <2>1. TypeOK /\ Agree /\ [Next]_vars => Agree'
    BY AgreeNext
  <2> QED BY <1>2, <2>1, PeerTypeCorrect, PTL DEF Spec
<1> QED BY <1>1, <1>3, PeerTypeCorrect, PTL

\* addPeer looks at the cache and not at the table, and yet no peer gets into
\* the table twice.
THEOREM PeerListedOnce == Spec => []ListedOnce
<1>1. PeerInv => ListedOnce
  <2> SUFFICES ASSUME PeerInv, NEW p \in Peers
               PROVE  table[p].fresh + table[p].stale <= 1
    BY DEF ListedOnce
  <2>1. table[p] = NoEntries \/ table[p].fresh + table[p].stale = 1
    BY DEF PeerInv, TableCached
  <2> QED BY <2>1 DEF NoEntries
<1> QED BY <1>1, PeerInvariant, PTL

-----------------------------------------------------------------------------
(* What steps never do *)

\* The entry that a step leaves is the old one, or is for a later time, or is a
\* copy that was read earlier and has the same time.
LEMMA TimeStep ==
  ASSUME PeerInv, [Next]_vars, NEW p \in Peers
  PROVE  cache'[p].time >= cache[p].time
<1>0. TypeOK /\ Agree /\ cache[p].time \in Nat
  BY BoundAssumption DEF PeerInv, Agree, TypeOK, Cache
<1>1. CASE cache'[p] = cache[p]
  BY <1>0, <1>1
<1>2. CASE AddSet
  <2> DEFINE c == [recv.copy EXCEPT !.added = TRUE, !.disconnected = FALSE,
                                    !.time = recv.time]
  <2>1. recv.pc = "set" /\ recv.from \in Peers /\ recv.copy \in Cache
        /\ recv.time \in 1..MaxTime /\ Set(recv.from, c)
    BY <1>0, <1>2, RecvFields DEF AddSet
  <2>2. c \in Cache /\ c.time = recv.time
    <3>1. recv.time \in 0..MaxTime
      BY <2>1, BoundAssumption
    <3>2. c \in Cache
      BY <2>1, <3>1, CacheUpdates
    <3>3. c.time = recv.time
      BY <2>1 DEF Cache
    <3> QED BY <3>2, <3>3
  <2>3. cache'[recv.from].time = recv.time
        /\ \A q \in Peers \ {recv.from} : cache'[q] = cache[q]
    <3> HIDE DEF c
    <3> QED BY <1>0, <2>1, <2>2, SetFields
  <2>4. cache[recv.from].time = 0 \/ recv.time > cache[recv.from].time
    BY <1>0, <2>1 DEF Agree, Adding, TimeOfAdded, RecvAt
  <2>5. recv.time \in Nat /\ recv.time > 0
    BY <2>1, BoundAssumption
  <2>6. CASE p = recv.from
    BY <1>0, <2>3, <2>4, <2>5, <2>6
  <2>7. CASE p # recv.from
    BY <1>0, <2>3, <2>7
  <2> QED BY <2>6, <2>7
<1>3. CASE MarkAnnounced \/ CacheMinSet
  <2>0. recv.copy \in Cache
    BY <1>0, <1>3, RecvFields DEF MarkAnnounced, CacheMinSet
  <2>1. PICK c \in Cache : Set(recv.from, c) /\ c.time = recv.copy.time
    <3>1. /\ [recv.copy EXCEPT !.announced = TRUE] \in Cache
          /\ [recv.copy EXCEPT !.announced = TRUE].time = recv.copy.time
      BY <2>0, CacheUpdates DEF Cache
    <3> QED BY <1>3, <2>0, <3>1 DEF MarkAnnounced, CacheMinSet
  <2>2. recv.pc \in {"mark", "cache"} /\ recv.from \in Peers
    BY <1>0, <1>3, RecvFields DEF MarkAnnounced, CacheMinSet
  <2>3. recv.copy.time = cache[recv.from].time
    BY <1>0, <2>2 DEF Agree, WritingBack, RecvAt
  <2>4. cache'[p].time = cache[p].time
    BY <1>0, <2>1, <2>2, <2>3, SetFields
  <2> QED BY <1>0, <2>4
<1>4. CASE DisconnectSet
  <2>0. recv.copy \in Cache
    BY <1>0, <1>4, RecvFields DEF DisconnectSet
  <2>1. PICK c \in Cache : Set(recv.from, c) /\ c.time = recv.copy.time
    <3>1. /\ [recv.copy EXCEPT !.disconnected = TRUE] \in Cache
          /\ [recv.copy EXCEPT !.disconnected = TRUE].time = recv.copy.time
      BY <2>0, CacheUpdates DEF Cache
    <3> QED BY <1>4, <3>1 DEF DisconnectSet
  <2>2. recv.pc = "leave" /\ recv.from \in Peers
    BY <1>0, <1>4, RecvFields DEF DisconnectSet
  <2>3. recv.copy.time = cache[recv.from].time
    BY <1>0, <2>2 DEF Agree, Leaving, RecvAt
  <2>4. cache'[p].time = cache[p].time
    BY <1>0, <2>1, <2>2, <2>3, SetFields
  <2> QED BY <1>0, <2>4
<1>5. CASE MarkStale
  <2>0. pings.copy \in Cache
    BY <1>0, <1>5, PingsFields DEF MarkStale
  <2>1. PICK c \in Cache : Set(pings.peer, c) /\ c.time = pings.copy.time
    <3>1. /\ [pings.copy EXCEPT !.disconnected = TRUE] \in Cache
          /\ [pings.copy EXCEPT !.disconnected = TRUE].time = pings.copy.time
      BY <2>0, CacheUpdates DEF Cache
    <3> QED BY <1>5, <3>1 DEF MarkStale
  <2>2. pings.pc = "mark" /\ pings.peer \in Peers
    BY <1>0, <1>5, PingsFields DEF MarkStale
  <2>3. pings.copy.time = cache[pings.peer].time
    BY <1>0, <2>2 DEF Agree, MarkingStale, Marking
  <2>4. cache'[p].time = cache[p].time
    BY <1>0, <2>1, <2>2, <2>3, SetFields
  <2> QED BY <1>0, <2>4
<1>6. \/ cache' = cache
      \/ AddSet \/ MarkAnnounced \/ CacheMinSet \/ DisconnectSet \/ MarkStale
  BY DEF Next, processMessage, ProcessHello, CacheMinGet, ProcessDisconnect, ProcessPulse,
         RecvStep, AddGet, AddInsert, FloodAnnounce, DisconnectGet, Age, RemoveStale,
         PeerNext, Introduce, Leave, Crash, Start, SendPulse, vars
<1> QED BY <1>1, <1>2, <1>3, <1>4, <1>5, <1>6

\* The time for which a peer was added never goes back, whatever copies of its
\* entry are written back.
THEOREM PeerTimeNeverBack == Spec => TimeNeverBack
<1>1. PeerInv /\ [Next]_vars => [\A p \in Peers : cache'[p].time >= cache[p].time]_vars
  BY TimeStep
<1> QED BY <1>1, PeerInvariant, PTL DEF Spec, TimeNeverBack

\* What the conclusion of LostOnlyByWriteBack says of a peer.
WrittenBack(p) ==
  /\ RecvAt(p, {"mark", "cache"})
  /\ ~recv.copy.disconnected /\ cache[p].disconnected

\* A step that leaves the cache and the table alone loses nobody.
LEMMA LostByReading ==
  ASSUME PeerInv, NEW p \in Peers, ~Lost(p), Lost(p)',
         \/ \E m \in net : ProcessHello(m) \/ CacheMinGet(m)
         \/ AddGet \/ FloodAnnounce \/ DisconnectGet
         \/ \E q \in Peers : PeerNext(q)
         \/ UNCHANGED vars
  PROVE  FALSE
<1>0. TypeOK
  BY DEF PeerInv
<1>1. UNCHANGED <<cache, table, pings>>
  BY DEF ProcessHello, CacheMinGet, AddGet, FloodAnnounce, DisconnectGet, vars,
         PeerNext, Introduce, Leave, Crash, Start, SendPulse
<1>2. /\ cache[p].added /\ ~cache[p].disconnected /\ table[p] = NoEntries
      /\ ~Marking(p) /\ ~RecvAt(p, {"insert", "gone", "leave"})'
  BY <1>1 DEF Lost, Marking
<1>3. RecvAt(p, {"insert", "gone", "leave"})
  BY <1>2 DEF Lost
<1>4. DisconnectGet
  BY <1>2, <1>3 DEF RecvAt, ProcessHello, CacheMinGet, AddGet, FloodAnnounce, vars,
                    PeerNext, Introduce, Leave, Crash, Start, SendPulse
<1>5. recv' = [recv EXCEPT !.pc = "leave", !.copy = cache[p]]
  BY <1>2, <1>3, <1>4 DEF DisconnectGet, RecvAt
<1>6. recv'.pc = "leave" /\ recv'.from = p
  BY <1>0, <1>3, <1>5, RecvFields DEF RecvAt
<1> QED BY <1>2, <1>6 DEF RecvAt

\* A step that changes the table loses nobody: who is taken out of it is going
\* to be marked.
LEMMA LostByTable ==
  ASSUME PeerInv, NEW p \in Peers, ~Lost(p), Lost(p)',
         \/ AddInsert
         \/ \E m \in net : ProcessDisconnect(m)
         \/ \E q \in Peers : ProcessPulse(q) \/ Age(q) \/ RemoveStale(q)
  PROVE  FALSE
<1>0. TypeOK /\ Agree /\ table[p] \in Entries
  BY DEF PeerInv, Agree, TypeOK
<1>1. cache' = cache /\ cache[p].added /\ ~cache[p].disconnected /\ table'[p] = NoEntries
  BY DEF Lost, AddInsert, ProcessDisconnect, ProcessPulse, Age, RemoveStale
<1>2. CASE AddInsert
  <2>1. recv.pc = "insert" /\ recv.from \in Peers /\ UNCHANGED pings
    BY <1>0, <1>2, RecvFields DEF AddInsert
  <2>2. table'[recv.from] = [fresh |-> 1, stale |-> 0]
    BY <1>0, <1>2, <2>1 DEF AddInsert, Put, NoEntries, TypeOK, Agree, Adding, RecvAt
  <2>3. p # recv.from
    BY <1>1, <2>2 DEF NoEntries
  <2>4. table[p] = NoEntries
    BY <1>0, <1>1, <1>2, <2>1, <2>3 DEF AddInsert, Put, TypeOK
  <2> QED BY <1>1, <2>1, <2>3, <2>4 DEF Lost, RecvAt, Marking
<1>3. ASSUME NEW m \in net, ProcessDisconnect(m) PROVE FALSE
  <2>1. recv.pc = "idle" /\ m.from \in Peers /\ UNCHANGED pings
    BY <1>0, <1>3 DEF ProcessDisconnect, TypeOK, Message
  <2>2. recv'.pc = "gone" /\ recv'.from = m.from
    BY <1>3 DEF ProcessDisconnect, At
  <2>3. p # m.from
    BY <2>2 DEF Lost, RecvAt
  <2>4. table[p] = NoEntries
    BY <1>0, <1>1, <1>3, <2>3 DEF ProcessDisconnect, RemovePeer, Put, TypeOK
  <2> QED BY <1>1, <2>1, <2>4 DEF Lost, RecvAt, Marking
<1>4. ASSUME NEW q \in Peers, ProcessPulse(q) \/ Age(q) PROVE FALSE
  <2>1. UNCHANGED <<recv, pings>>
    BY <1>4 DEF ProcessPulse, Age
  <2>2. CASE p # q
    BY <1>0, <1>1, <1>4, <2>1, <2>2 DEF ProcessPulse, Age, Put, TypeOK, Lost, RecvAt, Marking
  <2>3. CASE p = q /\ ProcessPulse(q)
    <3>1. table[p].fresh + table[p].stale = 0
      BY <1>0, <1>1, <2>3 DEF ProcessPulse, Put, TypeOK, NoEntries
    <3>2. table[p] = NoEntries
      BY <1>0, <3>1 DEF Entries, NoEntries
    <3> QED BY <1>1, <2>1, <3>2 DEF Lost, RecvAt, Marking
  <2>4. CASE p = q /\ Age(q)
    <3>1. table[p].stale + 1 = 0
      BY <1>0, <1>1, <2>4 DEF Age, Put, TypeOK, NoEntries
    <3> QED BY <1>0, <3>1 DEF Entries
  <2> QED BY <1>4, <2>2, <2>3, <2>4
<1>5. ASSUME NEW q \in Peers, RemoveStale(q) PROVE FALSE
  <2>1. pings.pc = "idle" /\ UNCHANGED recv
    BY <1>5 DEF RemoveStale, TableUnlocked
  <2>2. CASE p = q
    <3>1. Marking(p)'
      BY <1>1, <1>5, <2>2 DEF RemoveStale, Marking
    <3> QED BY <3>1 DEF Lost
  <2>3. CASE p # q
    <3>1. table[p] = NoEntries
      BY <1>0, <1>1, <1>5, <2>3 DEF RemoveStale, Put, TypeOK
    <3> QED BY <1>1, <2>1, <3>1 DEF Lost, RecvAt, Marking
  <2> QED BY <2>2, <2>3
<1> QED BY <1>2, <1>3, <1>4, <1>5

\* Of the steps that change the cache, those that write back do.
LEMMA LostByCache ==
  ASSUME PeerInv, NEW p \in Peers, ~Lost(p), Lost(p)',
         AddSet \/ MarkAnnounced \/ CacheMinSet \/ DisconnectSet \/ MarkStale
  PROVE  WrittenBack(p)
<1>0. TypeOK /\ Agree
  BY DEF PeerInv, Agree
<1>1. table' = table /\ table[p] = NoEntries /\ cache'[p].added /\ ~cache'[p].disconnected
  BY DEF Lost, AddSet, MarkAnnounced, CacheMinSet, DisconnectSet, MarkStale
<1>2. CASE AddSet
  <2>1. recv.pc = "set" /\ recv.from \in Peers /\ UNCHANGED pings
    BY <1>0, <1>2, RecvFields DEF AddSet
  <2>2. recv'.pc = "insert" /\ recv'.from = recv.from
    BY <1>0, <1>2, <2>1, RecvFields DEF AddSet
  <2>3. p # recv.from
    BY <2>2 DEF Lost, RecvAt
  <2>4. cache'[p] = cache[p]
    BY <1>0, <1>2, <2>1, <2>3 DEF AddSet, Set, TypeOK
  <2> QED BY <1>1, <2>1, <2>3, <2>4 DEF Lost, RecvAt, Marking
<1>3. CASE MarkAnnounced \/ CacheMinSet
  <2>0. recv.pc \in {"mark", "cache"} /\ recv.from \in Peers /\ recv.copy \in Cache
        /\ recv'.pc = "idle" /\ UNCHANGED pings
    BY <1>0, <1>3, RecvFields DEF MarkAnnounced, CacheMinSet, Idle
  <2>1. PICK c \in Cache : Set(recv.from, c) /\ c.disconnected = recv.copy.disconnected
                           /\ c.added = recv.copy.added
    <3>1. /\ [recv.copy EXCEPT !.announced = TRUE] \in Cache
          /\ [recv.copy EXCEPT !.announced = TRUE].disconnected = recv.copy.disconnected
          /\ [recv.copy EXCEPT !.announced = TRUE].added = recv.copy.added
      BY <2>0, CacheUpdates DEF Cache
    <3> QED BY <1>3, <2>0, <3>1 DEF MarkAnnounced, CacheMinSet
  <2>2. CASE p # recv.from
    <3>1. cache'[p] = cache[p]
      BY <1>0, <2>0, <2>1, <2>2, SetFields
    <3> QED BY <1>1, <2>0, <2>2, <3>1 DEF Lost, RecvAt, Marking
  <2>3. CASE p = recv.from
    <3>1. cache'[p].added = recv.copy.added /\ cache'[p].disconnected = recv.copy.disconnected
      BY <1>0, <2>0, <2>1, <2>3, SetFields
    <3>2. recv.copy.added = cache[p].added
      BY <1>0, <2>0, <2>3 DEF Agree, WritingBack, RecvAt
    <3>3. ~Marking(p) /\ ~RecvAt(p, {"insert", "gone", "leave"})
      BY <2>0 DEF Lost, Marking, RecvAt
    <3>4. cache[p].disconnected
      BY <1>1, <3>1, <3>2, <3>3 DEF Lost
    <3> QED BY <1>1, <2>0, <2>3, <3>1, <3>4 DEF WrittenBack, RecvAt
  <2> QED BY <2>2, <2>3
<1>4. CASE DisconnectSet
  <2>0. recv.pc = "leave" /\ recv.from \in Peers /\ recv.copy \in Cache /\ UNCHANGED pings
    BY <1>0, <1>4, RecvFields DEF DisconnectSet
  <2>1. PICK c \in Cache : Set(recv.from, c) /\ c.disconnected
    <3>1. /\ [recv.copy EXCEPT !.disconnected = TRUE] \in Cache
          /\ [recv.copy EXCEPT !.disconnected = TRUE].disconnected
      BY <2>0, CacheUpdates DEF Cache
    <3> QED BY <1>4, <3>1 DEF DisconnectSet
  <2>2. p # recv.from
    BY <1>0, <1>1, <2>0, <2>1, SetFields
  <2>3. cache'[p] = cache[p]
    BY <1>0, <2>0, <2>1, <2>2, SetFields
  <2> QED BY <1>1, <2>0, <2>2, <2>3 DEF Lost, RecvAt, Marking
<1>5. CASE MarkStale
  <2>0. pings.pc = "mark" /\ pings.peer \in Peers /\ pings.copy \in Cache /\ UNCHANGED recv
    BY <1>0, <1>5, PingsFields DEF MarkStale
  <2>1. PICK c \in Cache : Set(pings.peer, c) /\ c.disconnected
    <3>1. /\ [pings.copy EXCEPT !.disconnected = TRUE] \in Cache
          /\ [pings.copy EXCEPT !.disconnected = TRUE].disconnected
      BY <2>0, CacheUpdates DEF Cache
    <3> QED BY <1>5, <3>1 DEF MarkStale
  <2>2. p # pings.peer
    BY <1>0, <1>1, <2>0, <2>1, SetFields
  <2>3. cache'[p] = cache[p]
    BY <1>0, <2>0, <2>1, <2>2, SetFields
  <2> QED BY <1>1, <2>0, <2>2, <2>3 DEF Lost, RecvAt, Marking
<1> QED BY <1>2, <1>3, <1>4, <1>5

\* A peer that counts as connected is lost to the table only when Recv writes
\* back an entry that it read before SendPings marked it.
THEOREM PeerLostOnlyByWriteBack == Spec => LostOnlyByWriteBack
<1>1. ASSUME PeerInv, [Next]_vars, NEW p \in Peers, ~Lost(p), Lost(p)'
      PROVE  WrittenBack(p)
  BY <1>1, LostByReading, LostByTable, LostByCache DEF Next, processMessage, RecvStep
<1>2. PeerInv /\ [Next]_vars =>
        [\A p \in Peers : ~Lost(p) /\ Lost(p)' => WrittenBack(p)]_vars
  BY <1>1
<1> QED BY <1>2, PeerInvariant, PTL DEF Spec, LostOnlyByWriteBack, WrittenBack
=============================================================================
