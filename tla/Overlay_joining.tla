-------------------------- MODULE Overlay_joining ---------------------------
(***************************************************************************)
(* Theorems about what messages bring about in Overlay, however many nodes *)
(* there are, whatever their ids and in whichever order packets come: a    *)
(* bootstrap makes the joiner known to everybody, and a chat that goes     *)
(* round is shown by everybody.  Neither needs fairness: no step breaks    *)
(* the chain of messages, and when there are no messages left its end has  *)
(* been reached.                                                           *)
(***************************************************************************)
EXTENDS Overlay_proofs

-----------------------------------------------------------------------------
(* The parts of the invariant *)

Introductions ==
  \A m \in net :
    /\ m.env.kind \in {"bootstrap", "announce", "request"} => m.env.from = sit.joiner
    /\ m.env.kind \in {"verifybs", "suggestions"} => m.dst = sit.joiner

Acquainted == \A x, y \in Present(sit) : x # y => cache[x][y].added

Unheard ==
  /\ table[sit.joiner] = {} /\ \A n \in Nodes : sit.joiner \notin table[n]
  /\ \A m \in net : m.env.from # sit.joiner /\ m.dst # sit.joiner

SomePassedOn ==
  \E n \in Present(sit) : \E e \in Entries(n, sit.joiner) : e.announced

UnderWayOrDone ==
  ~sit.lossy /\ Undivided =>
    (SomePassedOn => Reached) /\ (joined => Advances)

LEMMA JoiningParts ==
  JoiningInv <=>
    /\ up \subseteq Everybody(sit) /\ Introductions /\ Acquainted
    /\ ~joined /\ sit.joiner \notin Present(sit) => Unheard
    /\ UnderWayOrDone
BY DEF JoiningInv, Introductions, Acquainted, Unheard, UnderWayOrDone, SomePassedOn

\* Who is who.
LEMMA Roles ==
  ASSUME TypeOK
  PROVE  /\ sit.joiner \in Nodes /\ sit.contact \in Present(sit)
         /\ Present(sit) \subseteq Nodes
         /\ Everybody(sit) = Present(sit) \cup {sit.joiner}
BY SituationAssumption DEF TypeOK, Situation, Present, Everybody

-----------------------------------------------------------------------------
(* What a step does to a cache entry *)

\* d is what has become of an entry of y at x, with no new mark of an announcement.
Follows(x, y, d) ==
  \E e \in Entries(x, y) : (e.added => d.added) /\ (d.announced => e.announced)

\* x is being sent an announcement of y and passes it on.
Announcing(x, y) ==
  \E m \in net :
    /\ processAnnounce(m) /\ m.dst = x /\ m.env.from = y /\ x # y
    /\ Floods(cache[x][y], m.env.time)

\* Unless more is due than before, it is the entry in the cache that counts.
LEMMA FollowsKept ==
  ASSUME NEW x \in Nodes, NEW y \in Nodes, copy'[x] \subseteq copy[x],
         Follows(x, y, cache'[x][y]), NEW d \in Entries(x, y)'
  PROVE  Follows(x, y, d)
<1>1. CASE d = cache'[x][y]
  BY <1>1
<1>2. CASE d # cache'[x][y]
  <2>1. d \in Entries(x, y)
    BY <1>2, EntriesAre
  <2> QED BY <2>1 DEF Follows
<1> QED BY <1>1, <1>2

\* A meeting, or a mark of another kind.
LEMMA EntryFollows ==
  ASSUME TypeOK, NEW x \in Nodes, NEW y \in Nodes,
         NEW d, \/ d = cache[x][y]
                \/ d = [cache[x][y] EXCEPT !.seen = TRUE]
                \/ d = [cache[x][y] EXCEPT !.seen = TRUE, !.disconnected = TRUE]
                \/ \E t \in Nat : d = Met(cache[x][y], t)
  PROVE  Follows(x, y, d)
<1>1. cache[x][y] \in Cache /\ cache[x][y] \in Entries(x, y)
  BY EntriesAre DEF TypeOK
<1>2. \A t \in Nat : /\ Met(cache[x][y], t).announced = cache[x][y].announced
                     /\ cache[x][y].added => Met(cache[x][y], t).added
  BY <1>1 DEF Met, Cache
<1>3. (cache[x][y].added => d.added) /\ (d.announced => cache[x][y].announced)
  BY <1>1, <1>2 DEF Cache
<1> QED BY <1>1, <1>3 DEF Follows

LEMMA EntryStep ==
  ASSUME TypeOK, Next, NEW x \in Nodes, NEW y \in Nodes, NEW d \in Entries(x, y)'
  PROVE  Follows(x, y, d) \/ (Announcing(x, y) /\ d # cache'[x][y])
<1> DEFINE Goal == Follows(x, y, d) \/ (Announcing(x, y) /\ d # cache'[x][y])
<1>1. cache \in [Nodes -> [Nodes -> Cache]] /\ copy \in [Nodes -> SUBSET WriteBacks]
  BY DEF TypeOK
<1>2. ASSUME copy'[x] \subseteq copy[x],
             \/ cache'[x][y] = cache[x][y]
             \/ cache'[x][y] = [cache[x][y] EXCEPT !.seen = TRUE, !.disconnected = TRUE]
             \/ \E t \in Nat : cache'[x][y] = Met(cache[x][y], t)
      PROVE  Follows(x, y, d)
  <2>1. Follows(x, y, cache'[x][y])
    BY <1>2, EntryFollows
  <2> QED BY <1>2, <2>1, FollowsKept
<1>3. ASSUME NEW m \in net, Meet(m.dst, m.env.from, m.env.time)
      PROVE  cache'[x][y] = cache[x][y] \/ \E t \in Nat : cache'[x][y] = Met(cache[x][y], t)
  <2>1. m.dst \in Nodes /\ m.env.from \in Nodes /\ m.env.time \in Nat
    BY PacketTypes
  <2>2. cache' = [cache EXCEPT ![m.dst][m.env.from] = Met(@, m.env.time)]
    BY <1>3 DEF Meet
  <2>3. cache'[x][y] = IF x = m.dst /\ y = m.env.from THEN Met(cache[x][y], m.env.time)
                       ELSE cache[x][y]
    BY <1>1, <2>1, <2>2
  <2> QED BY <2>1, <2>3
<1>4. ASSUME NEW m \in net, \/ processBootstrap(m) \/ processVerify(m)
                            \/ processSuggestionRequest(m) \/ processSuggestions(m)
      PROVE  Goal
  <2>1. Meet(m.dst, m.env.from, m.env.time) /\ copy' = copy
    BY <1>4 DEF processBootstrap, processVerify, processSuggestionRequest, processSuggestions
  <2> QED BY <1>2, <1>3, <2>1
<1>5. ASSUME NEW m \in net, processAnnounce(m) PROVE Goal
  <2>1. CASE m.env.from = m.dst
    BY <1>2, <1>5, <2>1 DEF processAnnounce
  <2>2. CASE m.env.from # m.dst /\ copy'[x] \subseteq copy[x]
    <3>1. Meet(m.dst, m.env.from, m.env.time)
      BY <1>5, <2>2 DEF processAnnounce
    <3> QED BY <1>2, <1>3, <2>2, <3>1
  <2>3. CASE m.env.from # m.dst /\ ~(copy'[x] \subseteq copy[x])
    <3> DEFINE n == m.dst
               p == m.env.from
               w == [peer |-> p, entry |-> Announced(Met(cache[n][p], m.env.time))]
    <3>1. Floods(cache[n][p], m.env.time) /\ copy' = [copy EXCEPT ![n] = {w}]
      BY <1>5, <2>3 DEF processAnnounce
    <3>2. n = x /\ copy'[x] = {w}
      BY <1>1, <2>3, <3>1
    <3>3. Meet(n, p, m.env.time)
      BY <1>5, <2>3 DEF processAnnounce
    <3>4. Follows(x, y, cache'[x][y])
      BY <1>3, <3>3, EntryFollows
    <3>5. CASE d = cache'[x][y]
      BY <3>4, <3>5
    <3>6. CASE d # cache'[x][y]
      <4>1. w.peer = y
        BY <3>2, <3>6, EntriesAre
      <4>2. p = y
        BY <4>1
      <4>3. Announcing(x, y)
        BY <1>5, <2>3, <3>1, <3>2, <4>2 DEF Announcing
      <4> QED BY <3>6, <4>3
    <3> QED BY <3>5, <3>6
  <2> QED BY <2>1, <2>2, <2>3
<1>6. ASSUME NEW m \in net, processDisconnect(m) PROVE Goal
  <2> DEFINE c == cache[m.dst][m.env.from]
  <2>1. m.dst \in Nodes /\ m.env.from \in Nodes /\ copy' = copy
    BY <1>6, PacketTypes DEF processDisconnect
  <2>2. CASE cache' = cache
    BY <1>2, <2>1, <2>2
  <2>3. CASE cache' = [cache EXCEPT ![m.dst][m.env.from] =
                         [c EXCEPT !.seen = TRUE, !.disconnected = TRUE]]
    <3>1. cache'[x][y] = IF x = m.dst /\ y = m.env.from
                           THEN [c EXCEPT !.seen = TRUE, !.disconnected = TRUE]
                         ELSE cache[x][y]
      BY <1>1, <2>1, <2>3
    <3> QED BY <1>2, <2>1, <3>1
  <2> QED BY <1>6, <2>2, <2>3 DEF processDisconnect
<1>7. ASSUME NEW m \in net, processChat(m) PROVE Goal
  <2> DEFINE w == [peer |-> m.env.from,
                   entry |-> [cache[m.dst][m.env.from] EXCEPT !.seen = TRUE]]
  <2>1. cache' = cache /\ copy' = [copy EXCEPT ![m.dst] = {w}]
    BY <1>7 DEF processChat, CacheMin
  <2>2. CASE x # m.dst
    <3>1. copy'[x] = copy[x]
      BY <1>1, <2>1, <2>2
    <3> QED BY <1>2, <2>1, <3>1
  <2>3. CASE x = m.dst
    <3>1. copy'[x] = {w}
      BY <1>1, <2>1, <2>3
    <3>2. d = cache[x][y] \/ (w.peer = y /\ d = w.entry)
      BY <2>1, <3>1, EntriesAre
    <3>3. d = cache[x][y] \/ d = [cache[x][y] EXCEPT !.seen = TRUE]
      BY <2>3, <3>2
    <3> QED BY <3>3, EntryFollows
  <2> QED BY <2>2, <2>3
<1>8. ASSUME UNCHANGED <<cache, copy>> PROVE Goal
  BY <1>2, <1>8
<1>9. ASSUME NEW m \in net, processPing(m) \/ processPulse(m) \/ Lose(m) PROVE Goal
  BY <1>8, <1>9 DEF processPing, processPulse, Lose
<1>10. ASSUME NEW n \in Nodes, SendChat(n) \/ SendDisconnect(n) PROVE Goal
  BY <1>8, <1>10 DEF SendChat, SendDisconnect
<1>11. CASE SendBootstrap
  BY <1>8, <1>11 DEF SendBootstrap
<1>12. ASSUME NEW n \in Nodes, NEW S \in SUBSET table[n], SendPings(n, S) PROVE Goal
  <2>1. cache'[x][y] = cache[x][y]
          \/ cache'[x][y] = [cache[x][y] EXCEPT !.seen = TRUE, !.disconnected = TRUE]
    BY <1>1, <1>12 DEF SendPings
  <2>2. CASE copy' = copy
    BY <1>2, <2>1, <2>2
  <2>3. CASE copy' = [copy EXCEPT ![n] = {w \in @ : w.peer \notin S}]
    <3>1. copy'[x] \subseteq copy[x]
      BY <1>1, <2>3
    <3> QED BY <1>2, <2>1, <3>1
  <2> QED BY <1>12, <2>2, <2>3 DEF SendPings
<1>13. ASSUME NEW n \in Nodes, WriteBack(n) PROVE Goal
  <2>1. PICK w \in copy[n] : cache' = [cache EXCEPT ![n][w.peer] = w.entry]
    BY <1>13 DEF WriteBack
  <2>2. copy' = [copy EXCEPT ![n] = {}]
    BY <1>13 DEF WriteBack
  <2>3. w.peer \in Nodes
    BY <1>1, <2>1 DEF WriteBacks
  <2>4. copy'[x] \subseteq copy[x]
    BY <1>1, <2>2
  <2>5. cache'[x][y] = IF x = n /\ y = w.peer THEN w.entry ELSE cache[x][y]
    BY <1>1, <2>1, <2>3
  <2>6. cache'[x][y] \in Entries(x, y)
    BY <2>1, <2>5, EntriesAre
  <2>7. Follows(x, y, cache'[x][y])
    BY <2>6 DEF Follows
  <2> QED BY <2>4, <2>7, FollowsKept
<1> QED
  BY <1>4, <1>5, <1>6, <1>7, <1>9, <1>10, <1>11, <1>12, <1>13, Zenon DEF Next, Deliver, Command

\* Who was added once stays so, whatever is written back.
LEMMA AddedStays ==
  ASSUME TypeOK, TablesFit, Next, NEW x \in Nodes, NEW y \in Nodes, cache[x][y].added
  PROVE  cache'[x][y].added
<1>1. \A e \in Entries(x, y) : e.added
  BY DEF TablesFit, CacheFits
<1>2. Follows(x, y, cache'[x][y])
  BY EntryStep, EntriesAre
<1> QED BY <1>1, <1>2 DEF Follows

\* Who is about to mark an announcement as passed on, or has, is being sent it,
\* or was so before.
LEMMA AnnouncedNow ==
  ASSUME TypeOK, Next, NEW x \in Nodes, NEW y \in Nodes,
         \E d \in Entries(x, y)' : d.announced
  PROVE  (\E e \in Entries(x, y) : e.announced) \/ Announcing(x, y)
BY EntryStep DEF Follows

-----------------------------------------------------------------------------
(* Who introduces itself to whom *)

\* x is not an introduction, or it is the joiner's.
Fitting(x) ==
  /\ x.env.kind \in {"bootstrap", "announce", "request"} => x.env.from = sit.joiner
  /\ x.env.kind \in {"verifybs", "suggestions"} => x.dst = sit.joiner

\* What is passed on.
LEMMA PassedFitting ==
  ASSUME Introductions, NEW m \in net, m.env.kind \notin {"verifybs", "suggestions"}, NEW D,
         NEW x \in Packets(m.env, m.dst, D)
  PROVE  Fitting(x)
BY DEF Introductions, Fitting, Packets

\* What is signed.
LEMMA SignedFitting ==
  ASSUME NEW kind, NEW n, NEW k, NEW to, NEW P, NEW D,
         NEW x \in Packets(Signed(kind, n, k, to, P), n, D),
         kind \in {"bootstrap", "announce", "request"} => n = sit.joiner,
         kind \in {"verifybs", "suggestions"} => D = {sit.joiner}
  PROVE  Fitting(x)
BY DEF Fitting, Packets, Signed

LEMMA NewFitting ==
  ASSUME TypeOK, Introductions, Next, NEW x \in net', x \notin net
  PROVE  Fitting(x)
<1>1. \A m \in net : Remaining(m) \subseteq net
  BY DEF Remaining
<1>2. ASSUME NEW m \in net, processBootstrap(m) PROVE Fitting(x)
  <2>1. m.env.from = sit.joiner
        /\ x \in Packets(Signed("verifybs", m.dst, 1, m.env.from, {}), m.dst, {m.env.from})
    BY <1>1, <1>2 DEF processBootstrap, Arrives, Introductions
  <2> QED BY <2>1, SignedFitting
<1>3. ASSUME NEW m \in net, processVerify(m) PROVE Fitting(x)
  <2>1. m.dst = sit.joiner
        /\ x \in Packets(Signed("announce", m.dst, 1, m.dst, {}), m.dst, {m.env.from})
                   \cup Packets(Signed("request", m.dst, 2, m.env.from, {}), m.dst, {m.env.from})
    BY <1>1, <1>3 DEF processVerify, Arrives, Introductions
  <2>2. CASE x \in Packets(Signed("announce", m.dst, 1, m.dst, {}), m.dst, {m.env.from})
    BY <2>1, <2>2, SignedFitting
  <2>3. CASE x \in Packets(Signed("request", m.dst, 2, m.env.from, {}), m.dst, {m.env.from})
    BY <2>1, <2>3, SignedFitting
  <2> QED BY <2>1, <2>2, <2>3
<1>4. ASSUME NEW m \in net, processAnnounce(m) PROVE Fitting(x)
  <2>1. m.env.kind = "announce"
        /\ x \in Packets(m.env, m.dst, Meeting(m.dst, m.env.from, m.env.time))
    BY <1>1, <1>4 DEF processAnnounce, Arrives
  <2> QED BY <2>1, PassedFitting
<1>5. ASSUME NEW m \in net, processSuggestionRequest(m) PROVE Fitting(x)
  <2>1. m.env.from = sit.joiner
        /\ x \in Packets(Signed("suggestions", m.dst, 1, m.env.from,
                                Suggested(m.dst, m.env.from)), m.dst, {m.env.from})
    BY <1>1, <1>5 DEF processSuggestionRequest, Arrives, Introductions
  <2> QED BY <2>1, SignedFitting
<1>6. ASSUME NEW m \in net, processSuggestions(m) PROVE Fitting(x)
  <2>1. m.dst = sit.joiner
        /\ \E q : x \in Packets(Signed("request", m.dst, 1, q, {}), m.dst, {q})
    BY <1>1, <1>6 DEF processSuggestions, Arrives, Introductions
  <2> QED BY <2>1, SignedFitting
<1>7. ASSUME NEW m \in net, processChat(m) PROVE Fitting(x)
  <2>1. m.env.kind = "chat" /\ x \in Packets(m.env, m.dst, PassedOn(m))
    BY <1>1, <1>7 DEF processChat, Arrives
  <2> QED BY <2>1, PassedFitting
<1>8. ASSUME NEW m \in net, processDisconnect(m) PROVE Fitting(x)
  <2>1. m.env.kind = "disconnect"
        /\ x \in Packets(m.env, m.dst, table[m.dst] \ {m.env.from})
    BY <1>1, <1>8 DEF processDisconnect, Arrives
  <2> QED BY <2>1, PassedFitting
<1>9. ASSUME NEW m \in net, processPing(m) PROVE Fitting(x)
  <2>1. x \in Packets(Signed("pulse", m.dst, 1, m.env.from, {}), m.dst,
                      route(m.dst, m.env.from))
    BY <1>1, <1>9 DEF processPing
  <2> QED BY <2>1, SignedFitting
<1>10. ASSUME NEW m \in net, processPulse(m) PROVE Fitting(x)
  <2>1. m.env.kind = "pulse" /\ x \in Packets(m.env, m.dst, route(m.dst, m.env.to))
    BY <1>1, <1>10 DEF processPulse, Arrives
  <2> QED BY <2>1, PassedFitting
<1>11. CASE SendBootstrap
  <2>1. x \in Packets(Signed("bootstrap", sit.joiner, 1, sit.contact, {}),
                      sit.joiner, {sit.contact})
    BY <1>11 DEF SendBootstrap
  <2> QED BY <2>1, SignedFitting
<1>12. ASSUME NEW n \in Nodes, SendChat(n) PROVE Fitting(x)
  <2>1. x \in Packets(Signed("chat", n, 1, n, {}), n, Fronts(n))
    BY <1>12 DEF SendChat
  <2> QED BY <2>1, SignedFitting
<1>13. ASSUME NEW n \in Nodes, SendDisconnect(n) PROVE Fitting(x)
  <2>1. x \in Packets(Signed("disconnect", n, 1, n, {}), n, table[n])
    BY <1>13 DEF SendDisconnect
  <2> QED BY <2>1, SignedFitting
<1>14. ASSUME NEW n \in Nodes, NEW S \in SUBSET table[n], SendPings(n, S) PROVE Fitting(x)
  <2>1. x \in Packets(Signed("ping", n, 1, n, {}), n, table[n] \ S)
    BY <1>14 DEF SendPings
  <2> QED BY <2>1, SignedFitting
<1>15. ASSUME NEW m \in net, Lose(m) PROVE FALSE
  BY <1>15 DEF Lose
<1>16. ASSUME NEW n \in Nodes, WriteBack(n) PROVE FALSE
  BY <1>16 DEF WriteBack
<1> QED
  BY <1>2, <1>3, <1>4, <1>5, <1>6, <1>7, <1>8, <1>9, <1>10, <1>11, <1>12, <1>13, <1>14,
     <1>15, <1>16, Zenon
     DEF Next, Deliver, Command

\* Only the joiner introduces itself.
LEMMA IntroductionsStep ==
  ASSUME TypeOK, Introductions, Next
  PROVE  Introductions'
<1>1. sit' = sit
  BY CommandStep
<1>2. \A x \in net' : Fitting(x)
  BY NewFitting DEF Introductions, Fitting
<1> QED BY <1>1, <1>2 DEF Introductions, Fitting

\* The joiner is told to join once.
LEMMA JoinedStep ==
  ASSUME Next
  PROVE  SendBootstrap \/ joined' = joined
<1>1. ASSUME NEW m \in net,
             \/ processBootstrap(m) \/ processVerify(m) \/ processSuggestionRequest(m)
             \/ processSuggestions(m) \/ processPing(m) \/ processAnnounce(m)
             \/ processChat(m) \/ processDisconnect(m) \/ processPulse(m) \/ Lose(m)
      PROVE  joined' = joined
  BY <1>1 DEF processBootstrap, processVerify, processSuggestionRequest,
              processSuggestions, processPing, processAnnounce, processChat,
              processDisconnect, processPulse, Lose
<1>2. ASSUME NEW n \in Nodes, WriteBack(n) \/ SendChat(n) \/ SendDisconnect(n)
      PROVE  joined' = joined
  BY <1>2 DEF WriteBack, SendChat, SendDisconnect
<1>3. ASSUME NEW n \in Nodes, NEW S \in SUBSET table[n], SendPings(n, S)
      PROVE  joined' = joined
  BY <1>3 DEF SendPings
<1> QED BY <1>1, <1>2, <1>3, Zenon DEF Next, Deliver, Command

-----------------------------------------------------------------------------
(* Before the joiner says something *)

\* Peers are told of peers, by others than the joiner.
LEMMA StillUnheard ==
  ASSUME TypeOK, Unheard, sit' = sit,
         \A n \in Nodes : table'[n] \subseteq table[n],
         NEW n \in Nodes, NEW env, env.from # sit.joiner, NEW via, NEW D,
         D \subseteq table[n], net' \subseteq net \cup Packets(env, via, D)
  PROVE  Unheard'
<1>1. sit.joiner \in Nodes
  BY Roles
<1>2. table'[sit.joiner] = {} /\ \A k \in Nodes : sit.joiner \notin table'[k]
  BY <1>1 DEF Unheard
<1>3. \A x \in net' : x.env.from # sit.joiner /\ x.dst # sit.joiner
  BY DEF Unheard, Packets
<1> QED BY <1>2, <1>3 DEF Unheard

\* So it is until the joiner is told to join; it may quit before.
LEMMA UnheardStep ==
  ASSUME TypeOK, Introductions, Unheard, Next
  PROVE  SendBootstrap \/ Unheard'
<1> DEFINE j == sit.joiner
           Goal == Unheard'
<1>1. table \in [Nodes -> SUBSET Nodes] /\ j \in Nodes /\ sit' = sit
  BY Roles, CommandStep DEF TypeOK
<1>2. ASSUME UNCHANGED <<table, net>> PROVE Goal
  BY <1>1, <1>2 DEF Unheard
<1>3. ASSUME NEW m \in net
      PROVE  /\ m.dst \in Nodes /\ m.dst # j /\ m.env.from # j
             /\ Remaining(m) \subseteq net
             /\ m.env.kind \notin {"bootstrap", "verifybs", "announce", "request", "suggestions"}
  BY PacketTypes DEF Unheard, Introductions, Remaining
<1>4. ASSUME NEW n \in Nodes, table' = [table EXCEPT ![n] = table[n]]
               \/ table' = table \/ \E S : table' = [table EXCEPT ![n] = table[n] \ S]
      PROVE  \A k \in Nodes : table'[k] \subseteq table[k]
  BY <1>1, <1>4
<1>5. ASSUME NEW m \in net, \/ processBootstrap(m) \/ processVerify(m) \/ processAnnounce(m)
                            \/ processSuggestionRequest(m) \/ processSuggestions(m)
      PROVE  Goal
  BY <1>3, <1>5 DEF processBootstrap, processVerify, processAnnounce,
                    processSuggestionRequest, processSuggestions, Arrives
<1>6. ASSUME NEW m \in net, processChat(m) PROVE Goal
  <2>1. table' = table /\ net' \subseteq net \cup Packets(m.env, m.dst, table[m.dst])
    BY <1>3, <1>6 DEF processChat, PassedOn
  <2> QED BY <1>1, <1>3, <2>1, StillUnheard
<1>7. ASSUME NEW m \in net, processDisconnect(m) PROVE Goal
  <2>1. /\ table' = [table EXCEPT ![m.dst] = table[m.dst] \ {m.env.from}]
        /\ net' \subseteq net \cup Packets(m.env, m.dst, table[m.dst] \ {m.env.from})
    BY <1>3, <1>7 DEF processDisconnect
  <2>2. \A k \in Nodes : table'[k] \subseteq table[k]
    BY <1>3, <1>4, <2>1
  <2> QED BY <1>1, <1>3, <2>1, <2>2, StillUnheard
<1>8. ASSUME NEW m \in net, processPing(m) PROVE Goal
  <2> DEFINE env == Signed("pulse", m.dst, 1, m.env.from, {})
             D == route(m.dst, m.env.from)
  <2>1. table' = table /\ net' \subseteq net \cup Packets(env, m.dst, D)
    BY <1>3, <1>8 DEF processPing
  <2>2. env.from # j
    BY <1>3 DEF Signed
  <2>3. D \subseteq table[m.dst]
    BY ClosestArePeers DEF route
  <2> HIDE DEF env, D
  <2> QED BY <1>1, <1>3, <2>1, <2>2, <2>3, StillUnheard
<1>9. ASSUME NEW m \in net, processPulse(m) PROVE Goal
  <2> DEFINE D == route(m.dst, m.env.to)
  <2>1. table' = table /\ net' \subseteq net \cup Packets(m.env, m.dst, D)
    BY <1>3, <1>9 DEF processPulse
  <2>2. D \subseteq table[m.dst]
    BY ClosestArePeers DEF route
  <2> HIDE DEF D
  <2> QED BY <1>1, <1>3, <2>1, <2>2, StillUnheard
<1>10. ASSUME NEW n \in Nodes, SendChat(n) PROVE Goal
  <2> DEFINE env == Signed("chat", n, 1, n, {})
  <2>1. /\ table' = table /\ table[n] # {}
        /\ net' \subseteq net \cup Packets(env, n, Fronts(n))
    BY <1>10 DEF SendChat
  <2>2. n # j
    BY <2>1 DEF Unheard
  <2>3. env.from # j
    BY <2>2 DEF Signed
  <2>4. Fronts(n) \subseteq table[n]
    BY DEF Fronts
  <2> HIDE DEF env
  <2> QED BY <1>1, <2>1, <2>3, <2>4, StillUnheard
<1>11. ASSUME NEW n \in Nodes, SendDisconnect(n) PROVE Goal
  <2> DEFINE env == Signed("disconnect", n, 1, n, {})
  <2>1. table' = table /\ net' \subseteq net \cup Packets(env, n, table[n])
    BY <1>11 DEF SendDisconnect
  <2>2. CASE n = j
    <3>1. \A x \in net' : x \in net
      BY <2>1, <2>2 DEF Packets, Unheard
    <3> QED BY <1>1, <2>1, <3>1 DEF Unheard
  <2>3. CASE n # j
    <3>1. env.from # j
      BY <2>3 DEF Signed
    <3> HIDE DEF env
    <3> QED BY <1>1, <2>1, <3>1, StillUnheard
  <2> QED BY <2>2, <2>3
<1>12. ASSUME NEW n \in Nodes, NEW S \in SUBSET table[n], SendPings(n, S) PROVE Goal
  <2> DEFINE env == Signed("ping", n, 1, n, {})
  <2>1. /\ table' = [table EXCEPT ![n] = table[n] \ S] /\ table[n] # {}
        /\ net' \subseteq net \cup Packets(env, n, table[n] \ S)
    BY <1>12 DEF SendPings
  <2>2. n # j
    BY <2>1 DEF Unheard
  <2>3. env.from # j
    BY <2>2 DEF Signed
  <2>4. \A k \in Nodes : table'[k] \subseteq table[k]
    BY <1>4, <2>1
  <2> HIDE DEF env
  <2> QED BY <1>1, <2>1, <2>3, <2>4, StillUnheard
<1>13. ASSUME NEW n \in Nodes, WriteBack(n) PROVE Goal
  BY <1>2, <1>13 DEF WriteBack
<1>14. ASSUME NEW m \in net, Lose(m) PROVE Goal
  <2>1. table' = table /\ net' \subseteq net
    BY <1>14 DEF Lose
  <2> QED BY <1>1, <2>1 DEF Unheard
<1> QED
  BY <1>5, <1>6, <1>7, <1>8, <1>9, <1>10, <1>11, <1>12, <1>13, <1>14, Zenon DEF Next, Deliver, Command

-----------------------------------------------------------------------------
(* What is under way is handled, if nothing is lost *)

\* x is handled.
Handles(x) ==
  \/ processBootstrap(x) \/ processVerify(x) \/ processAnnounce(x)
  \/ processSuggestionRequest(x) \/ processSuggestions(x) \/ processChat(x)
  \/ processDisconnect(x) \/ processPing(x) \/ processPulse(x)

LEMMA HandledOrKept ==
  ASSUME Next, ~sit.lossy, NEW x \in net, x.dst \in up
  PROVE  x \in net' \/ Handles(x)
<1>1. \A m : Remaining(m) = net \ {m}
  BY DEF Remaining
<1>2. ASSUME NEW m \in net, Handles(m), m # x PROVE x \in net'
  <2>1. net \ {m} \subseteq net'
    <3>1. CASE processBootstrap(m) \/ processVerify(m) \/ processSuggestionRequest(m)
               \/ processSuggestions(m) \/ processPing(m) \/ processPulse(m)
      BY <1>1, <3>1 DEF processBootstrap, processVerify, processSuggestionRequest,
                        processSuggestions, processPing, processPulse
    <3>2. CASE processAnnounce(m) \/ processChat(m) \/ processDisconnect(m)
      BY <1>1, <3>2 DEF processAnnounce, processChat, processDisconnect
    <3> QED BY <1>2, <3>1, <3>2 DEF Handles
  <2> QED BY <1>2, <2>1
<1>3. ASSUME NEW m \in net, Lose(m) PROVE x \in net'
  BY <1>3 DEF Lose
<1>4. CASE Deliver
  <2>1. CASE \E m \in net : Handles(m) \/ Lose(m)
    BY <1>2, <1>3, <2>1
  <2>2. CASE \E n \in Nodes : WriteBack(n)
    BY <2>2 DEF WriteBack
  <2> QED BY <1>4, <2>1, <2>2, Zenon DEF Deliver, Handles
<1>5. CASE Command
  <2>1. net \subseteq net'
    <3>1. ASSUME NEW n \in Nodes, SendChat(n) \/ SendDisconnect(n) PROVE net \subseteq net'
      BY <3>1 DEF SendChat, SendDisconnect
    <3>2. ASSUME NEW n \in Nodes, NEW S \in SUBSET table[n], SendPings(n, S)
          PROVE  net \subseteq net'
      BY <3>2 DEF SendPings
    <3>3. CASE SendBootstrap
      BY <3>3 DEF SendBootstrap
    <3> QED BY <1>5, <3>1, <3>2, <3>3, Zenon DEF Command
  <2> QED BY <2>1
<1> QED BY <1>4, <1>5 DEF Next

\* By the handler of its kind.
LEMMA HandledByKind ==
  ASSUME NEW x, Handles(x)
  PROVE  /\ x.env.kind = "bootstrap" => processBootstrap(x)
         /\ x.env.kind = "verifybs" => processVerify(x)
         /\ x.env.kind = "announce" => processAnnounce(x)
BY DEF Handles, processBootstrap, processVerify, processAnnounce, processSuggestionRequest,
       processSuggestions, processChat, processDisconnect, processPing, processPulse, Arrives

\* Who meets a peer has added it.
LEMMA MetAdded ==
  ASSUME TypeOK, NEW n \in Nodes, NEW p \in Nodes, NEW t \in Nat, Meet(n, p, t)
  PROVE  cache'[n][p].added
<1>1. cache \in [Nodes -> [Nodes -> Cache]] /\ cache[n][p] \in Cache
  BY DEF TypeOK
<1>2. cache'[n][p] = Met(cache[n][p], t)
  BY <1>1 DEF Meet
<1>3. Met(cache[n][p], t).added
  BY <1>1, MetCache DEF IsNews
<1> QED BY <1>2, <1>3

\* So has who is sent its announcement.
LEMMA AnnouncedAdded ==
  ASSUME TypeOK, NEW m \in net, processAnnounce(m), m.dst # m.env.from
  PROVE  cache'[m.dst][m.env.from].added
<1>1. m.dst \in Nodes /\ m.env.from \in Nodes /\ m.env.time \in Nat
  BY PacketTypes
<1>2. Meet(m.dst, m.env.from, m.env.time)
  BY DEF processAnnounce
<1> QED BY <1>1, <1>2, MetAdded

-----------------------------------------------------------------------------
(* The joiner is on its way *)

\* Nobody who was there first was taken for gone before, if nobody is now.
LEMMA UndividedBefore ==
  ASSUME TypeOK, up \subseteq Everybody(sit), Next, Undivided'
  PROVE  Undivided
<1>1. sit' = sit /\ up' \subseteq up /\ stale \subseteq stale'
  BY CommandStep, HistoryStep
<1> QED BY <1>1 DEF Undivided

\* Until then those that were there first have all others in their tables.
LEMMA UndividedKnown ==
  ASSUME TypeOK, TablesFit, Acquainted, Undivided,
         NEW x \in Present(sit), NEW y \in Present(sit), x # y
  PROVE  y \in table[x]
<1>1. x \in Nodes /\ y \in Nodes /\ y \in up /\ <<x, y>> \notin stale
  BY Roles DEF Undivided
<1>2. cache[x][y].added
  BY DEF Acquainted
<1> QED BY <1>1, <1>2, FitsNow

\* They have heard of a joiner that is one of them.
LEMMA MemberReached ==
  ASSUME Acquainted, sit.joiner \in Present(sit)
  PROVE  Reached
BY DEF Acquainted, Reached

\* What was on its way to everybody still is, or has come.
LEMMA ReachedStep ==
  ASSUME TypeOK, TablesFit, ~sit.lossy, Undivided, Next, Reached
  PROVE  Reached'
<1> DEFINE j == sit.joiner
<1>1. sit' = sit /\ j \in Nodes /\ Present(sit) \subseteq Nodes
      /\ Present(sit) \subseteq up
  BY Roles, CommandStep DEF Undivided
<1>2. ASSUME NEW n \in Present(sit) \ {j}
      PROVE  cache'[n][j].added
               \/ \E m \in net' : m.env.kind = "announce" /\ m.env.from = j /\ m.dst = n
  <2>1. CASE cache[n][j].added
    BY <1>1, <2>1, AddedStays
  <2>2. CASE UnderWay("announce", j, n)
    <3>1. PICK m \in net : m.env.kind = "announce" /\ m.env.from = j /\ m.dst = n
      BY <2>2 DEF UnderWay
    <3>2. m \in net' \/ processAnnounce(m)
      BY <1>1, <3>1, HandledOrKept, HandledByKind
    <3>3. CASE processAnnounce(m)
      BY <1>1, <3>1, <3>3, AnnouncedAdded
    <3> QED BY <3>1, <3>2, <3>3
  <2> QED BY <2>1, <2>2 DEF Reached
<1> QED BY <1>1, <1>2 DEF Reached, UnderWay

\* Who passes it on does so to all.
LEMMA PassedOnStep ==
  ASSUME TypeOK, TablesFit, Acquainted, Acquainted', ~sit.lossy, Undivided, Next,
         SomePassedOn => Reached, SomePassedOn'
  PROVE  Reached'
<1> DEFINE j == sit.joiner
<1>1. sit' = sit /\ j \in Nodes /\ Present(sit) \subseteq Nodes
  BY Roles, CommandStep
<1>2. PICK n \in Present(sit) : \E d \in Entries(n, j)' : d.announced
  BY <1>1 DEF SomePassedOn, Entries
<1>3. CASE \E e \in Entries(n, j) : e.announced
  BY <1>3, ReachedStep DEF SomePassedOn
<1>4. CASE Announcing(n, j)
  <2>1. PICK m \in net : /\ processAnnounce(m) /\ m.dst = n /\ m.env.from = j /\ n # j
                         /\ Floods(cache[n][j], m.env.time)
    BY <1>4 DEF Announcing
  <2>2. m.env.kind = "announce"
    BY <2>1 DEF processAnnounce, Arrives
  <2>3. Packets(m.env, n, Meeting(n, j, m.env.time)) \subseteq net'
    BY <2>1 DEF processAnnounce
  <2>4. cache'[n][j].added
    BY <2>1, AnnouncedAdded
  <2>5. ASSUME NEW x \in Present(sit), x # n
        PROVE  \E r \in net' : r.env.kind = "announce" /\ r.env.from = j /\ r.dst = x
    <3>1. x \in table[n]
      BY <2>5, UndividedKnown
    <3>2. [env |-> m.env, via |-> n, dst |-> x] \in net'
      BY <2>3, <3>1 DEF Packets, Meeting
    <3> QED BY <2>1, <2>2, <3>2
  <2> QED BY <1>1, <2>4, <2>5 DEF Reached, UnderWay
<1> QED BY <1>1, <1>2, <1>3, <1>4, AnnouncedNow

\* Who is sent an announcement marks it as passed on, or is about to.
LEMMA ToldIsMarked ==
  ASSUME TypeOK, NEW m \in net, processAnnounce(m), m.dst # m.env.from
  PROVE  \E e \in Entries(m.dst, m.env.from)' : e.announced
<1> DEFINE n == m.dst
           p == m.env.from
           c == cache[n][p]
           t == m.env.time
<1>1. n \in Nodes /\ p \in Nodes /\ t \in Nat
  BY PacketTypes
<1>2. /\ cache \in [Nodes -> [Nodes -> Cache]] /\ c \in Cache
      /\ copy \in [Nodes -> SUBSET WriteBacks]
  BY <1>1 DEF TypeOK
<1>3. Met(c, t) \in Cache /\ Met(c, t).announced = c.announced
  BY <1>1, <1>2, MetCache DEF Met, Cache
<1>4. CASE Floods(c, t)
  <2> DEFINE w == [peer |-> p, entry |-> Announced(Met(c, t))]
  <2>1. copy' = [copy EXCEPT ![n] = {w}]
    BY <1>4 DEF processAnnounce
  <2>2. w \in copy'[n] /\ w.peer = p
    BY <1>1, <1>2, <2>1
  <2>3. w.entry.announced
    BY <1>3 DEF Announced, Cache
  <2>4. w.entry \in Entries(n, p)'
    BY <2>2, EntriesAre
  <2> QED BY <2>3, <2>4
<1>5. CASE ~Floods(c, t)
  <2>1. c.announced
    BY <1>5 DEF Floods
  <2>2. cache'[n][p] = Met(c, t)
    BY <1>1, <1>2 DEF processAnnounce, Meet
  <2>3. cache'[n][p] \in Entries(n, p)'
    BY EntriesAre
  <2> QED BY <1>3, <2>1, <2>2, <2>3
<1> QED BY <1>4, <1>5

\* The bootstrap has arrived, the answer to it, or the announcement.
LEMMA AdvancesStep ==
  ASSUME TypeOK, TablesFit, Acquainted', ~sit.lossy, Undivided, Next, Advances,
         SomePassedOn => Reached, SomePassedOn' => Reached'
  PROVE  Advances'
<1> DEFINE j == sit.joiner
           c == sit.contact
           There(kind, p, n) ==
             \E x \in net' : x.env.kind = kind /\ x.env.from = p /\ x.dst = n
<1>1. sit' = sit /\ j \in Nodes /\ c \in Nodes /\ c \in Present(sit)
      /\ j \in up /\ c \in up
  BY Roles, CommandStep DEF Undivided
<1>2. ASSUME \/ There("bootstrap", j, c) \/ There("verifybs", c, j)
             \/ cache'[j][c].added /\ (There("announce", j, c) \/ Reached')
      PROVE  Advances'
  BY <1>1, <1>2 DEF Advances, UnderWay
<1>3. CASE UnderWay("bootstrap", j, c)
  <2>1. PICK m \in net : m.env.kind = "bootstrap" /\ m.env.from = j /\ m.dst = c
    BY <1>3 DEF UnderWay
  <2>2. m \in net' \/ processBootstrap(m)
    BY <1>1, <2>1, HandledOrKept, HandledByKind
  <2>3. CASE processBootstrap(m)
    <3> DEFINE x == [env |-> Signed("verifybs", c, 1, j, {}), via |-> c, dst |-> j]
    <3>1. x \in net'
      BY <2>1, <2>3 DEF processBootstrap, Packets
    <3>2. x.env.kind = "verifybs" /\ x.env.from = c /\ x.dst = j
      BY DEF Signed
    <3> HIDE DEF x
    <3> QED BY <1>2, <3>1, <3>2
  <2> QED BY <1>2, <2>1, <2>2, <2>3
<1>4. CASE UnderWay("verifybs", c, j)
  <2>1. PICK m \in net : m.env.kind = "verifybs" /\ m.env.from = c /\ m.dst = j
    BY <1>4 DEF UnderWay
  <2>2. m \in net' \/ processVerify(m)
    BY <1>1, <2>1, HandledOrKept, HandledByKind
  <2>3. CASE processVerify(m)
    <3> DEFINE x == [env |-> Signed("announce", j, 1, j, {}), via |-> j, dst |-> c]
    <3>1. x \in net'
      BY <2>1, <2>3 DEF processVerify, Packets
    <3>2. x.env.kind = "announce" /\ x.env.from = j /\ x.dst = c
      BY DEF Signed
    <3> HIDE DEF x
    <3>3. cache'[j][c].added
      BY <1>1, <2>1, <2>3, MetAdded, PacketTypes DEF processVerify
    <3> QED BY <1>2, <3>1, <3>2, <3>3
  <2> QED BY <1>2, <2>1, <2>2, <2>3
<1>5. CASE cache[j][c].added /\ UnderWay("announce", j, c)
  <2>1. PICK m \in net : m.env.kind = "announce" /\ m.env.from = j /\ m.dst = c
    BY <1>5 DEF UnderWay
  <2>2. m \in net' \/ processAnnounce(m)
    BY <1>1, <2>1, HandledOrKept, HandledByKind
  <2>3. cache'[j][c].added
    BY <1>1, <1>5, AddedStays
  <2>4. CASE processAnnounce(m)
    <3>1. CASE c = j
      <4>1. Reached'
        BY <1>1, <3>1 DEF Acquainted, Reached
      <4> QED BY <1>2, <2>3, <4>1
    <3>2. CASE c # j
      <4>1. \E e \in Entries(c, j)' : e.announced
        BY <1>1, <2>1, <2>4, <3>2, ToldIsMarked
      <4>2. SomePassedOn'
        BY <1>1, <4>1 DEF SomePassedOn, Entries
      <4> QED BY <1>2, <2>3, <4>2
    <3> QED BY <3>1, <3>2
  <2> QED BY <1>2, <2>1, <2>2, <2>3, <2>4
<1>6. CASE cache[j][c].added /\ Reached
  BY <1>1, <1>2, <1>6, AddedStays, ReachedStep
<1> QED BY <1>3, <1>4, <1>5, <1>6 DEF Advances

\* The first command of the joiner sets out.
LEMMA SetsOut ==
  ASSUME TypeOK, SendBootstrap
  PROVE  Advances'
<1>1. sit' = sit
  BY DEF SendBootstrap
<1> DEFINE x == [env |-> Signed("bootstrap", sit.joiner, 1, sit.contact, {}),
                 via |-> sit.joiner, dst |-> sit.contact]
<1>2. x \in net'
  BY DEF SendBootstrap, Packets
<1>3. x.env.kind = "bootstrap" /\ x.env.from = sit.joiner /\ x.dst = sit.contact
  BY DEF Signed
<1> HIDE DEF x
<1> QED BY <1>1, <1>2, <1>3 DEF Advances, UnderWay

-----------------------------------------------------------------------------
(* The invariant *)

LEMMA JoiningInit == Init => JoiningInv
<1> SUFFICES ASSUME Init PROVE JoiningInv
  OBVIOUS
<1>1. TypeOK
  BY OverlayInit, OverlayParts
<1>2. sit.joiner \in Nodes /\ Present(sit) \subseteq Nodes
  BY <1>1, Roles
<1>3. \A n \in Nodes : table[n] = IF n \in Present(sit) THEN Present(sit) \ {n} ELSE {}
  BY DEF Init
<1>4. \A n, p \in Nodes : cache[n][p] = IF p \in table[n] THEN Known ELSE NoCache
  BY DEF Init
<1>5. Known.added /\ ~NoCache.announced
  BY DEF Known, NoCache
<1>6. up \subseteq Everybody(sit) /\ Introductions /\ ~joined
  BY <1>2 DEF Init, Introductions
<1>7. Acquainted
  BY <1>2, <1>3, <1>4, <1>5 DEF Acquainted
<1>8. sit.joiner \notin Present(sit) => Unheard
  BY <1>2, <1>3 DEF Unheard, Init
<1>9. SomePassedOn => Reached
  <2>1. CASE sit.joiner \in Present(sit)
    BY <1>7, <2>1, MemberReached
  <2>2. CASE sit.joiner \notin Present(sit)
    <3>1. ASSUME NEW n \in Present(sit), NEW e \in Entries(n, sit.joiner) PROVE ~e.announced
      <4>1. copy[n] = {}
        BY <1>2 DEF Init
      <4>2. e = cache[n][sit.joiner]
        BY <4>1, EntriesAre
      <4> QED BY <1>2, <1>3, <1>4, <1>5, <2>2, <4>2
    <3> QED BY <3>1 DEF SomePassedOn
  <2> QED BY <2>1, <2>2
<1> QED BY <1>6, <1>7, <1>8, <1>9, JoiningParts DEF UnderWayOrDone

LEMMA JoiningStep ==
  OverlayInv /\ JoiningInv /\ [Next]_vars => JoiningInv'
<1> SUFFICES ASSUME OverlayInv, JoiningInv, [Next]_vars PROVE JoiningInv'
  OBVIOUS
<1>1. TypeOK /\ TablesFit
  BY OverlayParts
<1>2. /\ up \subseteq Everybody(sit) /\ Introductions /\ Acquainted
      /\ ~joined /\ sit.joiner \notin Present(sit) => Unheard
      /\ UnderWayOrDone
  BY JoiningParts
<1>3. CASE UNCHANGED vars
  BY <1>3 DEF JoiningInv, vars, Entries, Undivided, Reached, Advances, UnderWay
<1>4. CASE Next
  <2>1. sit' = sit /\ up' \subseteq up /\ sit.joiner \in Nodes /\ Present(sit) \subseteq Nodes
    BY <1>1, <1>4, CommandStep, Roles
  <2>2. up' \subseteq Everybody(sit') /\ Introductions'
    BY <1>1, <1>2, <1>4, <2>1, IntroductionsStep
  <2>3. Acquainted'
    BY <1>1, <1>2, <1>4, <2>1, AddedStays DEF Acquainted
  <2>4. SendBootstrap => joined'
    BY DEF SendBootstrap
  <2>5. ~joined' /\ sit.joiner \notin Present(sit) => Unheard'
    BY <1>1, <1>2, <1>4, <2>4, UnheardStep, JoinedStep
  <2>6. UnderWayOrDone'
    <3> SUFFICES ASSUME ~sit.lossy, Undivided'
                 PROVE  (SomePassedOn' => Reached') /\ (joined' => Advances')
      BY <2>1 DEF UnderWayOrDone
    <3>1. Undivided
      BY <1>1, <1>2, <1>4, UndividedBefore
    <3>2. SomePassedOn => Reached
      BY <1>2, <3>1 DEF UnderWayOrDone
    <3>3. SomePassedOn' => Reached'
      BY <1>1, <1>2, <1>4, <2>3, <3>1, <3>2, PassedOnStep
    <3>4. ASSUME joined' PROVE Advances'
      <4>1. CASE SendBootstrap
        BY <1>1, <4>1, SetsOut
      <4>2. CASE ~SendBootstrap
        <5>1. joined
          BY <1>4, <3>4, <4>2, JoinedStep
        <5>2. Advances
          BY <1>2, <3>1, <5>1 DEF UnderWayOrDone
        <5> QED BY <1>1, <1>4, <2>3, <3>1, <3>2, <3>3, <5>2, AdvancesStep
      <4> QED BY <4>1, <4>2
    <3> QED BY <3>3, <3>4
  <2>7. (/\ up \subseteq Everybody(sit) /\ Introductions /\ Acquainted
         /\ ~joined /\ sit.joiner \notin Present(sit) => Unheard
         /\ UnderWayOrDone)'
    BY <2>1, <2>2, <2>3, <2>5, <2>6
  <2> QED BY <2>7, JoiningParts, PTL
<1> QED BY <1>3, <1>4

\* THEOREM: as long as nothing is lost, nobody leaves and none of those that were
\* there first takes another for gone, a bootstrap that has begun goes on: there
\* is a message of it under way, or everybody has heard of the joiner or is about to.
THEOREM BootstrapGoesOn == Spec => []JoiningInv
<1> QED BY JoiningInit, JoiningStep, Invariant, PTL DEF Spec

\* THEOREM: when all messages have arrived, everybody has the joiner in its table,
\* and the joiner its contact, for any number of nodes and any ids.
THEOREM JoinerIsKnown == Spec => []JoinerKnown
<1>1. OverlayInv /\ JoiningInv => JoinerKnown
  <2> SUFFICES ASSUME OverlayInv, JoiningInv, net = {}, ~sit.lossy, Undisturbed,
                      joined
               PROVE  /\ sit.contact \in table[sit.joiner]
                      /\ \A n \in Present(sit) \ {sit.joiner} : sit.joiner \in table[n]
    BY DEF JoinerKnown
  <2>1. TypeOK /\ TablesFit /\ UnderWayOrDone
    BY OverlayParts, JoiningParts
  <2>2. /\ sit.joiner \in Nodes /\ sit.contact \in Nodes /\ Present(sit) \subseteq Nodes
    BY <2>1, Roles
  <2>3. Undivided
    BY <2>2 DEF Undisturbed, Undivided
  <2>4. Advances
    BY <2>1, <2>3 DEF UnderWayOrDone
  <2>5. \A kind, p, n : ~UnderWay(kind, p, n)
    BY DEF UnderWay
  <2>6. cache[sit.joiner][sit.contact].added
        /\ \A n \in Present(sit) \ {sit.joiner} : cache[n][sit.joiner].added
    BY <2>4, <2>5 DEF Advances, Reached
  <2>7. \A n \in Nodes, p \in Everybody(sit) \cap Nodes : cache[n][p].added => p \in table[n]
    BY <2>1, FitsNow DEF Undisturbed
  <2>8. sit.contact \in Everybody(sit) /\ sit.joiner \in Everybody(sit)
    BY <2>1, Roles
  <2> QED BY <2>2, <2>6, <2>7, <2>8
<1> QED BY <1>1, BootstrapGoesOn, Invariant, PTL
-----------------------------------------------------------------------------
(* Floods of chats *)

\* What has been seen stays so, and who sees a chat for the first time passes it
\* on to all of its peers.
LEMMA SeenStep ==
  ASSUME TypeOK, Next, NEW n \in Nodes, NEW c
  PROVE  /\ c \in SeenChats[n] => c \in SeenChats'[n]
         /\ c \notin SeenChats[n] /\ c \in SeenChats'[n] =>
              \A p \in table[n] : ChatUnderWay(c, p)'
<1> DEFINE Goal == /\ c \in SeenChats[n] => c \in SeenChats'[n]
                   /\ c \notin SeenChats[n] /\ c \in SeenChats'[n] =>
                        \A p \in table[n] : ChatUnderWay(c, p)'
<1>1. ASSUME NEW m \in net, processChat(m) PROVE Goal
  <2> DEFINE d == <<m.env.from, m.env.time>>
  <2>1. m.dst \in Nodes /\ SeenChats \in [Nodes -> SUBSET (Nodes \X Nat)]
    BY PacketTypes DEF TypeOK
  <2>2. m.env.kind = "chat"
    BY <1>1 DEF processChat, Arrives
  <2>3. CASE UNCHANGED SeenChats
    BY <2>3
  <2>4. CASE d \notin SeenChats[m.dst]
    <3>1. /\ SeenChats' = [SeenChats EXCEPT ![m.dst] = SeenChats[m.dst] \cup {d}]
          /\ Packets(m.env, m.dst, table[m.dst]) \subseteq net'
      BY <1>1, <2>4 DEF processChat, Marked, PassedOn
    <3>2. c \in SeenChats[n] => c \in SeenChats'[n]
      BY <2>1, <3>1
    <3>3. ASSUME c \notin SeenChats[n], c \in SeenChats'[n], NEW p \in table[n]
          PROVE  ChatUnderWay(c, p)'
      <4>1. n = m.dst /\ c = d
        BY <2>1, <3>1, <3>3
      <4> DEFINE x == [env |-> m.env, via |-> n, dst |-> p]
      <4>2. x \in net'
        BY <3>1, <4>1 DEF Packets
      <4>3. x.env.kind = "chat" /\ <<x.env.from, x.env.time>> = c /\ x.dst = p
        BY <2>2, <4>1
      <4> QED BY <4>2, <4>3 DEF ChatUnderWay
    <3> QED BY <3>2, <3>3
  <2> QED BY <1>1, <2>3, <2>4 DEF processChat
<1>2. ASSUME NEW k \in Nodes, SendChat(k) PROVE Goal
  BY <1>2 DEF SendChat
<1>3. CASE UNCHANGED <<sent, SeenChats, chatLog>>
  BY <1>3
<1> QED BY <1>1, <1>2, <1>3, NoChat

\* A chat on its way gets there, if nothing is lost.
LEMMA ChatArrives ==
  ASSUME TypeOK, Next, ~sit.lossy, NEW c, NEW p \in up, ChatUnderWay(c, p)
  PROVE  c \in SeenChats'[p] \/ ChatUnderWay(c, p)'
<1>1. PICK m \in net : /\ m.env.kind = "chat" /\ m.dst = p
                       /\ <<m.env.from, m.env.time>> = c
  BY DEF ChatUnderWay
<1>2. CASE m \in net'
  BY <1>1, <1>2 DEF ChatUnderWay
<1>3. CASE Handles(m)
  <2>1. processChat(m)
    BY <1>1, <1>3 DEF Handles, processBootstrap, processVerify, processAnnounce,
       processSuggestionRequest, processSuggestions, processDisconnect, processPing,
       processPulse, Arrives
  <2>2. p \in Nodes /\ SeenChats \in [Nodes -> SUBSET (Nodes \X Nat)]
    BY DEF TypeOK
  <2> QED BY <1>1, <2>1, <2>2 DEF processChat, Marked
<1> QED BY <1>1, <1>2, <1>3, HandledOrKept

\* A step leaves no flood half done.
LEMMA SpreadingStep ==
  ASSUME TypeOK, Next, ~sit.lossy, Complete, up' = up, NEW c, Spreading(c)
  PROVE  Spreading(c)'
<1>1. up \subseteq Nodes /\ \A n \in up : up \ {n} \subseteq table[n]
  BY DEF TypeOK, Complete
<1>2. \A n \in up : c \in SeenChats[n] \/ ChatUnderWay(c, n) =>
        c \in SeenChats'[n] \/ ChatUnderWay(c, n)'
  BY <1>1, SeenStep, ChatArrives
<1>3. \E n \in up' : c \in SeenChats'[n] \/ ChatUnderWay(c, n)'
  BY <1>2 DEF Spreading
<1>4. ASSUME NEW n \in up', c \in SeenChats'[n], NEW p \in up' \ {n}
      PROVE  c \in SeenChats'[p] \/ ChatUnderWay(c, p)'
  <2>1. CASE c \in SeenChats[n]
    BY <1>2, <2>1 DEF Spreading
  <2>2. CASE c \notin SeenChats[n]
    BY <1>1, <1>4, <2>2, SeenStep
  <2> QED BY <2>1, <2>2
<1> QED BY <1>3, <1>4 DEF Spreading, ChatUnderWay

\* As long as all know each other and nobody leaves, whatever else is sent, in
\* whatever order packets come and however many nodes there are, no chat stops
\* half way: who has it has passed it on to all others.
THEOREM FloodsGoOn == Spec => ChatsGoOn
<1>1. OverlayInv /\ [Next]_vars =>
        [~sit.lossy /\ Complete /\ up' = up =>
           \A c \in sent : Spreading(c) => Spreading(c)']_vars
  <2> SUFFICES ASSUME OverlayInv, Next, ~sit.lossy, Complete, up' = up,
                      NEW c \in sent, Spreading(c)
               PROVE  Spreading(c)'
    OBVIOUS
  <2> QED BY OverlayParts, SpreadingStep
<1> QED BY <1>1, Invariant, PTL DEF Spec, ChatsGoOn

\* What a node has seen it has shown.
SeenShown ==
  \A n \in Nodes : \A c \in SeenChats[n] : \E i \in DOMAIN chatLog[n] : chatLog[n][i] = c

\* A chat is shown as it is put down as seen.
LEMMA SeenShownStep ==
  ASSUME OverlayInv, SeenShown, [Next]_vars
  PROVE  SeenShown'
<1>1. /\ TypeOK /\ NetSent /\ SentTimes
      /\ SeenChats \in [Nodes -> SUBSET (Nodes \X Nat)]
      /\ chatLog \in [Nodes -> Seq(Nodes \X Nat)]
  BY OverlayParts DEF TypeOK
<1>2. CASE UNCHANGED <<SeenChats, chatLog>>
  BY <1>2 DEF SeenShown
<1>3. ASSUME NEW m \in net, processChat(m) PROVE SeenShown'
  <2>1. PICK n \in Nodes, c \in sent :
          /\ c \in Nodes \X Nat
          /\ \/ UNCHANGED <<SeenChats, chatLog>>
             \/ /\ chatLog' = [chatLog EXCEPT ![n] = Append(chatLog[n], c)]
                /\ SeenChats' = [SeenChats EXCEPT ![n] = SeenChats[n] \cup {c}]
    BY <1>1, <1>3, ChatHandled
  <2>2. CASE /\ chatLog' = [chatLog EXCEPT ![n] = Append(chatLog[n], c)]
             /\ SeenChats' = [SeenChats EXCEPT ![n] = SeenChats[n] \cup {c}]
    <3> SUFFICES ASSUME NEW k \in Nodes, NEW d \in SeenChats'[k]
                 PROVE  \E i \in DOMAIN chatLog'[k] : chatLog'[k][i] = d
      BY DEF SeenShown
    <3>1. CASE k # n
      <4>1. SeenChats'[k] = SeenChats[k] /\ chatLog'[k] = chatLog[k]
        BY <1>1, <2>2, <3>1
      <4> QED BY <4>1 DEF SeenShown
    <3>2. CASE k = n
      <4> DEFINE s == chatLog[n]
      <4>1. /\ s \in Seq(Nodes \X Nat) /\ chatLog'[k] = Append(s, c)
            /\ d \in SeenChats[n] \/ d = c
        BY <1>1, <2>2, <3>2
      <4> HIDE DEF s
      <4>2. /\ Len(s) + 1 \in DOMAIN Append(s, c) /\ Append(s, c)[Len(s) + 1] = c
            /\ \A i \in DOMAIN s : i \in DOMAIN Append(s, c) /\ Append(s, c)[i] = s[i]
        BY <2>1, <4>1
      <4>3. d = c \/ \E i \in DOMAIN s : s[i] = d
        BY <4>1 DEF SeenShown, s
      <4> QED BY <4>1, <4>2, <4>3
    <3> QED BY <3>1, <3>2
  <2> QED BY <1>2, <2>1, <2>2
<1>4. ASSUME NEW n \in Nodes, SendChat(n) PROVE SeenShown'
  BY <1>2, <1>4 DEF SendChat
<1>5. CASE UNCHANGED vars
  BY <1>2, <1>5 DEF vars
<1> QED BY <1>2, <1>3, <1>4, <1>5, NoChat

\* A chat that is under way while nobody has it yet, or that all who have it have
\* passed on, is shown by everybody when the network has come to rest, if from
\* then on all know each other and nothing is lost.
THEOREM ChatsReachAll ==
  ASSUME NEW c
  PROVE  Spec => [](Spreading(c) /\ [](~sit.lossy /\ Complete) =>
                      [](net = {} =>
                           \A n \in up : \E i \in DOMAIN chatLog[n] : chatLog[n][i] = c))
<1> DEFINE Calm  == ~sit.lossy /\ Complete
           Rest  == net = {}
           Shown == \A n \in up : \E i \in DOMAIN chatLog[n] : chatLog[n][i] = c
           Inv   == OverlayInv /\ SeenShown
<1>1. Init => SeenShown
  BY DEF Init, SeenShown
<1>2. Inv /\ [Next]_vars /\ Calm /\ Calm' /\ Spreading(c) => Spreading(c)'
  <2> SUFFICES ASSUME Inv, [Next]_vars, Calm, Calm', Spreading(c)
               PROVE  Spreading(c)'
    OBVIOUS
  <2>1. CASE UNCHANGED vars
    BY <2>1 DEF vars, Spreading, ChatUnderWay
  <2>2. CASE Next
    <3>1. sit' = sit /\ up' = up
      BY <2>2, OverlayParts, CommandStep DEF Complete, Everybody, Present
    <3> QED BY <2>2, <3>1, OverlayParts, SpreadingStep
  <2> QED BY <2>1, <2>2
<1>3. Inv /\ Spreading(c) /\ Rest => Shown
  <2> SUFFICES ASSUME Inv, Spreading(c), Rest, NEW n \in up
               PROVE  \E i \in DOMAIN chatLog[n] : chatLog[n][i] = c
    OBVIOUS
  <2>1. n \in Nodes
    BY OverlayParts DEF TypeOK
  <2>2. c \in SeenChats[n]
    BY DEF Spreading, ChatUnderWay
  <2> QED BY <2>1, <2>2 DEF SeenShown
<1>4. Inv /\ [Next]_vars => SeenShown'
  BY SeenShownStep
<1> HIDE DEF Calm, Rest, Shown
<1>5. Spec => [](Spreading(c) /\ []Calm => [](Rest => Shown))
  BY <1>1, <1>2, <1>3, <1>4, Invariant, PTL DEF Spec, Inv
<1> QED BY <1>5 DEF Calm, Rest, Shown
=============================================================================
