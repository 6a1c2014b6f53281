----------------------------- MODULE PeerTable -----------------------------
(***************************************************************************)
(* The table of peers of one node and its cache of what it knows of them   *)
(* (white-box/kad.go), under the messages that change them                 *)
(* (white-box/processors.go).                                              *)
(*                                                                         *)
(*   Recv       processBootstrap, processVerify, processSuggestionRequest, *)
(*              processSuggestions, processAnnounce, processChat,          *)
(*              processDisconnect, processPulse                            *)
(*   SendPings  removeStalePeers                                           *)
(*                                                                         *)
(* A cache entry is read and written back under a lock of its own each     *)
(* time, and the goroutines come between the two.  Peers send messages,    *)
(* leave, crash and, since a permanent node keeps its keys, start again.   *)
(* Messages are lost, reordered and repeated, by UDP and by floods.        *)
(***************************************************************************)
EXTENDS Naturals

CONSTANTS
  Peers,
  MaxTime   \* bound: how many messages a peer sends

ASSUME BoundAssumption == MaxTime \in Nat

\* What asks to be added comes in four types, which are handled alike:
\* bootstrap, verifybs, request and suggestions.
Kinds   == {"hello", "announce", "chat", "disconnect"}
Message == [from : Peers, kind : Kinds, time : 1..MaxTime]

\* A PeerCache, and whether there is one.
Cache   == [seen : BOOLEAN, added : BOOLEAN, announced : BOOLEAN,
            disconnected : BOOLEAN, time : 0..MaxTime]
NoCache == [seen |-> FALSE, added |-> FALSE, announced |-> FALSE,
            disconnected |-> FALSE, time |-> 0]

\* How many PeerEntry a peer has in the table: those that were refreshed in the
\* last sixty seconds, and the others.
Entries   == [fresh : Nat, stale : Nat]
NoEntries == [fresh |-> 0, stale |-> 0]

VARIABLES
  up,      \* peers that run
  clock,   \* the time of each peer's last message
  net,     \* messages that were sent; any may still arrive, and again
  pulses,  \* peers whose answer to a ping is on its way
  cache,   \* PeerCache
  table,   \* PeerTable
  recv,    \* Recv: program counter, peer, message time, copy of the cache entry
  pings    \* SendPings: program counter, peer, copy of the cache entry

peerVars == <<up, clock, net>>
vars == <<peerVars, pulses, cache, table, recv, pings>>

Idle == [pc |-> "idle"]
At(pc, m, c, flood) ==
  [pc |-> pc, from |-> m.from, time |-> m.time, copy |-> c, flood |-> flood]

Init ==
  /\ up = Peers
  /\ clock = [p \in Peers |-> 0]
  /\ net = {}
  /\ pulses = {}
  /\ cache = [p \in Peers |-> NoCache]
  /\ table = [p \in Peers |-> NoEntries]
  /\ recv = Idle
  /\ pings = Idle

\* removeStalePeers keeps PeerTable.Mutex while it goes through the table.
TableUnlocked == pings.pc = "idle"

Set(p, c) == cache' = [cache EXCEPT ![p] = [c EXCEPT !.seen = TRUE]]
Put(p, entries) == table' = [table EXCEPT ![p] = entries]

-----------------------------------------------------------------------------
(* Peers that introduce themselves *)

\* Mistake: a message that is as old as the one it was added for will do.
ReconnectsAgain(c, t) == c.disconnected /\ t >= c.time

\* Mistake: the time of the message is not looked at.
ReconnectsAnyTime(c, t) == c.disconnected

Reconnecting(c, t) == c.disconnected /\ t > c.time

\* The cache entry is read, and decides on what will be done.
ProcessHello(m) ==
  LET c     == cache[m.from]
      again == Reconnecting(c, m.time)
      flood == m.kind = "announce" /\ (~c.seen \/ ~c.announced \/ again)
  IN  /\ recv.pc = "idle" /\ m.kind \in {"hello", "announce"}
      /\ recv' = IF ~c.seen \/ ~c.added \/ again THEN At("add", m, c, flood)
                 ELSE IF flood THEN At("flood", m, c, flood) ELSE Idle
      /\ UNCHANGED <<peerVars, pulses, cache, table, pings>>

\* What is left of processAnnounce.
Finish == IF recv.flood THEN [recv EXCEPT !.pc = "flood"] ELSE Idle

\* addPeer reads it again,
AddGet ==
  LET c == cache[recv.from]
  IN  /\ recv.pc = "add"
      /\ recv' = IF c.seen /\ c.added /\ ~c.disconnected THEN Finish
                 ELSE [recv EXCEPT !.pc = "set", !.copy = c]
      /\ UNCHANGED <<peerVars, pulses, cache, table, pings>>

\* writes it,
AddSet ==
  /\ recv.pc = "set"
  /\ Set(recv.from, [recv.copy EXCEPT !.added = TRUE, !.disconnected = FALSE,
                                      !.time = recv.time])
  /\ recv' = [recv EXCEPT !.pc = "insert"]
  /\ UNCHANGED <<peerVars, pulses, table, pings>>

\* and puts the peer into the table.
AddInsert ==
  /\ recv.pc = "insert" /\ TableUnlocked
  /\ Put(recv.from, [table[recv.from] EXCEPT !.fresh = @ + 1])
  /\ recv' = Finish
  /\ UNCHANGED <<peerVars, pulses, cache, pings>>

\* An announcement is passed on,
FloodAnnounce ==
  /\ recv.pc = "flood" /\ TableUnlocked
  /\ recv' = [recv EXCEPT !.pc = "mark", !.copy = cache[recv.from]]
  /\ UNCHANGED <<peerVars, pulses, cache, table, pings>>

\* and marked as such.
MarkAnnounced ==
  /\ recv.pc = "mark"
  /\ Set(recv.from, [recv.copy EXCEPT !.announced = TRUE])
  /\ recv' = Idle
  /\ UNCHANGED <<peerVars, pulses, table, pings>>

-----------------------------------------------------------------------------
(* Chats, departures and pulses *)

\* cacheMin reads a cache entry
CacheMinGet(m) ==
  /\ recv.pc = "idle" /\ m.kind = "chat"
  /\ recv' = At("cache", m, cache[m.from], FALSE)
  /\ UNCHANGED <<peerVars, pulses, cache, table, pings>>

\* and writes it back.
CacheMinSet ==
  /\ recv.pc = "cache"
  /\ Set(recv.from, recv.copy)
  /\ recv' = Idle
  /\ UNCHANGED <<peerVars, pulses, table, pings>>

\* Mistake: the peer is looked for in another bucket than its own.
RemovePeerMissed(p) == Put(p, table[p])

RemovePeer(p) == Put(p, NoEntries)

\* The time of a departure is not looked at.
ProcessDisconnect(m) ==
  /\ recv.pc = "idle" /\ m.kind = "disconnect" /\ TableUnlocked
  /\ RemovePeer(m.from)
  /\ recv' = At("gone", m, NoCache, FALSE)
  /\ UNCHANGED <<peerVars, pulses, cache, pings>>

\* Mistake: only peers that are not in the cache are marked.
DisconnectGetUnseen ==
  LET c == cache[recv.from]
  IN  /\ recv.pc = "gone"
      /\ recv' = IF ~c.seen THEN [recv EXCEPT !.pc = "leave", !.copy = c] ELSE Idle
      /\ UNCHANGED <<peerVars, pulses, cache, table, pings>>

DisconnectGet ==
  LET c == cache[recv.from]
  IN  /\ recv.pc = "gone"
      /\ recv' = IF ~c.seen \/ ~c.disconnected
                   THEN [recv EXCEPT !.pc = "leave", !.copy = c] ELSE Idle
      /\ UNCHANGED <<peerVars, pulses, cache, table, pings>>

\* Mistake: the cache entry is made anew.
DisconnectSetAnew ==
  /\ recv.pc = "leave"
  /\ Set(recv.from, [NoCache EXCEPT !.disconnected = TRUE])
  /\ recv' = Idle
  /\ UNCHANGED <<peerVars, pulses, table, pings>>

DisconnectSet ==
  /\ recv.pc = "leave"
  /\ Set(recv.from, [recv.copy EXCEPT !.disconnected = TRUE])
  /\ recv' = Idle
  /\ UNCHANGED <<peerVars, pulses, table, pings>>

\* refreshPeer
ProcessPulse(p) ==
  /\ recv.pc = "idle" /\ p \in pulses /\ TableUnlocked
  /\ pulses' = pulses \ {p}
  /\ Put(p, [fresh |-> table[p].fresh + table[p].stale, stale |-> 0])
  /\ UNCHANGED <<peerVars, cache, recv, pings>>

-----------------------------------------------------------------------------
(* SendPings *)

\* Sixty seconds without a pulse.
Age(p) ==
  /\ table[p].fresh > 0
  /\ Put(p, [fresh |-> table[p].fresh - 1, stale |-> table[p].stale + 1])
  /\ UNCHANGED <<peerVars, pulses, cache, recv, pings>>

\* A stale peer is taken out of the table and, later, marked.
RemoveStale(p) ==
  LET c == cache[p]
  IN  /\ TableUnlocked /\ table[p].stale > 0
      /\ Put(p, [table[p] EXCEPT !.stale = 0])
      /\ pings' = IF ~c.seen \/ ~c.disconnected
                    THEN [pc |-> "mark", peer |-> p, copy |-> c] ELSE Idle
      /\ UNCHANGED <<peerVars, pulses, cache, recv>>

MarkStale ==
  /\ pings.pc = "mark"
  /\ Set(pings.peer, [pings.copy EXCEPT !.disconnected = TRUE])
  /\ pings' = Idle
  /\ UNCHANGED <<peerVars, pulses, table, recv>>

-----------------------------------------------------------------------------
(* The peers *)

Send(p, kind) ==
  /\ p \in up /\ clock[p] < MaxTime
  /\ clock' = [clock EXCEPT ![p] = @ + 1]
  /\ net' = net \cup {[from |-> p, kind |-> kind, time |-> clock'[p]]}

Introduce(p, kind) ==
  /\ Send(p, kind)
  /\ UNCHANGED <<up, pulses, cache, table, recv, pings>>

Leave(p) ==
  /\ Send(p, "disconnect")
  /\ up' = up \ {p}
  /\ UNCHANGED <<pulses, cache, table, recv, pings>>

Crash(p) ==
  /\ p \in up /\ up' = up \ {p}
  /\ UNCHANGED <<clock, net, pulses, cache, table, recv, pings>>

Start(p) ==
  /\ p \notin up /\ up' = up \cup {p}
  /\ UNCHANGED <<clock, net, pulses, cache, table, recv, pings>>

\* A peer that is in the table is pinged, and answers.
SendPulse(p) ==
  /\ p \in up /\ table[p] # NoEntries /\ p \notin pulses
  /\ pulses' = pulses \cup {p}
  /\ UNCHANGED <<peerVars, cache, table, recv, pings>>

-----------------------------------------------------------------------------
RecvStep ==
  \/ AddGet \/ AddSet \/ AddInsert
  \/ FloodAnnounce \/ MarkAnnounced
  \/ CacheMinSet
  \/ DisconnectGet \/ DisconnectSet

processMessage(m) == ProcessHello(m) \/ CacheMinGet(m) \/ ProcessDisconnect(m)

PeerNext(p) ==
  \/ Introduce(p, "hello") \/ Introduce(p, "announce") \/ Introduce(p, "chat")
  \/ Leave(p) \/ Crash(p) \/ Start(p) \/ SendPulse(p)

Next ==
  \/ \E m \in net : processMessage(m)
  \/ \E p \in Peers : ProcessPulse(p)
  \/ RecvStep
  \/ \E p \in Peers : Age(p) \/ RemoveStale(p)
  \/ MarkStale
  \/ \E p \in Peers : PeerNext(p)

Spec == Init /\ [][Next]_vars

(***************************************************************************)
(* The goroutines go on, and so does time: a peer that no pulse comes from *)
(* gets stale, and is found by one of the rounds of removeStalePeers.      *)
(***************************************************************************)
Fairness ==
  /\ WF_vars(RecvStep) /\ WF_vars(MarkStale)
  /\ \A p \in Peers : SF_vars(Age(p)) /\ SF_vars(RemoveStale(p))

FairSpec == Spec /\ Fairness

-----------------------------------------------------------------------------
(* Correctness *)

RecvType ==
  {Idle} \cup [pc : {"add", "set", "insert", "flood", "mark", "cache", "gone", "leave"},
               from : Peers, time : 1..MaxTime, copy : Cache, flood : BOOLEAN]

\* Every variable of the model has values of its type.
TypeOK ==
  /\ up \subseteq Peers
  /\ clock \in [Peers -> 0..MaxTime]
  /\ net \subseteq Message
  /\ pulses \subseteq Peers
  /\ cache \in [Peers -> Cache]
  /\ table \in [Peers -> Entries]
  /\ recv \in RecvType
  /\ pings \in {Idle} \cup [pc : {"mark"}, peer : Peers, copy : Cache]

\* flood, removePeer and the routing go through the table, addPeer looks at the
\* cache alone: all the same no peer is in the table twice.
ListedOnce == \A p \in Peers : table[p].fresh + table[p].stale <= 1

\* The time for which a peer was added never goes back, though entries are
\* written back that were read before: no message can add a peer a second time.
TimeNeverBack == [][\A p \in Peers : cache'[p].time >= cache[p].time]_vars

RecvAt(p, pcs) == recv.pc \in pcs /\ recv.from = p
Marking(p) == pings.pc = "mark" /\ pings.peer = p

\* A peer that counts as added and connected, is not in the table, and is not
\* about to be: nothing it says of itself adds it, unless it leaves first.
Lost(p) ==
  /\ cache[p].added /\ ~cache[p].disconnected /\ table[p] = NoEntries
  /\ ~RecvAt(p, {"insert", "gone", "leave"}) /\ ~Marking(p)

\* A peer is lost only in one way: Recv read its cache entry before SendPings
\* marked it, and writes it back afterwards.
LostOnlyByWriteBack ==
  [][\A p \in Peers : ~Lost(p) /\ Lost(p)' =>
       /\ RecvAt(p, {"mark", "cache"})
       /\ ~recv.copy.disconnected /\ cache[p].disconnected]_vars

\* Whatever of its messages still comes, and however often, a peer that has gone
\* is out of the table in the end.
DepartedDropped ==
  \A p \in Peers : <>[](p \notin up) => <>[](table[p] = NoEntries)

-----------------------------------------------------------------------------
(* The inductive invariant *)

\* A peer in the table counts as added and connected.
TableCached ==
  \A p \in Peers : table[p] # NoEntries =>
    /\ table[p].fresh + table[p].stale = 1
    /\ cache[p].seen /\ cache[p].added /\ ~cache[p].disconnected

\* An entry without a peer that was added has no time.
TimeOfAdded ==
  \A p \in Peers : ~(cache[p].seen /\ cache[p].added) => cache[p].time = 0

\* While a stale peer is being marked, it is out of the table, and its cache
\* entry is as it was read, but for the announcement.
MarkingStale ==
  \A p \in Peers : Marking(p) =>
    /\ table[p] = NoEntries
    /\ cache[p].seen /\ cache[p].added /\ ~cache[p].disconnected
    /\ pings.copy.seen /\ pings.copy.added
    /\ pings.copy.time = cache[p].time

\* What is going to be added is not in the table, and is news.
Adding ==
  \A p \in Peers :
    /\ RecvAt(p, {"add", "set"}) =>
         /\ table[p] = NoEntries /\ ~Marking(p)
         /\ \/ ~cache[p].seen \/ ~cache[p].added
            \/ cache[p].disconnected /\ recv.time > cache[p].time
    /\ RecvAt(p, {"insert"}) =>
         /\ table[p] = NoEntries /\ ~Marking(p)
         /\ cache[p].seen /\ cache[p].added /\ ~cache[p].disconnected

\* What is going to be marked as gone is not in the table.
Leaving ==
  \A p \in Peers :
    /\ RecvAt(p, {"gone", "leave"}) => table[p] = NoEntries /\ ~Marking(p)
    /\ RecvAt(p, {"leave"}) => recv.copy = cache[p]

\* What is going to be written back differs in the marks of SendPings only.
WritingBack ==
  \A p \in Peers : RecvAt(p, {"mark", "cache"}) =>
    /\ recv.copy.added = cache[p].added /\ recv.copy.time = cache[p].time
    /\ recv.copy.seen = cache[p].seen
    /\ (recv.copy.disconnected => cache[p].disconnected)

PeerInv ==
  /\ TypeOK
  /\ TableCached /\ TimeOfAdded /\ MarkingStale
  /\ Adding /\ Leaving /\ WritingBack
=============================================================================
