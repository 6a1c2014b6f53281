------------------------------ MODULE NodeLocks ------------------------------
(***************************************************************************)
(* Where the goroutines of a node wait for each other: for its mutexes,    *)
(* and at channels that are full.  A goroutine does rounds: a round is a   *)
(* handler, a command, or one turn of an endless loop.  Of a round only    *)
(* the places at which it may have to wait are kept, its stations: what it *)
(* waits for there, and which mutexes it holds meanwhile.  A mutex is      *)
(* given back as soon as the next station is reached without it: nothing   *)
(* in between waits for anybody.  Each channel is read by one goroutine,   *)
(* at the start of each of its rounds.                                     *)
(*                                                                         *)
(* Every set of rounds is named after the function that it stands for and  *)
(* gives the ways through it; {<<>>} is a way that waits nowhere.  A loop   *)
(* is gone through once at most, and several waits in a row for the same   *)
(* thing are one.  There is one party, and one pack in it.                 *)
(***************************************************************************)
EXTENDS Integers, Sequences, FiniteSets

CONSTANTS
  Capacity,   \* places in each channel; for the real ones, 1 or 100
  Crews       \* bound: which goroutines do rounds, in one behaviour or another

ASSUME CapacityAssumption == Capacity \in Nat \ {0}

Mutexes ==
  {"Parties", "PendingInvites", "PacksLock", "pack", "FileLock", "MinList",
   "PeerTable", "PeerCache", "chatMutex"}

Receiver ==
  [StatusChannel |-> "statusReceiver", ChatChannel |-> "chatReceiver",
   RequestChan |-> "RequestSender", VerifiedBlockChan |-> "VerifiedBlockWriter",
   statusChan |-> "statusSetter", chatChan |-> "chatDrawer"]

Channels == DOMAIN Receiver

Receivers == {Receiver[c] : c \in Channels}
Goroutines ==
  Receivers \cup {"main", "Recv", "SendPings", "FileRequester", "Advertise"}

-----------------------------------------------------------------------------
(* Ways: sets of sequences of stations *)

Station ==
  [wants : Mutexes \cup Channels,   \* a mutex to lock, or a channel to send to
   held : SUBSET Mutexes,           \* what is held while waiting for it
   starts : SUBSET Goroutines,      \* go statements between this station and the next
   leaks : SUBSET Mutexes,          \* mutexes that are still held when the round ends
   ends : BOOLEAN]                  \* does the goroutine end here?

At(x) == [wants |-> x, held |-> {}, starts |-> {}, leaks |-> {}, ends |-> FALSE]

\* One after the other.
P \odot Q == {p \o q : p \in P, q \in Q}

Maybe(P) == P \cup {<<>>}

Send(c) == {<<At(c)>>}

\* The stations of P, with mutex m held as well.
With(m, P) == {[k \in DOMAIN p |-> [p[k] EXCEPT !.held = @ \cup {m}]] : p \in P}

\* m is locked, P done and m unlocked.
Holding(m, P) == {<<At(m)>>} \odot With(m, P)

\* m is locked for something that waits for nobody.
Use(m) == {<<At(m)>>}

\* The parts of the ways P between two stations at which nothing is held.  A
\* goroutine that is there, and that nobody sends to, delays nobody; it may as
\* well have finished, and do in its next round what it would do next.
Sections(P) ==
  LET Open(p) == {k \in DOMAIN p : p[k].held = {}}
      IsSection(p, i, j) ==
        i \in Open(p) /\ (i..j) \cap Open(p) = {i} /\ j + 1 \in Open(p) \cup {Len(p) + 1}
  IN  UNION {{SubSeq(p, ij[1], ij[2]) :
                ij \in {x \in (DOMAIN p) \X (DOMAIN p) : IsSection(p, x[1], x[2])}} : p \in P}

\* Something that happens at the last station of P.
Last(P, Change(_)) == {[p EXCEPT ![Len(p)] = Change(p[Len(p)])] : p \in P}

-----------------------------------------------------------------------------
(* Output: package whitebox's, and that of the terminal *)

setStatus == Send("StatusChannel")

tuiStatus == Send("statusChan")
addChat   == Holding("chatMutex", Send("chatChan"))
redrawChats == Send("chatChan")

\* Mistake: a party is looked up before its message is shown.
statusReceiverLooks == Maybe(Use("Parties") \odot (addChat \cup tuiStatus))

statusReceiver == Maybe(addChat \cup tuiStatus)

-----------------------------------------------------------------------------
(* The overlay *)

route == Use("PeerTable")
flood == Holding("PeerTable", Maybe(setStatus)) \odot setStatus
SendChat == Use("PeerTable") \odot setStatus

addPeer    == Use("PeerCache") \odot Maybe(Use("PeerTable") \odot Maybe(setStatus))
removePeer == Use("PeerTable") \odot Maybe(setStatus)

removeStalePeers ==
  Holding("PeerTable", Maybe(Use("PeerCache") \odot setStatus))
    \odot Maybe(Use("PeerTable") \odot Maybe(setStatus))

processBootstrap == setStatus \odot Use("PeerCache") \odot Maybe(addPeer)
processVerify    == Use("PeerCache") \odot Maybe(addPeer) \odot setStatus
processAnnounce ==
  Use("PeerCache") \odot
    (setStatus \cup (Maybe(addPeer) \odot Maybe(flood \odot Use("PeerCache"))))
processSuggestionRequest == route \odot Use("PeerCache") \odot Maybe(addPeer)
processSuggestions ==
  Use("PeerCache") \odot
    (setStatus \cup (Maybe(addPeer) \odot
       Maybe(Use("PeerCache") \odot Maybe(Use("PeerTable") \odot setStatus))))
processChat ==
  Maybe(Send("ChatChannel") \odot flood) \odot Use("PeerCache")
processDisconnect == removePeer \odot Use("PeerCache") \odot Maybe(flood)
processPing  == route
processPulse == Use("PeerTable")

-----------------------------------------------------------------------------
(* A party *)

sendToNeighbors == Use("MinList") \odot Maybe(setStatus \cup route)

SendInvite   == Use("MinList") \odot route \odot setStatus
SendAnnounce == Holding("MinList", Maybe(setStatus \cup route))

AcceptInvite ==
  Use("PendingInvites") \odot Use("Parties") \odot
    (setStatus \cup
       (Use("PendingInvites") \odot SendAnnounce \odot Use("Parties") \odot setStatus))

\* A pack that is new is locked before anybody else can see it; here, when it
\* is put into Packs.  It stays locked while neighbours are told of it.
NewPack ==
  Use("PacksLock") \odot With("PacksLock", Use("pack")) \odot
    With("pack", Use("FileLock") \odot Maybe(sendToNeighbors))

ProcessAdvertisement == Use("PacksLock") \odot Maybe(sendToNeighbors \cup NewPack)
ProcessAnnounce   == Use("MinList") \odot Maybe(sendToNeighbors)
ProcessDisconnect == Use("MinList") \odot Maybe(sendToNeighbors)
ProcessChat       == Maybe(Send("ChatChannel") \odot sendToNeighbors)

ProcessRequest ==
  Maybe(sendToNeighbors \odot Use("PacksLock") \odot
          Holding("pack", Maybe(Send("RequestChan"))))

ProcessFulfillment ==
  Use("PacksLock") \odot Use("pack") \odot Maybe(Send("VerifiedBlockChan"))

processParty ==
  Use("Parties") \odot
    (setStatus \cup
       ((setStatus \cup ProcessAdvertisement \cup ProcessAnnounce \cup ProcessChat
           \cup ProcessDisconnect \cup ProcessRequest \cup ProcessFulfillment)
          \odot Maybe(Use("MinList"))))

processInvite ==
  Use("PendingInvites") \odot Use("Parties") \odot
    Maybe(Use("PendingInvites")) \odot setStatus

\* A message may also be malformed.
processMessage ==
  setStatus \cup processChat \cup processBootstrap \cup processVerify
    \cup processAnnounce \cup processSuggestionRequest \cup processSuggestions
    \cup processDisconnect \cup processPing \cup processPulse
    \cup processParty \cup processInvite

-----------------------------------------------------------------------------
(* Packs *)

SendRequests == Holding("FileLock", Maybe(sendToNeighbors))

FileRequester ==
  Holding("Parties", Maybe(Holding("PacksLock",
    Maybe(Holding("pack", Maybe(SendRequests))))))

AdvertisePacks ==
  Holding("PacksLock", Maybe(Holding("pack", Maybe(sendToNeighbors))))

advertiseAll == Holding("Parties", Maybe(AdvertisePacks))

\* The walk over the disk happens with Parties locked.
RescanPacks ==
  Holding("Parties",
    Maybe(Use("PacksLock") \odot Maybe(setStatus \cup Use("PacksLock"))))
      \odot advertiseAll

\* Mistake: PacksLock is taken again with the pack locked.
StartPackInside ==
  Holding("pack", Use("PacksLock") \odot
    (setStatus \cup (Use("FileLock") \odot Maybe(Holding("FileLock", setStatus)))))

StartPack ==
  Use("PacksLock") \odot
    Holding("pack", setStatus \cup
      (Use("FileLock") \odot (setStatus \cup Holding("FileLock", Maybe(setStatus)))))

chooseBlock     == Use("PacksLock") \odot Use("pack")
SendFulfillment == setStatus \cup route

\* A request is not answered, or answered and put back.  If its party is over,
\* the goroutine ends.
RequestSender ==
  {<<>>} \cup Last(Use("Parties"), LAMBDA s : [s EXCEPT !.ends = TRUE])
    \cup (Use("Parties") \odot chooseBlock \odot
            Maybe(SendFulfillment \odot Send("RequestChan")))

VerifiedBlockWriter == Maybe(setStatus)

-----------------------------------------------------------------------------
(* Commands *)

\* The party with a prefix is looked for, and used, if there is just one.
FindParty(use) ==
  Holding("Parties", tuiStatus) \cup (Use("Parties") \odot (tuiStatus \cup use))

handleBootstrap == addChat \cup tuiStatus \cup setStatus
handleStart ==
  tuiStatus \cup setStatus
    \cup (Use("MinList") \odot Use("Parties") \odot tuiStatus)
handleInvite ==
  FindParty(Holding("PeerCache", tuiStatus)
    \cup (Holding("PeerCache", Maybe(tuiStatus)) \odot (tuiStatus \cup SendInvite)))
handleShow  == redrawChats \cup FindParty(redrawChats)
handleIds   == tuiStatus \odot Maybe(redrawChats)
handleClear == redrawChats
handleSend  == FindParty(Holding("Parties", sendToNeighbors))
handleList ==
  addChat \odot Use("Parties") \odot (addChat \cup Holding("Parties", Maybe(addChat)))
    \odot addChat \odot Use("PendingInvites")
    \odot (addChat \cup Holding("PendingInvites", Maybe(addChat)))

\* If two invites have the prefix, the return leaves PendingInvites locked.
handleAccept ==
  Last(Holding("PendingInvites", tuiStatus),
       LAMBDA s : [s EXCEPT !.leaks = {"PendingInvites"}])
    \cup (Use("PendingInvites") \odot (tuiStatus \cup AcceptInvite))

handleLeave == FindParty(Holding("Parties", sendToNeighbors) \odot tuiStatus)
handlePacks ==
  Holding("Parties", Maybe(addChat \odot Holding("PacksLock",
    Maybe(Holding("pack", addChat \odot Holding("FileLock", Maybe(addChat)))))))
handleGet ==
  FindParty(Use("Parties") \odot
    (Holding("PacksLock", tuiStatus)
       \cup (Use("PacksLock") \odot (tuiStatus \cup StartPack))))
handleHelp == addChat
handleQuit == Holding("Parties", Maybe(sendToNeighbors)) \odot flood
handleChat ==
  (SendChat \odot tuiStatus)
    \cup Holding("Parties", Maybe(sendToNeighbors \odot tuiStatus))

handleUserInput ==
  handleBootstrap \cup handleStart \cup handleInvite \cup handleShow \cup handleIds
    \cup handleClear \cup handleSend \cup handleList \cup handleAccept
    \cup handleLeave \cup handlePacks \cup handleGet \cup RescanPacks
    \cup handleHelp \cup handleQuit \cup handleChat

-----------------------------------------------------------------------------
(* All together *)

Drawers == {"statusSetter", "chatDrawer"}

\* New reports its address; then the goroutines are started, those that draw
\* on the screen last, after bsInASecond.
StartUp ==
  LET Starting(P, gs) == Last(P, LAMBDA s : [s EXCEPT !.starts = gs])
      others == Goroutines \ {"main"}
  IN  Starting(setStatus, others)
        \cup (Starting(setStatus, others \ Drawers) \odot Starting(setStatus, Drawers))

Rounds ==
  [main |-> Sections(handleUserInput),
   Recv |-> Sections(processMessage),
   SendPings |-> removeStalePeers \odot Use("PeerTable"),
   FileRequester |-> FileRequester,
   Advertise |-> advertiseAll,
   RequestSender |-> RequestSender,
   VerifiedBlockWriter |-> VerifiedBlockWriter,
   statusReceiver |-> statusReceiver,
   chatReceiver |-> addChat,
   statusSetter |-> {<<>>},
   chatDrawer |-> {<<>>}]

-----------------------------------------------------------------------------
(* The goroutines at work *)

VARIABLES
  todo,      \* the stations that are left of each goroutine's round
  queued,    \* how many messages wait in each channel
  running,   \* the goroutines that have been started and have not ended
  lost,      \* mutexes that nobody will give back
  crew       \* the goroutines that do rounds in this behaviour

vars == <<todo, queued, running, lost, crew>>

\* Who does nothing but read a channel never keeps it full: what is sent to it
\* is as good as read.
Sink(c) == Rounds[Receiver[c]] = {<<>>}

Busy(g)  == todo[g] # <<>>
Held(g)  == IF Busy(g) THEN Head(todo[g]).held ELSE {}
Wants(g) == Head(todo[g]).wants

Free(x) ==
  IF x \in Channels
    THEN queued[x] < Capacity \/ (Sink(x) /\ Receiver[x] \in running)
  ELSE x \notin lost /\ \A g \in Goroutines : x \notin Held(g)

Init ==
  /\ \E p \in StartUp : todo = [g \in Goroutines |-> IF g = "main" THEN p ELSE <<>>]
  /\ queued = [c \in Channels |-> 0]
  /\ running = {"main"}
  /\ lost = {}
  /\ crew \in Crews

\* Mistake: the goroutine does not wait until there is something in its channel.
BeginEarly(g) ==
  /\ g \in running \cap crew /\ ~Busy(g) /\ Rounds[g] # {<<>>}
  /\ queued' = [c \in Channels |-> IF Receiver[c] = g THEN queued[c] - 1 ELSE queued[c]]
  /\ \E p \in Rounds[g] : todo' = [todo EXCEPT ![g] = p]
  /\ UNCHANGED <<running, lost, crew>>

\* A round begins; the goroutine reads the channel that is its own, if any.
Begin(g) ==
  /\ g \in running \cap crew /\ ~Busy(g) /\ Rounds[g] # {<<>>}
  /\ \A c \in Channels : Receiver[c] = g => queued[c] > 0
  /\ queued' = [c \in Channels |-> IF Receiver[c] = g THEN queued[c] - 1 ELSE queued[c]]
  /\ \E p \in Rounds[g] : todo' = [todo EXCEPT ![g] = p]
  /\ UNCHANGED <<running, lost, crew>>

\* The goroutine gets what it wants, and goes on to the next station.
Step(g) ==
  LET s == Head(todo[g])
  IN  /\ Busy(g) /\ Free(s.wants)
      /\ running' = IF s.ends THEN running \ {g} ELSE running \cup s.starts
      /\ queued' = [c \in Channels |->
                      IF Sink(c) /\ Receiver[c] \in running THEN 0
                      ELSE IF c = s.wants THEN queued[c] + 1 ELSE queued[c]]
      /\ todo' = [todo EXCEPT ![g] = Tail(@)]
      /\ lost' = lost \cup s.leaks
      /\ UNCHANGED crew

Next == \E g \in Goroutines : Begin(g) \/ Step(g)

Spec == Init /\ [][Next]_vars

-----------------------------------------------------------------------------
(* Who waits for whom *)

Blocked(g) == Busy(g) /\ ~Free(Wants(g))

Waiting == {g \in Goroutines : Blocked(g)}

WaitsFor(g) ==
  IF Wants(g) \in Channels THEN {Receiver[Wants(g)]}
  ELSE {h \in Goroutines : Wants(g) \in Held(h)}

\* Every goroutine of D waits for others of D, or for somebody who will not
\* come: a mutex was lost, or the goroutine that reads a channel does not run.
Hopeless(D) ==
  /\ D # {}
  /\ \A g \in D : Blocked(g) /\ WaitsFor(g) \subseteq D \cup (Goroutines \ running)

-----------------------------------------------------------------------------
(* Correctness *)

\* Every variable of the model has values of its type, and no channel holds
\* more than it can.
TypeOK ==
  /\ todo \in [Goroutines -> Seq(Station)]
  /\ queued \in [Channels -> 0..Capacity]
  /\ running \subseteq Goroutines
  /\ lost \subseteq Mutexes
  /\ crew \in Crews

\* The order in which mutexes are locked and channels sent to.
Rank ==
  [PendingInvites |-> 1, Parties |-> 1, PacksLock |-> 2, pack |-> 3, FileLock |-> 4,
   MinList |-> 5, PeerTable |-> 6, PeerCache |-> 7, RequestChan |-> 8,
   VerifiedBlockChan |-> 8, StatusChannel |-> 9, ChatChannel |-> 9, chatMutex |-> 10,
   statusChan |-> 11, chatChan |-> 11]

\* At station s goroutine g wants something that comes after all that it holds,
\* and after the channel that it has to read, if that is not RequestChan.
Ascends(g, s) ==
  /\ \A m \in s.held : Rank[m] < Rank[s.wants]
  /\ \A c \in Channels \ {"RequestChan"} : Receiver[c] = g => Rank[c] < Rank[s.wants]

Output == {"StatusChannel", "ChatChannel", "chatMutex", "statusChan", "chatChan"}

\* Along p goroutine g only ascends, keeps no mutex that output needs, and ends
\* in no other place than the last, if at all.
Orderly(g, p) ==
  \A k \in DOMAIN p :
    /\ Ascends(g, p[k])
    /\ p[k].leaks \cap Output = {}
    /\ p[k].ends => g = "RequestSender" /\ k = Len(p)

\* Every way through the code is orderly, and the first thing that main does
\* starts all but those that draw.
RoundsOrderly ==
  /\ \A g \in Goroutines : \A p \in Rounds[g] : Orderly(g, p)
  /\ \A p \in StartUp :
       Orderly("main", p) /\ Goroutines \ Drawers \subseteq {"main"} \cup Head(p).starts

\* The inductive invariant: whoever waits does so in this order, and was
\* started; and all that receive for the package run from the start on.
LocksInv ==
  /\ TypeOK
  /\ lost \cap Output = {}
  /\ \A g \in Goroutines : Orderly(g, todo[g]) /\ (Busy(g) => g \in running)
  /\ \/ /\ running = {"main"} /\ todo["main"] \in StartUp
        /\ \A c \in Channels : queued[c] = 0
     \/ Goroutines \ (Drawers \cup {"RequestSender"}) \subseteq running

\* The ways in which goroutines come to wait for ever: for room in RequestChan,
\* which is sent to with a pack locked and by the goroutine that reads it; for
\* PendingInvites after /accept found two invites; and for the screen before
\* anybody draws on it.
Known(g) ==
  \/ Wants(g) = "RequestChan"
  \/ Wants(g) \in lost
  \/ Wants(g) \in {"statusChan", "chatChan"} /\ ~(Drawers \subseteq running)

\* In no other way do goroutines wait for each other for ever, whatever the
\* commands, the messages and the state of the packs.
OnlyKnownDeadlocks == \A D \in SUBSET Waiting : Hopeless(D) => \E g \in D : Known(g)

\* Statuses and chats are sent with all sorts of mutexes locked, PeerTable among
\* them, and wait when the channels are full.  Once there is somebody to draw,
\* none waits in vain, even if other goroutines have come to a standstill.
OutputFlows ==
  Drawers \subseteq running =>
    \A D \in SUBSET Waiting : Hopeless(D) => \A g \in D : Wants(g) \notin Output

=============================================================================
