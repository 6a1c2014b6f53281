# party-line in TLA+

party-line is a peer-to-peer chat and file sharing program in Go. A node
("white box") keeps a UDP socket, finds other nodes over a Kademlia-like
overlay called the *mainline*, founds and joins *parties* (private chat groups),
and shares *packs* (sets of files) among the members of a party. This directory
holds TLA+ models of the parts of it that are hard to test, TLC configurations
that check them on small instances, and TLAPS proofs for instances of any size.
Paths below are relative to `src/`.

## The system

One process runs these goroutines, which share most of their state:

| goroutine | where | what it does |
|---|---|---|
| Recv | `white-box/white-box.go:298` | reads a datagram, hands it to `processMessage`, one at a time, to the end |
| UI | `tui.go:626` | runs the commands the user types |
| VerifiedBlockWriter | `white-box/party.go:1320` | writes blocks from `VerifiedBlockChan` to disk and records them |
| FileRequester | `white-box/party.go:1218` | every 5 s asks peers for the missing blocks of active packs |
| RequestSender | `white-box/party.go:1241` | answers the requests of `RequestChan`, a block at a time |
| Advertise | `white-box/party.go:1485` | every 60 s floods advertisements of packs to the parties |
| SendPings, removal of stale peers, bootstrap | `white-box/senders.go`, `white-box/kad.go` | keep the peer table up to date |

Components, with the state they keep, their operations, and what makes each
correct:

| component | state | operations | correct if |
|---|---|---|---|
| Pack download | `party.Packs`; per pack `State`, per file `Coverage`, `BlockMap`, `BlockLookup`; the files on disk; `VerifiedBlockChan` | `StartPack`, `ProcessAdvertisement`, `ProcessFulfillment`, `VerifiedBlockWriter`, `SendRequests`, `ClearPacks` | only genuine blocks are written; a recorded block is on disk; a complete pack is all on disk; a started download ends |
| Party membership and chat | `Parties`, `PendingInvites`; per party `MinList`, `SeenChats` | `SendInvite`, `AcceptInvite`, `SendChat`, `SendDisconnect`, and the handlers of what they send | lists name members only and come to agree; a chat reaches every member and is shown once |
| Pack seeding | `RequestChan`, `FreshRequests`; the maps of the downloader | `ProcessRequest`, `chooseBlock`, `RequestSender`, `SendFulfillment` | a request in its time is answered with a block it lacks; nobody waits for ever |
| Advertising and building of packs | `party.Packs`, `.pack` files | `RescanPacks`, `buildPack`, `calculateChain`, `SendAdvertisement` | the chain reaches every block from the first; an advertisement reaches every member once |
| Peer table and cache | `PeerTable` (buckets by distance), `PeerCache` | `addPeer`, `removePeer`, `removeStalePeers`, `refreshPeer`, `cacheMin`, announce and ping handlers | a peer that lives is in the table; one that is gone leaves it and can come back |
| Overlay | `NoReroute`, `SeenChats`, the table | `processMessage`, `route`, `flood`, bootstrap, suggestions, mainline chat | a joiner becomes known; a chat is shown once and reaches all; floods end; pings are answered |
| Waiting and locking | nine mutexes, six channels | every `Lock` and every send to a channel, in all of the above and in the terminal | no goroutines wait for each other for ever |
| Node life cycle, terminal | keys, channels, views | start-up, exit, key presses, drawing | goroutines that receive are there when they are needed; the rest is sequential |
| NAT traversal | none of its own | UPnP and NAT-PMP requests | sequential |

Interactions. The UI and Recv call the same methods of `PartyLine`; party
methods send through `route` of the overlay; Recv and VerifiedBlockWriter share
a channel and, without a lock, the maps of a file; RequestSender reads the same
maps; `setStatus` and the log channels connect every goroutine to the display.

Hard behaviours. *Concurrency*: `pack.Mutex` guards the state of a pack but not
the coverage and the maps of its files, and objects are used after the lock
under which they were found is released. *Ordering*: datagrams overtake each
other, and AcceptInvite announces before it registers. *Failure*: writes fail,
members crash, datagrams are lost or repeated. *Timeouts*: requests last 6 s and
are repeated after 5 s; a block is chosen anew every 2 ms. Every hazard found
while reading is listed, at its line, under `hazards` in `PROJECT.json`, with
the properties that cover it or the reason why none does yet.

## Modules

| module | what it is |
|---|---|
| `PackDownload` | one pack on one downloading member, four goroutines |
| `ReliableDownload` | the abstract specification that `PackDownload` implements |
| `MCPackDownload` | small packs for TLC |
| `PackDownload_proofs` | theorems about `PackDownload` |
| `PartyLine` | the members of one party |
| `MCPartyLine` | two situations of `PartyLine` in one run |
| `PartyLine_proofs` | theorems about `PartyLine` |
| `Seeder` | a member that answers requests for blocks, and those who ask |
| `MCSeeder` | a small file for TLC |
| `Seeder_proofs` | theorems about `Seeder` |
| `PeerTable` | the peer table and the peer cache of one node, and its peers |
| `PeerTable_proofs` | theorems about `PeerTable` |
| `Overlay` | the main line: several nodes that find each other, chat, ping and leave |
| `Broadcast` | the abstract specification that the chats of `Overlay` implement |
| `MCOverlay` | ids and situations for TLC |
| `Overlay_proofs` | theorems about `Overlay`: what never happens |
| `Overlay_joining` | theorems about `Overlay`: how far a bootstrap and a chat get |
| `NodeLocks` | all goroutines of a node, and what they wait for |
| `MCNodeLocks` | which goroutines TLC lets run together |
| `NodeLocks_ways` | the order of locking on every way through the code |
| `NodeLocks_proofs` | theorems about `NodeLocks` |

A definition whose comment starts with "Mistake:" is a plausible bug of the
definition that follows it. It is not part of any specification; it serves to
confirm that a property notices that bug.

### PackDownload

| variable | code |
|---|---|
| `cur`, `made` | which `*Pack` is in `party.Packs`, and how many there have been: a rescan drops the pack, an advertisement makes a new object for it |
| `state` | `Pack.State` |
| `coverage` | `PackFileInfo.Coverage`, bits as a set |
| `blockMap`, `blockLookup` | the two maps of a `PackFileInfo`; the hash of a block is the block itself |
| `disk` | the content of the files, a block at a time; shared by all objects of the pack |
| `chan` | `VerifiedBlockChan` (`ChanCap` stands for its 100) |
| `writer`, `recv`, `ui` | where VerifiedBlockWriter, Recv and StartPack are, with the block they hold |
| `halted` | whether, and why, the Go runtime stopped the process |

Actions: `StartPack` takes `pack.Mutex` and keeps it through `WriteZeroFile` and
`EmptyCoverage` for each file to `Activate`, which is why the actions that need
the mutex require `PackUnlocked`. `ProcessFulfillment` is split where it
releases the mutex (`FulfillmentCheck`), verifies without a lock
(`FulfillmentVerify`) and sends on the channel (`FulfillmentSend`).
VerifiedBlockWriter is split at every access to something shared: `WriterTake`,
`WriterWrite` or `WriterFail`, `MarkCoverage`, `PutBlockMap`, `PutBlockLookup`.
The reads of the maps in `FulfillmentVerify` are one step: the writer adds to
the maps only what agrees with the hashes, so a read that falls between two of
its steps sees a state that also exists before or after them; the data race
itself has the outcome `ConcurrentMapAccess`. `SendRequestsComplete` is the part
of `SendRequests` that changes state; the requests that it sends change nothing
on this side. What seeders send is arbitrary: genuine blocks of any file,
consistent blocks with wrong content or links, and damaged blocks, of any index
and under the hash of any file (`Block`).

Among them is the empty block in which the chain of a file ends if its size is a
multiple of the block size (`LastIndex`; `white-box/files.go:338`). It is of the
chain and passes the checks, but no `fullCoverage` has it (`Covered`). Once it is
recorded the coverage is not the full one any more and the pack does not become
complete (`ExtraRecorded`); and if the blocks of the file fill the words of its
coverage (`Words`, of `WORD` blocks, 64 in the code), `haveBlock` reads behind
their end and the process dies (`WriterOutOfRange`). Seeders that run this code
never send it, as `chooseBlock` takes blocks of their own coverage; nothing on
the downloader's side keeps it out. What is recorded is still genuine and on
disk, so the safety properties and the refinement hold with it; the properties
that a download ends or can go on are stated accordingly: `DownloadCompletes`
up to `ExtraRecorded`, `NeverStuck` about the blocks of `Covered`.

`writeZeroFile` does not truncate a file that is there already. `disk` has the
blocks of the pack's files only: if the old file was longer, what is behind them
stays, in a complete pack too.

### ReliableDownload

A pack is offered, started, gains missing blocks one by one, and is finished
exactly when it has them all; a rescan starts over. The refinement mapping takes
as *held* the blocks that are recorded **and** on disk, so losing a recorded
block from the disk would be a step the abstract specification does not allow.

### PartyLine

| variable | code |
|---|---|
| `inParty` | nodes with the party in `Parties` |
| `minList` | keys of `MinList` |
| `pending` | the party's entry of `PendingInvites` |
| `accepting` | the party that AcceptInvite took out of `PendingInvites` and has not put into `Parties` yet |
| `seenChats`, `shown` | `SeenChats`, and how often the chat was handed to the display |
| `crashed` | processes that are gone |
| `net` | datagrams on their way; with `Unreliable`, every datagram ever sent |
| `invites`, `left`, `sent` | history: what bounds the run and what the properties compare with |

`processParty` is the union of the handlers and `InvalidParty`; each handler
includes the tail of `processParty` that lists the node the message came from.
AcceptInvite is the one command that Recv can get in between of: it is
`AcceptAnnounce`, then `AcceptRegister`. With `QuickEcho` false no answer is
handled between the two. The other commands are single steps: SendDisconnect
deletes the party under the lock before it sends, and a handler that finds the
party first and finishes after a leave has the effect of the handler run before
the leave. A message to oneself is not sent, since `route` forwards only to
peers that are closer to the target than the node is.

Left out: invitations to a party of more than 20 members (of which a random
subset is sent, into a list without a mutex); disconnects older than 200 s are
dropped by the code, which `Unreliable` covers as a loss. Of two nodes that join
a large party at the same time neither is promised to list the other; the
liveness property speaks of the founders and of the joiner itself.

### Seeder

| variable | code |
|---|---|
| `member`, `phase`, `own` | `Parties`; `State` of the pack of each party, `"NONE"` if it is not in `Packs`; `Coverage` of each file |
| `have`, `asked` | at the peers: what each has of a file, and the coverage in its newest request |
| `fresh` | how much longer `FreshRequests` keeps a peer and file out |
| `chan` | `RequestChan`, in its order, with the time that each request has left |
| `sender`, `recv` | where RequestSender and Recv are, with the request in their hands |
| `halted` | whether, and why, the process died |

`ProcessRequest` takes a request that `FreshRequests` lets through, and with it
`pack.Mutex`, which it keeps to `Enqueue`, the send to the channel and the
deferred unlock: hence `PackUnlocked` in the actions that need the mutex.
RequestSender is `Take`, `TakeDropped` or `TakePartyOver`; then one of
`AnswerArrives`, `AnswerLost`, `NoAnswer`, `ConcurrentMapAccess` and
`ChoosePanics`; then `Requeue`. `chooseBlock` gives the set that the code picks
from at random. `ChoosePanics` stands for what ends the process in chooseBlock:
an index out of the range of the request's coverage; the nil mutex of a pack
that a rescan dropped; and, if the pack has been advertised again, its coverages
without words.

Abstractions. Each party has one pack. The flood of requests is left out: any
copy of a peer's newest request may come, and an older one is dropped by its
time. Reading a block from disk either works or is `NoAnswer`. A block is
delivered when it is sent, or lost. The node's own download gains blocks one by
one, as `ReliableDownload` says. Times count down in ticks; `FRESH` and `EXPIRY`
keep the order of the code's 5 s and 6 s, and `Tick` waits for steps of a
goroutine that can be taken, because those take milliseconds: nobody has a
request to put into the channel and room for it, and RequestSender has thrown
away what it is going to drop. `ChanCap`, `WORD`, `FRESH`, `EXPIRY` are 100, 64,
5 s and 6 s in the code.

### PeerTable

| variable | code |
|---|---|
| `cache` | `PeerCache` entries, with `seen` for whether there is one |
| `table` | how many entries each peer has in `PeerTable`: those refreshed in the last 60 s, and the others |
| `recv` | where Recv is in a handler, with the message and the copy of the cache entry |
| `pings` | where removeStalePeers is, which keeps the table locked |
| `up`, `clock` | which peers run, and the time of each peer's last message |
| `net` | messages that were sent; each may still come, also again |
| `pulses` | answers to pings on their way |

A cache entry is read under its lock, and written under its lock, and what lies
between are two actions: `AddGet` and `AddSet`, `CacheMinGet` and `CacheMinSet`,
`FloodAnnounce` and `MarkAnnounced`, `DisconnectGet` and `DisconnectSet`,
`RemoveStale` and `MarkStale`. `AddInsert` puts the peer into the table.
`ProcessHello` stands for five message types that treat a peer alike
(bootstrap, verifybs, request, suggestions, announce); the announcement has the
flood and its mark besides. `Start` lets a peer come back with its old keys, as
a permanent node does (`party-line.go:139`). A pulse carries nothing that
matters and comes once for each time it is sent.

Left out: the buckets and distances, which decide whom to route to and not who
is in the table, and are in `Overlay`; peers suggested by others, which are asked to introduce
themselves; the `EmptyList` flag, which decides on a line of the display. The
loop of removeStalePeers is modelled one peer at a time, with the lock free in
between, which allows more than the code does; so does leaving out that
processDisconnect, after its mark, waits for the table once more to flood.

### Overlay

| variable | code |
|---|---|
| `sit` | the situation that a behaviour starts in: who joins, by which contact, who else is there, whether the network is lossy |
| `up`, `clock` | nodes that run; how many messages each has signed, for their times |
| `table` | the peers in `PeerTable`; which bucket a peer is in follows from its id |
| `cache` | `PeerCache`: the three flags and the time of each entry, and whether there is one |
| `copy` | the entry that a handler has read and is about to write back |
| `NoReroute` | the map, as the routed messages whose times are in it |
| `SeenChats`, `chatLog` | the map, and what was put into `ChatChannel`, in order |
| `net` | packets, one for each hop |
| `sent`, `stale` | history: the chats that were said; who has taken whom for gone |
| `joined`, `left` | whether the joiner has typed /bs; what is left of the other commands |

`calculateIdealTable`, `closestIndex`, `findClosestN`, `wouldAddPeer` and `route`
are translated for ids of `BITS` bits; the exclusive or is a constant, of which
the theorems need only that `BitXor(x, y) = 0` means `x = y`. Each handler of
`processMessage` is one action, with what it changes and sends: `processBootstrap`,
`processVerify`, `processAnnounce`, `processSuggestionRequest`,
`processSuggestions`, `processChat`, `processDisconnect`, `processPing`,
`processPulse`, which has the routing of messages for others too
(`white-box/processors.go:23`). Two of them end in writing back a cache entry that
they have read before, `processAnnounce` (`:246`) and `processChat`, by `cacheMin`
(`white-box/kad.go:175`): that is an action of its own, `WriteBack`, before which
a turn of SendPings may mark the same entry. `Lose` takes a packet from a lossy network, or one whose
addressee has gone. Commands are `SendBootstrap`, `SendChat`, `SendDisconnect`
and a turn of `SendPings`.

Abstractions. But for the write-backs a handler is one step; `PeerTable` takes the
handlers apart at every access to the cache and the table. Which peers a turn of
SendPings takes for stale is any set, since pulses may be late. All nodes but the
joiner know each other at first, and only the joiner bootstraps, once; restarts
are in `PeerTable`. A lossy network repeats what is flooded (announcements, chats,
departures), not what is answered each time with a new message. The cap of 128
suggestions is left out.

The contact of the joiner may be any node, also one that it knows already, or the
joiner itself: neither `handleBootstrap` (`tui.go:114`) nor `processBootstrap`
looks, and notes in `party-line.go:21` and `:77` tell of nodes that connect to
themselves. A node that joins by itself becomes a peer of its own, answers
itself, and announces itself to itself, which `processAnnounce`, the only handler
that looks, drops. `OverlayInv` says that no other node is its own peer.

What the model makes plain: `NoReroute` is to keep a message from being routed
twice, but a message is routed on only if it is in it, and it is put in only
then: nothing is routed on (see the finding OverlayRoute). A lost mark leaves a
peer that counts as connected without being in the table, and `OverlayInv` says
that it comes about in no other way (`CacheFits`, with `stale`). And a joiner
need not get to know all those who list it: when node 0
joins by node 5, which keeps 6 in a bucket that none of the ideal ids of 0 falls
into, it is not told of 6, while the announcement makes 6 list it
(`JoinerKnown` promises the joiner its contact only).

### Broadcast

What was said is shown to a node at most once, and nothing else is. The chats
of `Overlay` map to it with `said` as the chats that were sent and `log` as what
each node has shown.

### NodeLocks

| variable | code |
|---|---|
| `todo` | what is left of the way that each goroutine takes through its handler, command or loop |
| `queued` | how full each channel is |
| `running` | goroutines that were started and have not ended |
| `lost` | mutexes that nobody will unlock |
| `crew` | which goroutines do rounds in this behaviour |

A *way* is a sequence of stations: what is waited for (a mutex, room in a
channel) and which mutexes are held meanwhile. For each function that locks or
sends, the operator of the same name gives the set of its ways, put together
from those of the functions it calls: `Holding(m, P)` for `m.Lock(); P;
m.Unlock()`, `Maybe` for a condition, `\odot` for one after the other, union
for branches. `Begin` starts a round of a goroutine, reading its channel if it
has one; `Step` passes a station.

Abstractions. Loops are gone through once at most, and several waits in a row
for the same thing are one. There is one party and one pack: two packs, or two
parties, are locked one after the other, never one inside the other. A pack's
mutex, which is locked before the pack is published, is taken when that happens.
The rounds of `main` and Recv are cut where nothing is held (`Sections`), and
their order forgotten: a goroutine that holds nothing and reads no channel
delays nobody. Channels whose reader never waits (`Sink`) are read at once.
`Capacity` 1 stands for 1 and for 100, since no argument depends on it.
Invitations from a party of more than 20 members and the end of the process are
left out.

## Runs

| run | instance | shows |
|---|---|---|
| `PackDownload` | two files, "pair" of two blocks, the last one short, and "single" of one full block, whose chain has the extra empty block and whose coverage has a word of one bit (`WORD` 1), so that the extra block is out of range; channel of 1, two objects of the pack (one rescan); 856,747 states | recorded blocks are on disk; a complete pack is on disk; a recorded block can be looked up, but for the one being recorded; coverage never shrinks; the inductive invariant `DownloadInv`, with types and the capacity of the channel; `ReliableDownload` is implemented |
| `PackLive` | one file, "triple", of three full blocks and the extra empty one, in a word of four bits (`WORD` 4), so that the extra block can be recorded: blocks that are verified by the predecessor, as left child, as right child, and with both parents; 44,840 states | only genuine blocks pass; while blocks are missing there is one to ask for that will pass (`NeverStuck`); under fairness a started download ends, unless the extra block was recorded |
| `PackRestart` | one file, /get in every state | violation: /get on an active pack breaks `CoverageOnDisk` |
| `Party` | three nodes, two founders, one of whom may crash; one invitation, departure and chat; every message may be lost, repeated and reordered | lists name only nodes that accepted; a chat is shown once; handlers evict nobody who has not left; the inductive invariant `PartyInv`, with types |
| `PartyLive` | five nodes, reliable but reordering network; either four founders and a joiner, or five founders and a chat, two of whom may crash at any time | the joiner comes to be listed by all founders and itself; a chat reaches all that are left; and, whatever is fair, both have happened when the announcements (`JoinGoesRound`) or the copies of the chat (`ChatGoesRound`) have all arrived |
| `PartyZombie` | three founders, one leaves after a chat | violation: an old chat lists the departed member again, for good |
| `Seeder` | one peer and one file of three blocks, channel of 2, `FRESH` 3, `EXPIRY` 4; the node downloads the file itself and may leave and rescan | at most two requests of a key in hand, no mutual waiting, an answer brings what the peer lacks and can verify, `SeederInv` with types; a peer that asks a node that keeps sharing gets the file |
| `SeederRange` | words of four bits, a file of two blocks | violation: a child index behind the end of the coverage |
| `PeerTable` | one peer, four messages of any types | no peer is listed twice, `PeerInv`, times never go back, a peer is lost in one way only, one that is gone leaves the table for good |
| `Overlay` | ids 0, 5, 6 of three bits, buckets of one peer; eight situations with up to two commands besides /bs, three of them lossy, and in three of them a node joins by itself; 381,000 states | `OverlayInv`; a bootstrap goes on (`JoiningInv`) until all know the joiner; a chat implements `Broadcast`, goes on (`ChatsGoOn`) and reaches all that know each other; floods end; a ping of a peer is answered |
| `OverlayRoute` | the same nodes, all there, two commands | violation: a routed pulse is dropped by the first node on its way |
| `NodeLocks` | all ways through the code; crews of three goroutines that contain any two of the nine that wait | mutexes are locked in the order of `Rank`; goroutines wait for ever in three known ways only; output goes on in any case |

The longest runs are `PackDownload`, `PartyLive`, `Overlay` and `NodeLocks`, of
half a minute to three minutes. Runs with a violation show the findings below.

Why these bounds are enough to meet the interesting cases: a channel of one
block makes Recv wait for the disk, and two objects of a pack suffice to have a
goroutine hold an outdated one. Four founders and a joiner are the smallest ring
in which the three neighbours (one before, two after) leave somebody out; five
founders with two crashes are the smallest in which a chat has to pass a gap,
and the two that may crash are not adjacent to each other, because the code
reaches two nodes ahead and one back. Each bound is a CONSTANT: `MaxObj`,
`ChanCap`, `MaxIndex`, `MaxInvites`, `MaxLeaves`, `MaxChats`, `MaxTime`, and the
`commands` of `Situations`. A file of
three blocks has a block that can be verified by its predecessor and by its
parent; a channel of two is the smallest that a single key cannot fill for good,
and what `RoomForAll` asks for. In `PeerTable` one peer is enough, as entries of
different peers share nothing but the two goroutines, and four messages let it
be added, leave and return while an older message is still on its way; what
the theorems cover holds for any peers and times.
In `Overlay` buckets of one peer are full at once, and the ids are chosen so that
both shapes occur: 5 and 6 share a bucket of 0, while 0 and 6 are in two buckets
of 5. A joiner, its contact and a third node are the fewest for a suggestion, and
for a flood that reaches somebody on two paths; by itself a node joins alone, with
one peer, and with two. In `NodeLocks` two goroutines are
enough for two mutexes in different orders; three that have to wait in a ring are
what the theorems are for, and the one ring of three that does occur (Recv,
FileRequester and RequestSender) goes through RequestChan. TLC's deadlock check is off:
a member that nobody sends anything and whose user types nothing waits, and the
bounds stop the models. That goroutines wait for each other is what `NoDeadlock`
and `OnlyKnownDeadlocks` are about.

### Findings

1. **PackRestart.** `StartPack` (`white-box/party.go:746`) does not look at the
   state of the pack. Its comment says it starts "download of an available pack".
2. **PartyZombie.** `processParty` lists whoever a message came from
   (`white-box/party.go:636`), also one known to have left.
3. **SeederRange.** `chooseBlock` looks up the children of block 31 or more
   behind the end of the coverage of a file with 64 blocks or fewer
   (`white-box/party.go:1131`), and likewise for longer files.
4. **OverlayRoute.** `processMessage` drops a message for another node unless it
   was routed before (`white-box/processors.go:25`), instead of if it was, so that
   no message gets farther than the peers of its author. `src/README.md:97` says
   that messages "will often route through other users".

`OnlyKnownDeadlocks` names three ways in which goroutines come to wait for ever:

* `ProcessRequest` waits for room in `RequestChan` with `pack.Mutex` held
  (`white-box/party.go:880`), and RequestSender, which alone empties the channel,
  needs that mutex, and also puts requests back into it (`:1284`). FileRequester,
  which keeps `Parties` while it waits for the mutex, can be in between. With the
  limits of the code it needs more than 50 pairs of a peer and a file it
  downloads: `Seeder!NoDeadlock` holds, and is proved, if there is room.
* `/accept` with a prefix that two invites have returns with `PendingInvites`
  locked (`tui.go:448`); Recv stops at the next invite.
* What is sent to the screen before somebody draws on it has to wait. The drawing
  goroutines start last, after a second's wait in which the node bootstraps
  (`party-line.go:78`, `tui.go:705`).

More outcomes are modelled but have no run of their own. A fulfillment, or a
request, for a pack that a rescan dropped makes `ProcessFulfillment`,
`ProcessRequest` or `chooseBlock` lock a nil mutex (`white-box/party.go:1018`,
`:864`, `:1142`): `halted = "nilMutex"`. And Recv can write back a cache entry
without the mark that SendPings set in the meantime (`white-box/kad.go:175`,
`white-box/processors.go:246`); `LostOnlyByWriteBack` says that this is the only
way in which a peer comes to count as connected without being in the table, and
`OverlayInv` allows for it. `AcceptInvite` announces the joiner before it
registers the party (`white-box/party.go:715`): an answer that overtakes it is
dropped, and the joiner never lists itself and can send nothing. This is in
`PartyLine` with `QuickEcho` (`TRUE` in the run `Party`, whose properties hold
with it); with `QuickEcho = TRUE` `JoinerBecomesKnown` fails for one founder and
a joiner already. And the extra block of a chain, if somebody sends it, keeps a
pack from becoming complete, or ends the process (see `PackDownload` above).

The theorems and passing runs on what is on disk are therefore stated for
members who type /get for available packs only (`GetStates`), and
`JoinerBecomesKnown` passes without `QuickEcho`.

## Fairness

`PackDownload!FairSpec`. Weak fairness of each step of Recv, the writer, the
requester and StartPack: goroutines are scheduled, and once enabled these steps
stay so until taken. Strong fairness of `WriterWrite`: a write that fails is
retried with the next copy of the block, and does not fail for ever. Strong
fairness of `UsefulFulfillment`: RequestSender picks, at random, among the
blocks that the requester can verify, and requests are repeated every five
seconds; a block that can be verified is therefore sent again and again. This
assumes that some seeder stays and that the network does not lose everything.
There is no fairness of commands, advertisements, rescans, failures or of the
runtime noticing a race.

`PartyLine!FairSpec`. Weak fairness of Recv (some message is handled while there
are any that can be) and of the rest of AcceptInvite. None of commands and
crashes. The runs that use it have no loss; they still reorder.

`Seeder!FairSpec`. Weak fairness of the goroutines' steps, the peer's asking
included, which repeats every 5 s. Strong fairness of `Tick` (time goes on), of
receiving and of taking a request of each key (some get through before they
expire), and of each block's arrival: the choice is random, and not every answer
is lost. `RequesterServed` is conditional on what ends service by design or by
the findings: the party is left, the pack dropped, RequestSender ended, the
process dead.

`PeerTable!FairSpec`. Weak fairness of the handler at work and of the marking;
strong fairness of `Age` and `RemoveStale` for each peer: 60 s pass, and a round
of removeStalePeers comes every 30 s. None of messages, crashes, departures.

`Overlay!FairSpec`. Weak fairness of `Deliver`: while packets have arrived, Recv
handles one after the other. None of commands, and none of losses; what is
promised at the end (`ChatReachesAll`, `FloodsEnd`) is promised of situations
that are not lossy.

`NodeLocks` needs none: a deadlock is a state.

## Proofs

For every value of the constants that meets the named assumptions
(`FilesAssumption`, `BoundsAssumption`, `NoHashAssumption`; `NodesAssumption`,
`BoundsAssumption`, `NetworkAssumption`; in `Seeder` `FilesAssumption` and
`LimitsAssumption`, in `PeerTable` `BoundAssumption`; in `Overlay`
`SituationAssumption` and `IdsAssumption`, in `NodeLocks` `CapacityAssumption`),
each of which is what the code or the meaning of a constant gives:

* `PackDownload_proofs`. `TypeCorrect`. `Authenticity` and `GenuineInFlight`:
  whatever seeders send, and also if the user restarts downloads, only genuine
  blocks of the file's chain, the empty one at its end included, get past the
  checks. The argument: a genuine block carries the hashes
  of genuine blocks (`HashAtGenuine`), so if the maps hold genuine blocks
  (`MapsGenuine`) then what `Verifies` accepts is genuine (`VerifiesGenuine`),
  with an index up to `LastIndex` and not beyond, and that is all that the writer puts into the maps.
  Under the further assumption, stated in the theorems, that /get is typed for
  available packs (`GetStates \subseteq {"AVAILABLE"}`): `DownloadSafe`, the
  inductive invariant `DownloadInv`; from it `RecordedIsOnDisk`,
  `CompleteIsOnDisk`, the action property `BitsNeverLost`, and `Refinement`, that
  `ReliableDownload` is implemented, in which the empty block does not count.
  `CoverageOnDisk` alone is not inductive. The
  writer may be between writing and marking, so the invariant needs that the
  data is still there (`WrittenBeforeMarked`); that needs that StartPack is not
  zeroing a file of a pack that blocks are under way for (`ZeroingAvailable`,
  `StartedFirst`), which in turn fails exactly in the way of the finding
  PackRestart.
  `RecordedIsServed` (`CoverageHasBlock`) needs no such assumption: the writer
  marks, then maps, and forgets nothing in between.
  `AlwaysOneToAskFor` (`NeverStuck`): of the blocks that a file lacks take the
  first (`FirstMissing`). Its parents come before it, so they are recorded, and
  by `CoverageHasBlock` in the maps, where their hash of it is found
  (`FirstVerifies`). That a chain reaches every block from the first is what
  `CoveredInChain` and `HashInParents` show of `HashAt`, for any number of
  blocks; the extra block comes after all that are wanted and is nobody's parent.
  It is the part of `DownloadCompletes` that is about the code: no order
  of arrival, and no seeder, leads into a state from which the file cannot be
  had. The other part is fairness.
* `PartyLine_proofs`. `PartySafe`, the inductive invariant `PartyInv`;
  `TypeCorrect`, `ListedHaveJoined`, `ChatsShownOnce` and the action property
  `NoEviction`. `OnlyJoinedListed` needs the same of the messages on their way
  (`MessagesJoined`); `ShownOnce` needs that a member remembers exactly what it
  was shown (`ShownIsSeen`), also over leaving and rejoining, when both start
  anew.
  `ChatsGoRound` (`ChatGoesRound`). The inductive invariant `RoundInv`: while
  nobody was invited or has left, all lists are the founders (`Alone`), and
  whoever has a chat has sent it to its three neighbours, each of which has it or
  will (`Relayed`). When no copy is left, suppose that somebody has not got the
  chat; of all pairs of one who has it and one who lacks it take the pair with
  the shortest way ahead in the ring. One of the two next after the former is
  still there (`NoGap`), has the chat, and is closer (`Closer`), which is a
  contradiction, as there is a closest pair (well-foundedness of the naturals).
  The proof counts places in the list, modulo its length, as `getNeighbors` does
  (`PlaceInRing`, `Around`). It uses the two neighbours ahead; of two founders
  the second one ahead is oneself, so the theorem is for more than two.
  `JoinsGoRound` (`JoinGoesRound`). The inductive invariant `JoinInv`: after the
  first invitation there is one node that may be about to join (`With`); each
  founder has heard of it or will hear from it (`Told`), and each founder that
  has and counts it among its neighbours has told it, or it has heard of itself
  from another (`Answered`). That nobody drops such an announcement for want of
  the party (`JoinInvalid`) is where `QuickEcho` must be false: with it the
  invariant fails, as described under the findings.
* `Seeder_proofs`. `SeederTypeCorrect`. `SeederAnswersUseful`: `chooseBlock` goes
  from the blocks of a request to the next and the two children,
  `ProcessFulfillment` from a block to its predecessor and its parent;
  `ForwardsBackwards` shows that the two agree for all indices, so that what is
  chosen is useful (`ChosenUseful`), given that a coverage which is not empty has
  block 0 (`CoveragesRooted`, an invariant). `SeederInvariant` and
  `SeederNoDeadlock` under the further assumption, stated in the theorems, that
  `RoomForAll`: finitely many keys, two places in the channel for each, and
  `EXPIRY + 1 < 2 * FRESH`, as 6 s and 5 s are. The argument: requests of a key
  are received `FRESH` apart and keep their distance as they age (`Spaced`); so
  three that have not expired would not fit into `EXPIRY`. A full channel
  therefore has exactly two of each key, and one of each pair is old; then
  neither Recv nor RequestSender can have another in hand (`FullMeansIdle`). And
  `SeederTwoPerKey`: of the requests of a key in the channel and in hand, one has
  `FRESH - 1` or more left and one has less, so that they inject into two
  (`TwoApart`).
* `PeerTable_proofs`. `PeerInvariant`, the inductive invariant `PeerInv`; from it
  `PeerListedOnce` and the action properties `PeerTimeNeverBack` and
  `PeerLostOnlyByWriteBack`. `ListedOnce` is not inductive: addPeer looks at the
  cache alone, so it needs that a peer in the table counts as added and connected
  (`TableCached`), and, because the goroutines read early and write late, that
  whoever is about to be added, marked or taken out is not in the table
  (`Adding`, `MarkingStale`, `Leaving`), and that an outdated copy differs in
  the mark only (`WritingBack`).
* `Overlay_proofs`. `Invariant`, the inductive invariant `OverlayInv`, for any
  ids and buckets, lossy or not, and for joining by oneself. That what is shown is
  marked and what is marked was sent needs that packets under way were sent
  (`NetStep`) and that times of chats are not ahead of their author's clock
  (`ClockStep`), or else two chats could be one. That table and cache agree is a
  matter of one entry at a time (`OneEntry`), and of what is about to be written
  back to it: only the mark can differ, and only if SendPings came in between
  (`CacheFits`, `WriteBackTable`). That no node becomes its own peer but one that
  was told to join by itself, although no handler but one looks, follows from whom
  messages go to (`DirectProper`, `SignedProper`).
  From it: `ShownOnce`, the refinement of `Broadcast`; `PeersAnswered`, because a
  peer is nearest to itself in the one bucket that `findClosestN` looks into
  (`NearestToItself`).
* `Overlay_joining`. `BootstrapGoesOn`, the inductive invariant `JoiningInv`, for
  any number of nodes and any ids: as long as nothing is lost, nobody leaves and
  nobody is taken for gone, a bootstrap that has begun has a message under way to
  the next step (`Advances`), and once somebody has passed on the announcement of
  the joiner everybody has heard of it or will (`Reached`). The steps are
  `SetsOut`, `AdvancesStep`, which goes through the messages of the conversation,
  `PassedOnStep` and `ReachedStep`. `JoinerIsKnown` (`JoinerKnown`) follows:
  without messages the conversation is at its end.
  `FloodsGoOn` (`ChatsGoOn`), an action property: between nodes that know each
  other no step breaks off the flood of a chat, be it received, repeated or
  overtaken (`Spreading`). `ChatsReachAll`: from a state in which a chat spreads,
  if from then on all know each other and nothing is lost, it has been shown by
  everybody whenever the network is empty. It says of the end what
  `ChatReachesAll` promises under fairness, but starts when somebody has the
  chat and has passed it on: that `SendChat`, which tells one peer of each bucket,
  gets that far is checked by TLC.
* `NodeLocks_ways`. `WaysOrderly` (`RoundsOrderly`): on every way through every
  handler, command and loop, what is waited for ranks above what is held. Lemmas
  say of the functions, those that are called before those that call them, from
  which rank on they wait (`ClimbsOutput` to `ClimbsCommands`). The combinators
  have one each (`Holding`, `Maybe`,
  `\odot`): holding a mutex around something is in order if that something
  waits above the mutex.
* `NodeLocks_proofs`. `Types`, `LocksOrdered`, `NoOtherDeadlock` and
  `NothingStopsOutput`, without any hypothesis but that channels have room for
  something. What they add to the run is that any number of goroutines may be at
  work and that channels may have any capacity. The argument: of the goroutines
  of a set that wait for each other take the one that waits for the highest rank
  (`Greatest`); whoever it waits for waits for more (`HolderWantsMore`,
  `ReceiverWantsMore`), unless that is one of the known ways.

Every invariant and every action property of the passing runs is proved. Only
model-checked are the liveness properties (`DownloadCompletes`,
`JoinerBecomesKnown`, `ChatReachesFounders`, `RequesterServed`,
`DepartedDropped`, `ChatReachesAll`, `FloodsEnd`), since the prover has no rules
for fairness. For four of them the part that does not need fairness is a theorem:
`NeverStuck` for the first, `JoinGoesRound`, `ChatGoesRound` and `ChatsGoOn` for
the second, the third and the sixth. What remains is that messages arrive and
that there are no more of them in the end. The findings are model-checked too:
each is a behaviour that TLC shows.

## Not modelled

* Cryptography and the wire format: signatures and encryption are assumed to
  hold, and malformed messages to be dropped.
* NAT traversal, drawing, key files: input and output without shared state.
* Time, except where a handler's decision depends on it (`Seeder`, `PeerTable`).
* `scratch/`: experiments that nothing imports. `beige-box/client_test.go` is
  read as a statement of what is intended.
* The order of a few sequential parts: command lines, key files, the walk over
  the disk in RescanPacks. What remains of the plan below.

## Plan

The core is there: download, party, seeding, peer table, overlay, broadcast and
the waiting of goroutines. What is left, the most consequential first:

1. `Chain` — calculateChain as a recursive function against a reference: every
   block is reachable, and can be verified, from block 0, for all sizes up to a
   bound. `PackDownload` has the hashes of a chain (`HashAt`) and `PackLive` checks
   it for one size.
2. `Transfer` — a seeder composed with `PackDownload`: files with identical
   content (`white-box/files.go:107`), and the node that seeds what it downloads.
3. `Invitations` — several parties at once, and the list that is too long
   (`white-box/party.go:196`); and the order of AcceptInvite (`:715`) as a run of
   its own.
4. `Advertising` — the advertisement flood and RescanPacks against ClearPacks.
5. More proofs: that floods end (`FloodsEnd`) is, but for fairness, that each
   step of a flood uses up one of finitely many marks, which could be stated as an
   action property; and that the request of a peer is never kept out for longer
   than it lasts, which is the core of `RequesterServed`.
