---------------------------- MODULE PackDownload ----------------------------
(***************************************************************************)
(* The downloading half of one pack, as one member of one party runs it    *)
(* (white-box/party.go, white-box/files.go).  Four goroutines share the    *)
(* pack:                                                                   *)
(*                                                                         *)
(*   UI       StartPack (the /get command) and RescanPacks (/rescan)       *)
(*   Recv     ProcessAdvertisement and ProcessFulfillment, one message at  *)
(*            a time; a verified block goes to VerifiedBlockChan           *)
(*   Writer   VerifiedBlockWriter: takes a block from the channel, writes  *)
(*            it to disk and only then records it in the file's structures *)
(*   Requester  FileRequester: every 5 seconds looks whether an active     *)
(*            pack is complete                                             *)
(*                                                                         *)
(* Hashes are collision free: the hash of a block is the block itself, so  *)
(* a BlockInfo found under a hash is the information that hash stands for. *)
(* A *Pack is replaced by a new one when it is advertised again after a    *)
(* rescan; a goroutine may still hold a PackFileInfo of the old one.       *)
(***************************************************************************)
EXTENDS Integers, Sequences

CONSTANTS
  NumFiles,    \* how many files the pack has, in the order of pack.Files
  Contents,    \* file contents, standing for PackFileInfo.Hash
  ContentOf,   \* the content of each file of the pack
  Size,        \* the size in bytes of each content
  BUFFER_SIZE, \* bytes per block
  WORD,        \* blocks per word of a coverage: 64
  MaxIndex,    \* no chain has a block past this index
  NoHash,      \* the empty string, as a hash
  Zero,        \* the bytes writeZeroFile leaves where a block belongs
  ChanCap,     \* capacity of VerifiedBlockChan
  MaxObj,      \* bound: how many times the pack is advertised anew
  GetStates    \* the states in which the user types /get for the pack

Files   == 1..NumFiles
Indices == 0..MaxIndex
Objs    == 1..MaxObj
Infos   == Objs \X Files    \* a PackFileInfo: which *Pack, which file of it
States  == {"AVAILABLE", "ACTIVE", "COMPLETE"}
Kinds   == {"genuine", "altered", "garbled"}

ASSUME FilesAssumption ==
  /\ NumFiles \in Nat \ {0}
  /\ ContentOf \in [Files -> Contents]
  /\ Size \in [Contents -> Nat]
ASSUME BoundsAssumption ==
  /\ BUFFER_SIZE \in Nat \ {0} /\ WORD \in Nat \ {0}
  /\ MaxIndex \in Nat
  /\ \A c \in Contents : Size[c] \div BUFFER_SIZE <= MaxIndex
  /\ ChanCap \in Nat \ {0}
  /\ MaxObj \in Nat \ {0}
  /\ GetStates \subseteq States

-----------------------------------------------------------------------------
(* Blocks and hashes *)

\* A "garbled" block's data does not match its DataHash.  An "altered" block
\* is consistent in itself, but is not the block that its index has in the
\* content it is said to come from.
Block == [content : Contents, index : Indices, kind : Kinds]

ASSUME NoHashAssumption == NoHash \notin Block

Genuine(f, i) == [content |-> ContentOf[f], index |-> i, kind |-> "genuine"]

\* The indices set in fullCoverage.
Covered(c) == {i \in Indices : i * BUFFER_SIZE < Size[c]}

\* calculateChain starts at the block holding the last byte, or at an empty
\* one if the size is a multiple of BUFFER_SIZE.
LastIndex(c) == Size[c] \div BUFFER_SIZE

\* emptyCoverage: how many words the coverage of a content has.
Words(c) == (Size[c] + BUFFER_SIZE * WORD - 1) \div (BUFFER_SIZE * WORD)

HashAt(b, i) ==
  IF i <= LastIndex(b.content) THEN [b EXCEPT !.index = i] ELSE NoHash

NextBlockHash(b)  == HashAt(b, b.index + 1)
LeftBlockHash(b)  == HashAt(b, 2 * b.index + 1)
RightBlockHash(b) == HashAt(b, 2 * b.index + 2)

\* Mistake: the parent of a right child is taken for that of the next index.
treeParentHalf(i) == i \div 2

treeParent(i) == IF i % 2 = 1 THEN (i - 1) \div 2 ELSE (i - 2) \div 2

\* GetFileInfo: the first file with that hash, if any.
GetFileInfo(c) ==
  {f \in Files : ContentOf[f] = c /\ \A g \in 1..(f - 1) : ContentOf[g] # c}

VerifiedBlock == [info : Infos, block : Block]

-----------------------------------------------------------------------------
VARIABLES
  cur,          \* the *Pack in party.Packs, 0 if there is none
  made,         \* how many *Pack objects exist
  state,        \* State of each *Pack
  coverage,     \* Coverage of each PackFileInfo, as the set of its bits
  blockMap,     \* keys of BlockMap of each PackFileInfo
  blockLookup,  \* BlockLookup of each PackFileInfo
  disk,         \* what the file at each path holds, block by block
  chan,         \* VerifiedBlockChan
  writer,       \* program counter and block of VerifiedBlockWriter
  recv,         \* program counter and block of Recv
  ui,           \* program counter of the UI within StartPack
  halted        \* "no", or why the process died

fileVars == <<coverage, blockMap, blockLookup>>
packVars == <<cur, made, state>>
vars == <<packVars, fileVars, disk, chan, writer, recv, ui, halted>>

Up == halted = "no"

\* StartPack holds pack.Mutex from its first to its last step.
PackUnlocked == ui.pc = "idle"

NoBlock == [info |-> <<1, 1>>, block |-> Genuine(1, 0)]

Init ==
  /\ cur = 0
  /\ made = 0
  /\ state = [o \in Objs |-> "AVAILABLE"]
  /\ coverage = [n \in Infos |-> {}]
  /\ blockMap = [n \in Infos |-> {}]
  /\ blockLookup = [n \in Infos |-> [i \in Indices |-> NoHash]]
  /\ disk = [f \in Files |-> [i \in Indices |-> Zero]]
  /\ chan = <<>>
  /\ writer = [pc |-> "idle", vb |-> NoBlock]
  /\ recv = [pc |-> "idle", vb |-> NoBlock]
  /\ ui = [pc |-> "idle", file |-> 1]
  /\ halted = "no"

-----------------------------------------------------------------------------
(* Recv *)

\* An advertisement for a pack that is not in party.Packs: a new *Pack with
\* empty coverage and maps.  For a known pack only Peers changes.
ProcessAdvertisement ==
  /\ Up /\ recv.pc = "idle"
  /\ cur = 0
  /\ made < MaxObj
  /\ made' = made + 1
  /\ cur' = made'
  /\ UNCHANGED <<state, fileVars, disk, chan, writer, recv, ui, halted>>

\* The answer to a request sent earlier, for a pack that is no longer in
\* party.Packs: the zero LockingPack has a nil mutex, and locking it comes
\* before the test of ok.
FulfillmentUnknownPack ==
  /\ Up /\ recv.pc = "idle"
  /\ cur = 0 /\ \E o \in Objs : state[o] # "AVAILABLE"
  /\ halted' = "nilMutex"
  /\ UNCHANGED <<packVars, fileVars, disk, chan, writer, recv, ui>>

\* Mistake: the state of the pack is not looked at.
FulfillmentCheckAnyState(c, b) ==
  /\ Up /\ recv.pc = "idle"
  /\ cur # 0 /\ PackUnlocked
  /\ \E f \in GetFileInfo(c) :
       recv' = [pc |-> "verify", vb |-> [info |-> <<cur, f>>, block |-> b]]
  /\ UNCHANGED <<packVars, fileVars, disk, chan, writer, ui, halted>>

\* A fulfillment for the file with hash c, up to the release of pack.Mutex:
\* the block is remembered together with the PackFileInfo it is meant for.
\* In every other case the message is dropped.
FulfillmentCheck(c, b) ==
  /\ Up /\ recv.pc = "idle"
  /\ cur # 0 /\ PackUnlocked
  /\ state[cur] = "ACTIVE"
  /\ \E f \in GetFileInfo(c) :
       recv' = [pc |-> "verify", vb |-> [info |-> <<cur, f>>, block |-> b]]
  /\ UNCHANGED <<packVars, fileVars, disk, chan, writer, ui, halted>>

\* The block under an index, if both maps have it.
Stored(n, i) ==
  IF blockLookup[n][i] \in blockMap[n] THEN blockLookup[n][i] ELSE NoHash

ChildHash(parent, i) ==
  IF i % 2 = 1 THEN LeftBlockHash(parent) ELSE RightBlockHash(parent)

\* The hash a block with index i > 0 must have, NoHash if the block cannot be
\* verified yet or if its two parents disagree.
ExpectedHash(n, i) ==
  LET prev     == Stored(n, i - 1)
      tree     == Stored(n, treeParent(i))
      fromPrev == IF prev = NoHash THEN NoHash ELSE NextBlockHash(prev)
      fromTree == IF tree = NoHash THEN NoHash ELSE ChildHash(tree, i)
  IN  IF tree = NoHash THEN fromPrev
      ELSE IF fromPrev \in {NoHash, fromTree} THEN fromTree ELSE NoHash

\* Mistake: a block that cannot be verified yet is let through.
VerifiesIfKnown(n, b) ==
  /\ b.kind # "garbled"
  /\ IF b.index = 0 THEN b = Genuine(n[2], 0)
     ELSE ExpectedHash(n, b.index) \in {NoHash, b}

Verifies(n, b) ==
  /\ b.kind # "garbled"
  /\ IF b.index = 0 THEN b = Genuine(n[2], 0) ELSE b = ExpectedHash(n, b.index)

\* The checks of the hashes, without a lock.
FulfillmentVerify ==
  /\ Up /\ recv.pc = "verify"
  /\ recv' = [recv EXCEPT !.pc =
                IF Verifies(recv.vb.info, recv.vb.block) THEN "send" ELSE "idle"]
  /\ UNCHANGED <<packVars, fileVars, disk, chan, writer, ui, halted>>

\* The send to VerifiedBlockChan blocks Recv while the channel is full.
FulfillmentSend ==
  /\ Up /\ recv.pc = "send"
  /\ Len(chan) < ChanCap
  /\ chan' = Append(chan, recv.vb)
  /\ recv' = [recv EXCEPT !.pc = "idle"]
  /\ UNCHANGED <<packVars, fileVars, disk, writer, ui, halted>>

-----------------------------------------------------------------------------
(* VerifiedBlockWriter *)

\* Is there a word with the block's bit in the coverage of the file?
InRange(vb) == vb.block.index \div WORD < Words(ContentOf[vb.info[2]])

haveBlock(vb) == vb.block.index \in coverage[vb.info]

WriterTake ==
  /\ Up /\ writer.pc = "idle"
  /\ chan # <<>> /\ InRange(Head(chan))
  /\ chan' = Tail(chan)
  /\ IF haveBlock(Head(chan))
       THEN UNCHANGED writer
       ELSE writer' = [pc |-> "write", vb |-> Head(chan)]
  /\ UNCHANGED <<packVars, fileVars, disk, recv, ui, halted>>

\* haveBlock looks at a word that is not there: the index is out of range.
WriterOutOfRange ==
  /\ Up /\ writer.pc = "idle"
  /\ chan # <<>> /\ ~InRange(Head(chan))
  /\ halted' = "outOfRange"
  /\ UNCHANGED <<packVars, fileVars, disk, chan, writer, recv, ui>>

WriteBlock(vb) ==
  disk' = [disk EXCEPT ![vb.info[2]] = [@ EXCEPT ![vb.block.index] = vb.block]]

WriterWrite ==
  /\ Up /\ writer.pc = "write"
  /\ WriteBlock(writer.vb)
  /\ writer' = [writer EXCEPT !.pc = "mark"]
  /\ UNCHANGED <<packVars, fileVars, chan, recv, ui, halted>>

\* Mistake: a failed write is reported, but the block is recorded all the same.
WriterFailRecords ==
  /\ Up /\ writer.pc = "write"
  /\ WriteBlock(writer.vb) \/ UNCHANGED disk
  /\ writer' = [writer EXCEPT !.pc = "mark"]
  /\ UNCHANGED <<packVars, fileVars, chan, recv, ui, halted>>

\* Open, seek, write or close fails: the block is given up, whether or not its
\* data reached the disk.
WriterFail ==
  /\ Up /\ writer.pc = "write"
  /\ WriteBlock(writer.vb) \/ UNCHANGED disk
  /\ writer' = [writer EXCEPT !.pc = "idle"]
  /\ UNCHANGED <<packVars, fileVars, chan, recv, ui, halted>>

\* Mistake: = where |= is meant.
MarkCoverageAssigns ==
  /\ Up /\ writer.pc = "mark"
  /\ coverage' = [coverage EXCEPT ![writer.vb.info] = {writer.vb.block.index}]
  /\ writer' = [writer EXCEPT !.pc = "map"]
  /\ UNCHANGED <<packVars, blockMap, blockLookup, disk, chan, recv, ui, halted>>

\* setBlockWritten: the coverage, then BlockMap, then BlockLookup.
MarkCoverage ==
  /\ Up /\ writer.pc = "mark"
  /\ coverage' = [coverage EXCEPT ![writer.vb.info] =
                    @ \cup {writer.vb.block.index}]
  /\ writer' = [writer EXCEPT !.pc = "map"]
  /\ UNCHANGED <<packVars, blockMap, blockLookup, disk, chan, recv, ui, halted>>

\* Mistake: the block is left out of BlockMap.
PutBlockMapForgets ==
  /\ Up /\ writer.pc = "map"
  /\ writer' = [writer EXCEPT !.pc = "lookup"]
  /\ UNCHANGED <<packVars, fileVars, disk, chan, recv, ui, halted>>

PutBlockMap ==
  /\ Up /\ writer.pc = "map"
  /\ blockMap' = [blockMap EXCEPT ![writer.vb.info] = @ \cup {writer.vb.block}]
  /\ writer' = [writer EXCEPT !.pc = "lookup"]
  /\ UNCHANGED <<packVars, coverage, blockLookup, disk, chan, recv, ui, halted>>

PutBlockLookup ==
  /\ Up /\ writer.pc = "lookup"
  /\ blockLookup' = [blockLookup EXCEPT ![writer.vb.info] =
                       [@ EXCEPT ![writer.vb.block.index] = writer.vb.block]]
  /\ writer' = [writer EXCEPT !.pc = "idle"]
  /\ UNCHANGED <<packVars, coverage, blockMap, disk, chan, recv, ui, halted>>

\* Recv reads the two maps of a file while the writer changes one of them:
\* the Go runtime may stop the process.
ConcurrentMapAccess ==
  /\ Up /\ writer.pc \in {"map", "lookup"} /\ recv.pc = "verify"
  /\ writer.vb.info = recv.vb.info
  /\ recv.vb.block.index # 0
  /\ halted' = "mapRace"
  /\ UNCHANGED <<packVars, fileVars, disk, chan, writer, recv, ui>>

-----------------------------------------------------------------------------
(* FileRequester *)

\* Mistake: any bit will do.
isNonEmptyCoverage(n) == coverage[n] # {}

isFullCoverage(n) == coverage[n] = Covered(ContentOf[n[2]])

\* Mistake: the last file decides.
SendRequestsLastFile ==
  /\ Up /\ cur # 0 /\ PackUnlocked
  /\ state[cur] = "ACTIVE"
  /\ isFullCoverage(<<cur, NumFiles>>)
  /\ state' = [state EXCEPT ![cur] = "COMPLETE"]
  /\ UNCHANGED <<cur, made, fileVars, disk, chan, writer, recv, ui, halted>>

\* SendRequests finds nothing left to ask for.  While something is missing it
\* only sends requests, which change nothing here.
SendRequestsComplete ==
  /\ Up /\ cur # 0 /\ PackUnlocked
  /\ state[cur] = "ACTIVE"
  /\ \A f \in Files : isFullCoverage(<<cur, f>>)
  /\ state' = [state EXCEPT ![cur] = "COMPLETE"]
  /\ UNCHANGED <<cur, made, fileVars, disk, chan, writer, recv, ui, halted>>

-----------------------------------------------------------------------------
(* UI *)

StartPack ==
  /\ Up /\ ui.pc = "idle"
  /\ cur # 0
  /\ state[cur] \in GetStates
  /\ ui' = [pc |-> "zero", file |-> 1]
  /\ UNCHANGED <<packVars, fileVars, disk, chan, writer, recv, halted>>

\* writeZeroFile reports an error to the status line only.
WriteZeroFile ==
  /\ Up /\ ui.pc = "zero"
  /\ \/ disk' = [disk EXCEPT ![ui.file] = [i \in Indices |-> Zero]]
     \/ UNCHANGED disk
  /\ ui' = [ui EXCEPT !.pc = "empty"]
  /\ UNCHANGED <<packVars, fileVars, chan, writer, recv, halted>>

EmptyCoverage ==
  /\ Up /\ ui.pc = "empty"
  /\ coverage' = [coverage EXCEPT ![<<cur, ui.file>>] = {}]
  /\ ui' = IF ui.file < NumFiles
             THEN [pc |-> "zero", file |-> ui.file + 1]
             ELSE [ui EXCEPT !.pc = "activate"]
  /\ UNCHANGED <<packVars, blockMap, blockLookup, disk, chan, writer, recv, halted>>

Activate ==
  /\ Up /\ ui.pc = "activate"
  /\ state' = [state EXCEPT ![cur] = "ACTIVE"]
  /\ ui' = [pc |-> "idle", file |-> 1]
  /\ UNCHANGED <<cur, made, fileVars, disk, chan, writer, recv, halted>>

\* RescanPacks forgets every pack; one that was downloaded has no .pack file
\* to be found again on disk.
ClearPacks ==
  /\ Up /\ ui.pc = "idle"
  /\ cur # 0
  /\ cur' = 0
  /\ UNCHANGED <<made, state, fileVars, disk, chan, writer, recv, ui, halted>>

-----------------------------------------------------------------------------
\* Seeders may send any block under the hash of any file.
RecvNext ==
  \/ ProcessAdvertisement
  \/ FulfillmentUnknownPack
  \/ \E c \in Contents, b \in Block : FulfillmentCheck(c, b)
  \/ FulfillmentVerify
  \/ FulfillmentSend

WriterNext ==
  \/ WriterTake
  \/ WriterOutOfRange
  \/ WriterWrite
  \/ WriterFail
  \/ MarkCoverage
  \/ PutBlockMap
  \/ PutBlockLookup
  \/ ConcurrentMapAccess

UINext ==
  \/ StartPack
  \/ WriteZeroFile
  \/ EmptyCoverage
  \/ Activate
  \/ ClearPacks

Next == RecvNext \/ WriterNext \/ SendRequestsComplete \/ UINext

Spec == Init /\ [][Next]_vars

\* A block that can be verified by now arrives.
UsefulFulfillment(f, i) ==
  /\ cur # 0
  /\ i \in Covered(ContentOf[f])
  /\ Verifies(<<cur, f>>, Genuine(f, i))
  /\ FulfillmentCheck(ContentOf[f], Genuine(f, i))

(***************************************************************************)
(* Every goroutine that can run does.  A peer that is asked again every 5  *)
(* seconds picks a block at random among those the request can verify, so  *)
(* each such block arrives again and again; and writes do not fail forever.*)
(***************************************************************************)
Fairness ==
  /\ WF_vars(FulfillmentVerify) /\ WF_vars(FulfillmentSend)
  /\ WF_vars(WriterTake) /\ WF_vars(WriterOutOfRange) /\ WF_vars(MarkCoverage)
  /\ WF_vars(PutBlockMap) /\ WF_vars(PutBlockLookup)
  /\ SF_vars(WriterWrite)
  /\ WF_vars(SendRequestsComplete)
  /\ WF_vars(WriteZeroFile) /\ WF_vars(EmptyCoverage) /\ WF_vars(Activate)
  /\ \A f \in Files : \A i \in Indices :
       SF_vars(UsefulFulfillment(f, i))

FairSpec == Spec /\ Fairness

-----------------------------------------------------------------------------
(* Correctness *)

\* Every variable of the model has values of its type; VerifiedBlockChan holds
\* at most its capacity, and the pack that the party knows is the newest one.

TypeOK ==
  /\ cur \in 0..MaxObj /\ made \in 0..MaxObj /\ cur \in {0, made}
  /\ state \in [Objs -> States]
  /\ coverage \in [Infos -> SUBSET Indices]
  /\ blockMap \in [Infos -> SUBSET Block]
  /\ blockLookup \in [Infos -> [Indices -> Block \cup {NoHash}]]
  /\ disk \in [Files -> [Indices -> Block \cup {Zero}]]
  /\ chan \in Seq(VerifiedBlock) /\ Len(chan) <= ChanCap
  /\ writer \in [pc : {"idle", "write", "mark", "map", "lookup"}, vb : VerifiedBlock]
  /\ recv \in [pc : {"idle", "verify", "send"}, vb : VerifiedBlock]
  /\ ui \in [pc : {"idle", "zero", "empty", "activate"}, file : Files]
  /\ halted \in {"no", "nilMutex", "mapRace", "outOfRange"}

\* A block is "recorded" once its coverage bit is set, and the downloader asks
\* for it no more: then the file on disk must have it (an empty block at the end
\* of a chain has no bytes to be there).  StartPack, the writer and the requester
\* must be ordered right for that.
CoverageOnDisk ==
  cur # 0 => \A f \in Files : \A i \in coverage[<<cur, f>>] :
               disk[f][i] = Genuine(f, i)

\* A pack shown as complete has every block of its files on disk.  A file that
\* lay there before and was longer keeps its tail: writeZeroFile does not cut it.
CompleteOnDisk ==
  cur # 0 /\ state[cur] = "COMPLETE" =>
    \A f \in Files : \A i \in Covered(ContentOf[f]) : disk[f][i] = Genuine(f, i)

GenuineFor(vb) ==
  /\ vb.block = Genuine(vb.info[2], vb.block.index)
  /\ vb.block.index <= LastIndex(ContentOf[vb.info[2]])

\* Whatever seeders send, and in whatever order, only blocks of the wanted
\* file get past the checks of ProcessFulfillment, which trust the maps that
\* earlier blocks left.
OnlyGenuineInFlight ==
  /\ \A k \in 1..Len(chan) : GenuineFor(chan[k])
  /\ writer.pc # "idle" => GenuineFor(writer.vb)
  /\ recv.pc = "send" => GenuineFor(recv.vb)

\* setBlockWritten changes three structures one after another.  Except for the
\* block it is at, a recorded block can be looked up and served to others.
CoverageHasBlock ==
  \A n \in Infos : \A i \in coverage[n] :
    \/ Stored(n, i) = Genuine(n[2], i)
    \/ /\ writer.pc \in {"map", "lookup"}
       /\ writer.vb = [info |-> n, block |-> Genuine(n[2], i)]

\* No step loses a recorded block of any *Pack, those a rescan dropped included.
CoverageNeverLost == [][\A n \in Infos : coverage[n] \subseteq coverage'[n]]_vars

\* As long as a file lacks a block, there is one among those it lacks that
\* ProcessFulfillment would accept, whatever came before and in whatever order:
\* the maps, the chain of hashes and the coverage never leave a download with
\* nothing to ask for that it can verify.  Only while setBlockWritten is
\* between its structures may the next block have to wait for it.
NeverStuck ==
  cur # 0 => \A f \in Files :
    \/ Covered(ContentOf[f]) \subseteq coverage[<<cur, f>>]
    \/ writer.pc \in {"map", "lookup"} /\ writer.vb.info = <<cur, f>>
    \/ \E i \in Covered(ContentOf[f]) \ coverage[<<cur, f>>] :
         Verifies(<<cur, f>>, Genuine(f, i))

\* A bit outside of fullCoverage is set: a seeder sent the empty block at the end
\* of a chain, which verifies like any other.
ExtraRecorded ==
  cur # 0 /\ \E f \in Files : coverage[<<cur, f>>] \ Covered(ContentOf[f]) # {}

\* A download that was started ends, unless it is dropped by a rescan, or the
\* process dies, or an extra block keeps isFullCoverage false for good.
DownloadCompletes ==
  (cur # 0 /\ state[cur] = "ACTIVE") ~>
    (cur = 0 \/ state[cur] = "COMPLETE" \/ ~Up \/ ExtraRecorded)

-----------------------------------------------------------------------------
(* The abstract download: blocks count once they are both recorded and on  *)
(* disk.                                                                   *)

Phase == IF cur = 0 THEN "NONE" ELSE state[cur]

Wanted == {p \in Files \X Indices : p[2] \in Covered(ContentOf[p[1]])}

Held ==
  IF cur = 0 THEN {}
  ELSE {p \in Wanted :
          /\ p[2] \in coverage[<<cur, p[1]>>]
          /\ disk[p[1]][p[2]] = Genuine(p[1], p[2])}

Abstract == INSTANCE ReliableDownload
              WITH Blocks <- Wanted, phase <- Phase, held <- Held

\* The download of a pack is a reliable download: blocks are gained one by
\* one, none is lost, and the pack is complete only when it has all of them.
ImplementsReliableDownload == Abstract!Spec

-----------------------------------------------------------------------------
(* The inductive invariants *)

\* What the maps of a file hold was verified.
MapsGenuine ==
  \A n \in Infos : \A i \in Indices :
    blockLookup[n][i] \in {NoHash, Genuine(n[2], i)}

\* What holds of the blocks whatever the user does.
AuthenticInv ==
  /\ TypeOK
  /\ OnlyGenuineInFlight
  /\ MapsGenuine

\* Blocks move, and bits are set, only for a *Pack whose download was started.
StartedFirst ==
  /\ \A k \in 1..Len(chan) : state[chan[k].info[1]] # "AVAILABLE"
  /\ writer.pc # "idle" => state[writer.vb.info[1]] # "AVAILABLE"
  /\ recv.pc # "idle" => state[recv.vb.info[1]] # "AVAILABLE"
  /\ \A n \in Infos : state[n[1]] = "AVAILABLE" => coverage[n] = {}
  /\ \A o \in Objs : o > made => state[o] = "AVAILABLE"

\* Between the write and the bit nobody takes the data from the disk again.
WrittenBeforeMarked ==
  writer.pc = "mark" /\ writer.vb.info[1] = cur =>
    disk[writer.vb.info[2]][writer.vb.block.index] = writer.vb.block

\* StartPack is only ever under way for an available pack.
ZeroingAvailable == ui.pc # "idle" => cur # 0 /\ state[cur] = "AVAILABLE"

CompleteIsFull ==
  \A n \in Infos : state[n[1]] = "COMPLETE" =>
    Covered(ContentOf[n[2]]) \subseteq coverage[n]

\* What holds in every state of a member who types /get for available packs
\* only: the named parts together are preserved by every step.
DownloadInv ==
  /\ AuthenticInv
  /\ StartedFirst
  /\ WrittenBeforeMarked
  /\ ZeroingAvailable
  /\ CoverageOnDisk
  /\ CompleteIsFull
=============================================================================
