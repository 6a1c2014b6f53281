------------------------ MODULE PackDownload_proofs ------------------------
(***************************************************************************)
(* Theorems about PackDownload, for any pack, any channel capacity and any *)
(* number of rescans.                                                      *)
(***************************************************************************)
EXTENDS PackDownload, WellFoundedInduction, TLAPS

-----------------------------------------------------------------------------
(* The hash chain *)

\* The tree parent of an index of the chain is an index of the chain.
LEMMA TreeParentIndex ==
  ASSUME NEW i \in Indices, i # 0
  PROVE  i - 1 \in Indices /\ treeParent(i) \in Indices
BY BoundsAssumption DEF Indices, treeParent

\* A hash that a genuine block carries is empty or names the genuine block at
\* that index, which is an index of the chain.
LEMMA HashAtGenuine ==
  ASSUME NEW f \in Files, NEW j \in Indices, NEW k \in Nat,
         HashAt(Genuine(f, j), k) # NoHash
  PROVE  /\ HashAt(Genuine(f, j), k) = Genuine(f, k)
         /\ k <= LastIndex(ContentOf[f])
BY FilesAssumption DEF HashAt, Genuine

\* Every chain has a block 0.
LEMMA ChainHasFirst ==
  ASSUME NEW f \in Files
  PROVE  0 <= LastIndex(ContentOf[f])
<1> DEFINE S == Size[ContentOf[f]]
           B == BUFFER_SIZE
<1>1. S \in Nat /\ B \in Nat /\ B > 0
  BY FilesAssumption, BoundsAssumption
<1> HIDE DEF S, B
<1>2. S \div B \in Int /\ S < B * (S \div B + 1)
  BY <1>1
<1>3. SUFFICES ASSUME ~(0 <= S \div B) PROVE FALSE
  BY DEF LastIndex, S, B
<1>4. S \div B + 1 <= 0
  BY <1>2, <1>3
<1>5. B * (S \div B + 1) <= B * 0
  BY <1>1, <1>2, <1>4
<1> QED BY <1>1, <1>2, <1>5

\* What a file's maps hold under an index is nothing or the genuine block.
LEMMA StoredGenuine ==
  ASSUME MapsGenuine, NEW n \in Infos, NEW i \in Indices
  PROVE  Stored(n, i) \in {NoHash, Genuine(n[2], i)}
BY DEF MapsGenuine, Stored

\* The checks of ProcessFulfillment accept no block but those of the chain, as
\* long as the maps hold genuine blocks.
LEMMA VerifiesGenuine ==
  ASSUME MapsGenuine, NEW n \in Infos, NEW b \in Block, Verifies(n, b)
  PROVE  b = Genuine(n[2], b.index) /\ b.index <= LastIndex(ContentOf[n[2]])
<1> DEFINE f == n[2]
           i == b.index
<1>1. f \in Files /\ i \in Indices
  BY DEF Infos, Block
<1>2. CASE i = 0
  BY <1>1, <1>2, ChainHasFirst DEF Verifies
<1>3. CASE i # 0
  <2> DEFINE prev == Stored(n, i - 1)
             tree == Stored(n, treeParent(i))
  <2>1. i - 1 \in Indices /\ treeParent(i) \in Indices
    BY <1>1, <1>3, TreeParentIndex
  <2>2. prev \in {NoHash, Genuine(f, i - 1)}
    BY <2>1, StoredGenuine
  <2>3. tree \in {NoHash, Genuine(f, treeParent(i))}
    BY <2>1, StoredGenuine
  <2>4. b = ExpectedHash(n, i) /\ b # NoHash
    BY <1>3, NoHashAssumption DEF Verifies
  <2>5. \/ prev # NoHash /\ b = NextBlockHash(prev)
        \/ tree # NoHash /\ b = ChildHash(tree, i)
    BY <2>4 DEF ExpectedHash
  <2>6. \E j \in Indices, k \in Nat : b = HashAt(Genuine(f, j), k)
    <3>1. CASE prev # NoHash /\ b = NextBlockHash(prev)
      <4>1. b = HashAt(Genuine(f, i - 1), Genuine(f, i - 1).index + 1)
        BY <2>2, <3>1 DEF NextBlockHash
      <4>2. Genuine(f, i - 1).index + 1 \in Nat
        BY <2>1 DEF Genuine, Indices
      <4> QED BY <2>1, <4>1, <4>2
    <3>2. CASE tree # NoHash /\ b = ChildHash(tree, i)
      <4> DEFINE j == treeParent(i)
      <4>1. Genuine(f, j).index = j /\ j \in Nat
        BY <2>1 DEF Genuine, Indices
      <4>2. \/ b = HashAt(Genuine(f, j), 2 * Genuine(f, j).index + 1)
            \/ b = HashAt(Genuine(f, j), 2 * Genuine(f, j).index + 2)
        BY <2>3, <3>2 DEF ChildHash, LeftBlockHash, RightBlockHash
      <4>3. 2 * j + 1 \in Nat /\ 2 * j + 2 \in Nat
        BY <4>1
      <4> HIDE DEF j
      <4> QED BY <2>1, <4>1, <4>2, <4>3 DEF j
    <3> QED BY <2>5, <3>1, <3>2
  <2>7. \E k \in Nat : b = Genuine(f, k) /\ k <= LastIndex(ContentOf[f])
    BY <1>1, <2>4, <2>6, HashAtGenuine
  <2> QED BY <2>7 DEF Genuine
<1> QED BY <1>2, <1>3

-----------------------------------------------------------------------------
(* Authenticity: whatever the user does *)

\* The blocks that the pack's files are cut into are blocks.
LEMMA GenuineInBlock ==
  ASSUME NEW f \in Files, NEW i \in Indices
  PROVE  Genuine(f, i) \in Block
BY FilesAssumption DEF Genuine, Block, Kinds

\* The placeholder of an idle goroutine has the type of a verified block.
LEMMA NoBlockType == NoBlock \in VerifiedBlock
<1>1. 1 \in Files /\ 0 \in Indices /\ <<1, 1>> \in Infos
  BY FilesAssumption, BoundsAssumption DEF Files, Indices, Objs, Infos
<1>2. Genuine(1, 0) \in Block
  BY <1>1, GenuineInBlock
<1> QED BY <1>1, <1>2 DEF NoBlock, VerifiedBlock

\* A pack has a first file.
LEMMA OneFile == 1 \in Files
BY FilesAssumption DEF Files

\* The initial state is well typed.
LEMMA TypeInit == Init => TypeOK
<1> SUFFICES ASSUME Init PROVE TypeOK
  OBVIOUS
<1>1. 1 \in Files /\ MaxObj \in Nat /\ ChanCap \in Nat
  BY OneFile, BoundsAssumption
<1>2. writer.vb \in VerifiedBlock /\ recv.vb \in VerifiedBlock
  BY NoBlockType DEF Init
<1>3. chan \in Seq(VerifiedBlock) /\ Len(chan) <= ChanCap
  BY <1>1 DEF Init
<1> QED BY <1>1, <1>2, <1>3 DEF Init, TypeOK, States

\* Each step keeps every variable within its type.
LEMMA TypeNext == TypeOK /\ [Next]_vars => TypeOK'
<1> SUFFICES ASSUME TypeOK, [Next]_vars PROVE TypeOK'
  OBVIOUS
<1> USE DEF TypeOK
<1>1. CASE ProcessAdvertisement
  BY <1>1, BoundsAssumption DEF ProcessAdvertisement, fileVars
<1>2. CASE FulfillmentUnknownPack
  BY <1>2 DEF FulfillmentUnknownPack, fileVars, packVars
<1>3. ASSUME NEW c \in Contents, NEW b \in Block, FulfillmentCheck(c, b)
      PROVE  TypeOK'
  <2>1. PICK f \in Files :
          recv' = [pc |-> "verify", vb |-> [info |-> <<cur, f>>, block |-> b]]
    BY <1>3 DEF FulfillmentCheck, GetFileInfo
  <2>2. <<cur, f>> \in Infos /\ b \in Block
    BY <1>3, <2>1, BoundsAssumption DEF FulfillmentCheck, Infos, Objs
  <2>3. recv' \in [pc : {"idle", "verify", "send"}, vb : VerifiedBlock]
    BY <2>1, <2>2 DEF VerifiedBlock
  <2> QED BY <1>3, <2>3 DEF FulfillmentCheck, fileVars, packVars
<1>4. CASE FulfillmentVerify
  BY <1>4 DEF FulfillmentVerify, fileVars, packVars
<1>5. CASE FulfillmentSend
  <2>1. recv.vb \in VerifiedBlock
    OBVIOUS
  <2>2. chan' \in Seq(VerifiedBlock) /\ Len(chan') <= ChanCap
    BY <1>5, <2>1, BoundsAssumption DEF FulfillmentSend
  <2> QED BY <1>5, <2>2 DEF FulfillmentSend, fileVars, packVars
<1>6. CASE WriterTake
  <2>1. /\ chan' \in Seq(VerifiedBlock) /\ Len(chan') <= ChanCap
        /\ Head(chan) \in VerifiedBlock
    BY <1>6, BoundsAssumption DEF WriterTake
  <2> QED BY <1>6, <2>1 DEF WriterTake, fileVars, packVars
<1>21. CASE WriterOutOfRange
  BY <1>21 DEF WriterOutOfRange, fileVars, packVars
<1>7. ASSUME NEW vb \in VerifiedBlock, WriteBlock(vb)
      PROVE  disk' \in [Files -> [Indices -> Block \cup {Zero}]]
  BY <1>7 DEF WriteBlock, VerifiedBlock, Infos, Block
<1>8. CASE WriterWrite
  BY <1>7, <1>8 DEF WriterWrite, fileVars, packVars
<1>9. CASE WriterFail
  BY <1>7, <1>9 DEF WriterFail, fileVars, packVars
<1>10. CASE MarkCoverage
  BY <1>10 DEF MarkCoverage, packVars, VerifiedBlock, Block
<1>11. CASE PutBlockMap
  BY <1>11 DEF PutBlockMap, packVars, VerifiedBlock
<1>12. CASE PutBlockLookup
  BY <1>12 DEF PutBlockLookup, packVars, VerifiedBlock, Block
<1>13. CASE ConcurrentMapAccess
  BY <1>13 DEF ConcurrentMapAccess, fileVars, packVars
<1>14. CASE SendRequestsComplete
  BY <1>14 DEF SendRequestsComplete, fileVars, States
<1>15. CASE StartPack
  <2>1. ui' \in [pc : {"idle", "zero", "empty", "activate"}, file : Files]
    BY <1>15, OneFile DEF StartPack
  <2> QED BY <1>15, <2>1 DEF StartPack, fileVars, packVars
<1>16. CASE WriteZeroFile
  <2>1. disk' \in [Files -> [Indices -> Block \cup {Zero}]]
    BY <1>16 DEF WriteZeroFile
  <2>2. ui' \in [pc : {"idle", "zero", "empty", "activate"}, file : Files]
    BY <1>16 DEF WriteZeroFile
  <2> QED BY <1>16, <2>1, <2>2 DEF WriteZeroFile, fileVars, packVars
<1>17. CASE EmptyCoverage
  <2>1. ui.file \in Files /\ (ui.file < NumFiles => ui.file + 1 \in Files)
    BY FilesAssumption DEF Files
  <2>2. ui' \in [pc : {"idle", "zero", "empty", "activate"}, file : Files]
    BY <1>17, <2>1 DEF EmptyCoverage
  <2>3. coverage' \in [Infos -> SUBSET Indices]
    BY <1>17 DEF EmptyCoverage
  <2> QED BY <1>17, <2>2, <2>3 DEF EmptyCoverage, packVars
<1>18. CASE Activate
  <2>1. ui' \in [pc : {"idle", "zero", "empty", "activate"}, file : Files]
    BY <1>18, OneFile DEF Activate
  <2>2. state' \in [Objs -> States]
    BY <1>18 DEF Activate, States
  <2> QED BY <1>18, <2>1, <2>2 DEF Activate, fileVars
<1>19. CASE ClearPacks
  BY <1>19, BoundsAssumption DEF ClearPacks, fileVars
<1>20. CASE UNCHANGED vars
  BY <1>20 DEF vars, fileVars, packVars
<1> QED
  BY <1>1, <1>2, <1>3, <1>4, <1>5, <1>6, <1>8, <1>9, <1>10, <1>11, <1>12,
     <1>13, <1>14, <1>15, <1>16, <1>17, <1>18, <1>19, <1>20, <1>21
  DEF Next, RecvNext, WriterNext, UINext

\* At the start nothing is in flight and the maps are empty.
LEMMA AuthenticInit == Init => AuthenticInv
<1> SUFFICES ASSUME Init PROVE AuthenticInv
  OBVIOUS
<1>1. TypeOK
  BY TypeInit
<1>2. Len(chan) = 0 /\ writer.pc = "idle" /\ recv.pc = "idle"
  BY DEF Init
<1>3. OnlyGenuineInFlight
  BY <1>2 DEF OnlyGenuineInFlight
<1>4. MapsGenuine
  BY DEF Init, MapsGenuine
<1> QED BY <1>1, <1>3, <1>4 DEF AuthenticInv

\* Only setBlockWritten changes what a file's BlockLookup holds, and what it
\* puts there was verified.
LEMMA MapsNext ==
  AuthenticInv /\ [Next]_vars => MapsGenuine'
<1> SUFFICES ASSUME AuthenticInv, [Next]_vars PROVE MapsGenuine'
  OBVIOUS
<1>1. CASE PutBlockLookup
  <2> DEFINE m == writer.vb.info
             j == writer.vb.block.index
  <2>1. m \in Infos /\ j \in Indices /\ writer.vb.block = Genuine(m[2], j)
    BY <1>1 DEF AuthenticInv, TypeOK, OnlyGenuineInFlight, GenuineFor,
                PutBlockLookup, VerifiedBlock, Block
  <2>2. blockLookup' = [blockLookup EXCEPT ![m] = [@ EXCEPT ![j] = Genuine(m[2], j)]]
    BY <1>1, <2>1 DEF PutBlockLookup
  <2> HIDE DEF m, j
  <2>3. ASSUME NEW n \in Infos, NEW i \in Indices
        PROVE  blockLookup'[n][i] \in {NoHash, Genuine(n[2], i)}
    BY <2>1, <2>2 DEF AuthenticInv, TypeOK, MapsGenuine
  <2> QED BY <2>3 DEF MapsGenuine
<1>2. CASE UNCHANGED blockLookup
  BY <1>2 DEF AuthenticInv, MapsGenuine
<1>3. PutBlockLookup \/ UNCHANGED blockLookup
  BY DEF Next, RecvNext, WriterNext, UINext, vars, fileVars,
         ProcessAdvertisement, FulfillmentUnknownPack, FulfillmentCheck,
         FulfillmentVerify, FulfillmentSend, WriterTake, WriterOutOfRange, WriterWrite,
         WriterFail, MarkCoverage, PutBlockMap, ConcurrentMapAccess,
         SendRequestsComplete, StartPack, WriteZeroFile, EmptyCoverage,
         Activate, ClearPacks
<1> QED BY <1>1, <1>2, <1>3

\* Blocks enter the channel through the checks, and nothing changes them on
\* their way to the writer.
LEMMA InFlightNext ==
  AuthenticInv /\ [Next]_vars => OnlyGenuineInFlight'
<1> SUFFICES ASSUME AuthenticInv, [Next]_vars
             PROVE  OnlyGenuineInFlight'
  OBVIOUS
<1> USE DEF AuthenticInv, OnlyGenuineInFlight
<1>1. ASSUME NEW c \in Contents, NEW b \in Block, FulfillmentCheck(c, b)
      PROVE  OnlyGenuineInFlight'
  <2>1. PICK f \in Files :
          recv' = [pc |-> "verify", vb |-> [info |-> <<cur, f>>, block |-> b]]
    BY <1>1 DEF FulfillmentCheck, GetFileInfo
  <2>2. recv'.pc = "verify"
    BY <2>1
  <2>3. UNCHANGED <<chan, writer>>
    BY <1>1 DEF FulfillmentCheck
  <2> QED BY <2>2, <2>3 DEF GenuineFor
<1>2. CASE FulfillmentVerify
  <2> DEFINE n == recv.vb.info
             b == recv.vb.block
  <2>1. /\ recv.pc = "verify" /\ n \in Infos /\ b \in Block
        /\ recv'.vb = recv.vb
        /\ recv'.pc = IF Verifies(n, b) THEN "send" ELSE "idle"
    BY <1>2 DEF FulfillmentVerify, TypeOK, VerifiedBlock
  <2>2. Verifies(n, b) => GenuineFor(recv.vb)
    BY <2>1, VerifiesGenuine DEF GenuineFor
  <2>3. recv'.pc = "send" => GenuineFor(recv.vb)
    BY <2>1, <2>2
  <2>4. recv'.pc = "send" => GenuineFor(recv'.vb)
    BY <2>1, <2>3
  <2>5. UNCHANGED <<chan, writer>>
    BY <1>2 DEF FulfillmentVerify
  <2> QED BY <2>4, <2>5 DEF GenuineFor
<1>3. CASE FulfillmentSend
  <2>1. /\ chan' = Append(chan, recv.vb) /\ GenuineFor(recv.vb)
        /\ recv'.pc = "idle" /\ UNCHANGED writer
    BY <1>3 DEF FulfillmentSend, TypeOK
  <2>2. chan \in Seq(VerifiedBlock) /\ recv.vb \in VerifiedBlock
    BY DEF TypeOK
  <2>3. ASSUME NEW k \in 1..Len(chan')
        PROVE  \/ chan'[k] = recv.vb
               \/ k \in 1..Len(chan) /\ chan'[k] = chan[k]
    BY <2>1, <2>2
  <2>4. \A k \in 1..Len(chan') : GenuineFor(chan'[k])
    BY <2>1, <2>3
  <2> QED BY <2>1, <2>4 DEF GenuineFor
<1>4. CASE WriterTake
  <2>1. /\ chan \in Seq(VerifiedBlock) /\ chan # <<>> /\ chan' = Tail(chan)
        /\ writer' = writer \/ writer' = [pc |-> "write", vb |-> Head(chan)]
        /\ writer.pc = "idle" /\ UNCHANGED recv
    BY <1>4 DEF WriterTake, TypeOK
  <2>2. 1 \in 1..Len(chan) /\ Head(chan) = chan[1]
    BY <2>1
  <2>3. Len(chan') = Len(chan) - 1 /\ Len(chan) \in Nat
    BY <2>1
  <2>4. ASSUME NEW k \in 1..Len(chan')
        PROVE  k + 1 \in 1..Len(chan) /\ chan'[k] = chan[k + 1]
    BY <2>1, <2>3
  <2>5. \A k \in 1..Len(chan') : GenuineFor(chan'[k])
    BY <2>4
  <2>6. writer'.pc # "idle" => GenuineFor(writer'.vb)
    BY <2>1, <2>2
  <2> QED BY <2>1, <2>5, <2>6 DEF GenuineFor
<1>5. ASSUME WriterWrite \/ WriterFail \/ MarkCoverage \/ PutBlockMap \/ PutBlockLookup
      PROVE  OnlyGenuineInFlight'
  <2>1. /\ writer.pc # "idle" /\ writer'.vb = writer.vb
        /\ UNCHANGED <<chan, recv>>
    BY <1>5 DEF WriterWrite, WriterFail, MarkCoverage, PutBlockMap,
                PutBlockLookup, TypeOK
  <2> QED BY <2>1 DEF GenuineFor
<1>6. CASE UNCHANGED <<chan, writer, recv>>
  BY <1>6 DEF GenuineFor
<1>7. \/ FulfillmentVerify \/ FulfillmentSend \/ WriterTake
      \/ WriterWrite \/ WriterFail \/ MarkCoverage \/ PutBlockMap \/ PutBlockLookup
      \/ \E c \in Contents, b \in Block : FulfillmentCheck(c, b)
      \/ UNCHANGED <<chan, writer, recv>>
  BY DEF Next, RecvNext, WriterNext, UINext, vars,
         ProcessAdvertisement, FulfillmentUnknownPack, WriterOutOfRange,
         ConcurrentMapAccess, SendRequestsComplete, StartPack, WriteZeroFile, EmptyCoverage,
         Activate, ClearPacks
<1> QED BY <1>1, <1>2, <1>3, <1>4, <1>5, <1>6, <1>7

\* No step lets a block in that was not verified.
LEMMA AuthenticNext == AuthenticInv /\ [Next]_vars => AuthenticInv'
BY TypeNext, MapsNext, InFlightNext DEF AuthenticInv

\* Seeders may send any block under any hash: those in flight to the disk and in
\* the maps are blocks of the file's own chain, in every state, even if the user
\* restarts downloads or rescans in the middle of one.
THEOREM Authenticity == Spec => []AuthenticInv
<1>1. Init => AuthenticInv
  BY AuthenticInit
<1>2. AuthenticInv /\ [Next]_vars => AuthenticInv'
  BY AuthenticNext
<1> QED BY <1>1, <1>2, PTL DEF Spec

\* Every variable keeps to its type and VerifiedBlockChan to its capacity.
THEOREM TypeCorrect == Spec => []TypeOK
<1>1. AuthenticInv => TypeOK
  BY DEF AuthenticInv
<1> QED BY <1>1, Authenticity, PTL

\* ProcessFulfillment lets no block through but those of the chain that the pack
\* names, the empty one at its end included: whatever a seeder sends, and in
\* whatever order.
THEOREM GenuineInFlight == Spec => []OnlyGenuineInFlight
<1>1. AuthenticInv => OnlyGenuineInFlight
  BY DEF AuthenticInv
<1> QED BY <1>1, Authenticity, PTL

-----------------------------------------------------------------------------
(* The download: the user types /get for available packs only *)

\* At the start no download has begun.
LEMMA DownloadInit == Init => DownloadInv
<1> SUFFICES ASSUME Init PROVE DownloadInv
  OBVIOUS
<1>1. AuthenticInv
  BY AuthenticInit
<1>2. \A n \in Infos : n[1] \in Objs
  BY DEF Infos
<1>3. StartedFirst
  BY <1>2 DEF Init, StartedFirst
<1>4. WrittenBeforeMarked /\ ZeroingAvailable /\ CoverageOnDisk
  BY DEF Init, WrittenBeforeMarked, ZeroingAvailable, CoverageOnDisk
<1>5. CompleteIsFull
  BY <1>2 DEF Init, CompleteIsFull
<1> QED BY <1>1, <1>3, <1>4, <1>5 DEF DownloadInv

\* Which steps change the state of a *Pack.
LEMMA StateSteps ==
  [Next]_vars => SendRequestsComplete \/ Activate \/ UNCHANGED state
BY DEF Next, RecvNext, WriterNext, UINext, vars, packVars,
       ProcessAdvertisement, FulfillmentUnknownPack, FulfillmentCheck,
       FulfillmentVerify, FulfillmentSend, WriterTake, WriterOutOfRange, WriterWrite,
       WriterFail, MarkCoverage, PutBlockMap, PutBlockLookup,
       ConcurrentMapAccess, StartPack, WriteZeroFile, EmptyCoverage, ClearPacks

\* Which steps change the coverage of a file.
LEMMA CoverageSteps ==
  [Next]_vars => MarkCoverage \/ EmptyCoverage \/ UNCHANGED coverage
BY DEF Next, RecvNext, WriterNext, UINext, vars, fileVars,
       ProcessAdvertisement, FulfillmentUnknownPack, FulfillmentCheck,
       FulfillmentVerify, FulfillmentSend, WriterTake, WriterOutOfRange, WriterWrite,
       WriterFail, PutBlockMap, PutBlockLookup, ConcurrentMapAccess,
       SendRequestsComplete, StartPack, WriteZeroFile, Activate, ClearPacks

\* A *Pack that has left AVAILABLE does not come back to it.
LEMMA StartedStays ==
  ASSUME TypeOK, [Next]_vars, NEW o \in Objs, state[o] # "AVAILABLE"
  PROVE  state'[o] # "AVAILABLE"
<1>1. CASE SendRequestsComplete
  BY <1>1 DEF SendRequestsComplete, TypeOK
<1>2. CASE Activate
  BY <1>2 DEF Activate, TypeOK
<1>3. CASE UNCHANGED state
  BY <1>3
<1>4. SendRequestsComplete \/ Activate \/ UNCHANGED state
  BY StateSteps
<1> QED BY <1>1, <1>2, <1>3, <1>4

\* The facts about types that the steps below need.
LEMMA Types ==
  ASSUME TypeOK
  PROVE  /\ writer.vb \in VerifiedBlock /\ recv.vb \in VerifiedBlock
         /\ writer.vb.info \in Infos /\ recv.vb.info \in Infos
         /\ writer.vb.info[1] \in Objs /\ recv.vb.info[1] \in Objs
         /\ writer.vb.info[2] \in Files
         /\ writer.vb.block.index \in Indices
         /\ writer.vb.info = <<writer.vb.info[1], writer.vb.info[2]>>
         /\ cur # 0 => cur \in Objs
         /\ ui.file \in Files
         /\ \A k \in 1..Len(chan) : chan[k] \in VerifiedBlock /\ chan[k].info[1] \in Objs
         /\ \A n \in Infos : n[1] \in Objs /\ n[2] \in Files
         /\ \A o \in Objs : \A f \in Files : <<o, f>> \in Infos
<1>1. \A vb \in VerifiedBlock : vb.info \in Infos /\ vb.block.index \in Indices
  BY DEF VerifiedBlock, Block
<1>2. \A n \in Infos : n[1] \in Objs /\ n[2] \in Files /\ n = <<n[1], n[2]>>
  BY DEF Infos
<1>3. \A o \in Objs : \A f \in Files : <<o, f>> \in Infos
  BY DEF Infos
<1>4. writer.vb \in VerifiedBlock /\ recv.vb \in VerifiedBlock /\ ui.file \in Files
  BY DEF TypeOK
<1>5. \A k \in 1..Len(chan) : chan[k] \in VerifiedBlock
  BY DEF TypeOK
<1>6. cur # 0 => cur \in Objs
  BY BoundsAssumption DEF TypeOK, Objs
<1> QED BY <1>1, <1>2, <1>3, <1>4, <1>5, <1>6

\* Blocks and bits belong to started downloads only: the writer and Recv hold
\* blocks that were let in for an active pack, and no pack becomes available
\* again.
LEMMA StartedNext ==
  DownloadInv /\ [Next]_vars => StartedFirst'
<1> SUFFICES ASSUME DownloadInv, [Next]_vars PROVE StartedFirst'
  OBVIOUS
<1> DEFINE S(o) == state[o] # "AVAILABLE"
           S1(o) == state'[o] # "AVAILABLE"
<1>1. TypeOK /\ StartedFirst
  BY DEF DownloadInv, AuthenticInv
<1>2. \A o \in Objs : S(o) => S1(o)
  BY <1>1, StartedStays
<1>3. \A k \in 1..Len(chan') : S1(chan'[k].info[1])
  <2>1. CASE FulfillmentSend
    <3>1. /\ chan' = Append(chan, recv.vb) /\ S(recv.vb.info[1])
          /\ chan \in Seq(VerifiedBlock) /\ recv.vb \in VerifiedBlock
      BY <1>1, <2>1 DEF FulfillmentSend, StartedFirst, TypeOK
    <3>2. ASSUME NEW k \in 1..Len(chan')
          PROVE  \/ chan'[k] = recv.vb
                 \/ k \in 1..Len(chan) /\ chan'[k] = chan[k]
      BY <3>1
    <3> QED BY <1>1, <1>2, <3>1, <3>2, Types DEF StartedFirst
  <2>2. CASE WriterTake
    <3>1. chan \in Seq(VerifiedBlock) /\ chan # <<>> /\ chan' = Tail(chan)
      BY <1>1, <2>2 DEF WriterTake, TypeOK
    <3>2. ASSUME NEW k \in 1..Len(chan')
          PROVE  k + 1 \in 1..Len(chan) /\ chan'[k] = chan[k + 1]
      BY <3>1
    <3> QED BY <1>1, <1>2, <3>2, Types DEF StartedFirst
  <2>3. CASE UNCHANGED chan
    BY <1>1, <1>2, <2>3, Types DEF StartedFirst
  <2>4. FulfillmentSend \/ WriterTake \/ UNCHANGED chan
    BY DEF Next, RecvNext, WriterNext, UINext, vars,
           ProcessAdvertisement, FulfillmentUnknownPack, FulfillmentCheck,
           FulfillmentVerify, WriterOutOfRange, WriterWrite, WriterFail, MarkCoverage, PutBlockMap,
           PutBlockLookup, ConcurrentMapAccess, SendRequestsComplete,
           StartPack, WriteZeroFile, EmptyCoverage, Activate, ClearPacks
  <2> QED BY <2>1, <2>2, <2>3, <2>4
<1>4. writer'.pc # "idle" => S1(writer'.vb.info[1])
  <2>1. CASE WriterTake
    <3>1. /\ chan \in Seq(VerifiedBlock) /\ chan # <<>>
          /\ writer' = writer \/ writer' = [pc |-> "write", vb |-> Head(chan)]
      BY <1>1, <2>1 DEF WriterTake, TypeOK
    <3>2. 1 \in 1..Len(chan) /\ Head(chan) = chan[1]
      BY <3>1
    <3> QED BY <1>1, <1>2, <3>1, <3>2, Types DEF StartedFirst
  <2>2. CASE writer.pc # "idle" /\ writer'.vb = writer.vb
    BY <1>1, <1>2, <2>2, Types DEF StartedFirst
  <2>3. CASE UNCHANGED writer
    BY <1>1, <1>2, <2>3, Types DEF StartedFirst
  <2>4. WriterTake \/ (writer.pc # "idle" /\ writer'.vb = writer.vb) \/ UNCHANGED writer
    BY <1>1 DEF Next, RecvNext, WriterNext, UINext, vars, TypeOK,
           ProcessAdvertisement, FulfillmentUnknownPack, FulfillmentCheck,
           FulfillmentVerify, FulfillmentSend, WriterOutOfRange, WriterWrite, WriterFail,
           MarkCoverage, PutBlockMap, PutBlockLookup, ConcurrentMapAccess,
           SendRequestsComplete, StartPack, WriteZeroFile, EmptyCoverage,
           Activate, ClearPacks
  <2> QED BY <2>1, <2>2, <2>3, <2>4
<1>5. recv'.pc # "idle" => S1(recv'.vb.info[1])
  <2>1. ASSUME NEW c \in Contents, NEW b \in Block, FulfillmentCheck(c, b)
        PROVE  S1(recv'.vb.info[1])
    <3>1. PICK f \in Files :
            recv' = [pc |-> "verify", vb |-> [info |-> <<cur, f>>, block |-> b]]
      BY <2>1 DEF FulfillmentCheck, GetFileInfo
    <3>2. cur \in Objs /\ S(cur)
      BY <1>1, <2>1, Types DEF FulfillmentCheck
    <3>3. recv'.vb.info[1] = cur
      BY <3>1
    <3> QED BY <1>2, <3>2, <3>3
  <2>2. CASE recv.pc # "idle" /\ recv'.vb = recv.vb
    BY <1>1, <1>2, <2>2, Types DEF StartedFirst
  <2>3. CASE UNCHANGED recv
    BY <1>1, <1>2, <2>3, Types DEF StartedFirst
  <2>4. \/ \E c \in Contents, b \in Block : FulfillmentCheck(c, b)
        \/ recv.pc # "idle" /\ recv'.vb = recv.vb
        \/ UNCHANGED recv
    BY <1>1 DEF Next, RecvNext, WriterNext, UINext, vars, TypeOK,
           ProcessAdvertisement, FulfillmentUnknownPack,
           FulfillmentVerify, FulfillmentSend, WriterTake, WriterOutOfRange, WriterWrite, WriterFail,
           MarkCoverage, PutBlockMap, PutBlockLookup, ConcurrentMapAccess,
           SendRequestsComplete, StartPack, WriteZeroFile, EmptyCoverage,
           Activate, ClearPacks
  <2> QED BY <2>1, <2>2, <2>3, <2>4
<1>6. ASSUME NEW n \in Infos, ~S1(n[1]) PROVE coverage'[n] = {}
  <2>1. ~S(n[1]) /\ coverage[n] = {} /\ n[1] \in Objs
    BY <1>1, <1>2, <1>6, Types DEF StartedFirst
  <2>2. CASE MarkCoverage
    <3>1. S(writer.vb.info[1]) /\ writer.vb.info \in Infos
      BY <1>1, <2>2, Types DEF MarkCoverage, StartedFirst
    <3>2. writer.vb.info # n
      BY <2>1, <3>1
    <3> QED BY <1>1, <2>1, <2>2, <3>1, <3>2 DEF MarkCoverage, TypeOK
  <2>3. CASE EmptyCoverage
    BY <1>1, <2>1, <2>3 DEF EmptyCoverage, TypeOK
  <2>4. CASE UNCHANGED coverage
    BY <2>1, <2>4
  <2>5. MarkCoverage \/ EmptyCoverage \/ UNCHANGED coverage
    BY CoverageSteps
  <2> QED BY <2>2, <2>3, <2>4, <2>5
<1>7. ASSUME NEW o \in Objs, o > made' PROVE ~S1(o)
  <2>1. o > made /\ ~S(o)
    <3>1. made' = made \/ made' = made + 1
      BY DEF Next, RecvNext, WriterNext, UINext, vars, packVars,
           ProcessAdvertisement, FulfillmentUnknownPack, FulfillmentCheck,
           FulfillmentVerify, FulfillmentSend, WriterTake, WriterOutOfRange, WriterWrite,
           WriterFail, MarkCoverage, PutBlockMap, PutBlockLookup,
           ConcurrentMapAccess, SendRequestsComplete, StartPack,
           WriteZeroFile, EmptyCoverage, Activate, ClearPacks
    <3>2. o \in Int /\ made \in Int
      BY <1>1, BoundsAssumption DEF TypeOK, Objs
    <3>3. o > made
      BY <1>7, <3>1, <3>2
    <3> QED BY <1>1, <3>3 DEF StartedFirst
  <2>2. CASE SendRequestsComplete
    BY <1>1, <2>1, <2>2, Types DEF SendRequestsComplete, TypeOK
  <2>3. CASE Activate
    <3>1. o # cur
      BY <1>1, <2>1, <2>3, BoundsAssumption DEF TypeOK, Objs
    <3> QED BY <1>1, <2>1, <2>3, <3>1 DEF Activate, TypeOK
  <2>4. CASE UNCHANGED state
    BY <2>1, <2>4
  <2>5. SendRequestsComplete \/ Activate \/ UNCHANGED state
    BY StateSteps
  <2> QED BY <2>2, <2>3, <2>4, <2>5
<1> QED BY <1>3, <1>4, <1>5, <1>6, <1>7 DEF StartedFirst

\* Only an available pack can be under way in StartPack, and until Activate
\* nothing else changes its state or drops it.
LEMMA ZeroingNext ==
  ASSUME GetStates \subseteq {"AVAILABLE"}, DownloadInv, [Next]_vars
  PROVE  ZeroingAvailable'
<1>1. TypeOK /\ ZeroingAvailable
  BY DEF DownloadInv, AuthenticInv
<1>2. CASE StartPack
  BY <1>2 DEF StartPack, packVars, ZeroingAvailable
<1>3. CASE WriteZeroFile \/ EmptyCoverage
  <2>1. ui.pc # "idle" /\ UNCHANGED <<cur, state>>
    BY <1>3 DEF WriteZeroFile, EmptyCoverage, packVars
  <2> QED BY <1>1, <2>1 DEF ZeroingAvailable
<1>4. CASE Activate
  BY <1>4 DEF Activate, ZeroingAvailable
<1>5. CASE UNCHANGED ui /\ ui.pc = "idle"
  BY <1>5 DEF ZeroingAvailable
<1>6. CASE UNCHANGED <<ui, cur, state>>
  BY <1>1, <1>6 DEF ZeroingAvailable
<1>7. CASE ProcessAdvertisement
  BY <1>1, <1>7 DEF ProcessAdvertisement, ZeroingAvailable
<1>8. \/ StartPack \/ WriteZeroFile \/ EmptyCoverage \/ Activate
      \/ ProcessAdvertisement
      \/ UNCHANGED ui /\ ui.pc = "idle"
      \/ UNCHANGED <<ui, cur, state>>
  BY DEF Next, RecvNext, WriterNext, UINext, vars, packVars, PackUnlocked,
         FulfillmentUnknownPack, FulfillmentCheck,
         FulfillmentVerify, FulfillmentSend, WriterTake, WriterOutOfRange, WriterWrite,
         WriterFail, MarkCoverage, PutBlockMap, PutBlockLookup,
         ConcurrentMapAccess, SendRequestsComplete, ClearPacks
<1> QED BY <1>2, <1>3, <1>4, <1>5, <1>6, <1>7, <1>8

\* The *Pack that StartPack works on has no blocks in flight and no bits.
LEMMA ZeroingAlone ==
  ASSUME TypeOK, StartedFirst, ZeroingAvailable, ui.pc # "idle"
  PROVE  /\ cur \in Objs
         /\ writer.pc # "idle" => writer.vb.info[1] # cur
         /\ \A f \in Files : coverage[<<cur, f>>] = {}
<1>1. cur \in Objs /\ state[cur] = "AVAILABLE"
  BY Types DEF ZeroingAvailable
<1>2. \A f \in Files : <<cur, f>> \in Infos /\ <<cur, f>>[1] = cur
  BY <1>1, Types
<1> QED BY <1>1, <1>2 DEF StartedFirst

\* A new *Pack has no blocks in flight and no bits.
LEMMA NewPack ==
  ASSUME TypeOK, StartedFirst, ProcessAdvertisement
  PROVE  /\ cur' \in Objs
         /\ writer.pc # "idle" => writer.vb.info[1] # cur'
         /\ \A f \in Files : coverage[<<cur', f>>] = {}
<1>1. cur' \in Objs /\ cur' > made
  BY BoundsAssumption DEF ProcessAdvertisement, TypeOK, Objs
<1>2. state[cur'] = "AVAILABLE"
  BY <1>1 DEF StartedFirst
<1>3. \A f \in Files : <<cur', f>> \in Infos /\ <<cur', f>>[1] = cur'
  BY <1>1, Types
<1> QED BY <1>1, <1>2, <1>3 DEF StartedFirst

\* WriteBlock puts one block where it belongs and touches nothing else.
LEMMA WriteBlockDisk ==
  ASSUME TypeOK, NEW vb \in VerifiedBlock, WriteBlock(vb)
  PROVE  \A f \in Files, i \in Indices :
           disk'[f][i] = IF f = vb.info[2] /\ i = vb.block.index
                           THEN vb.block ELSE disk[f][i]
<1>1. vb.info[2] \in Files /\ vb.block.index \in Indices
  BY DEF VerifiedBlock, Infos, Block
<1> QED BY <1>1 DEF WriteBlock, TypeOK

\* Between its write and its bit a block stays on disk: the files that are
\* emptied belong to another *Pack, and writes put only that block there.
LEMMA WrittenNext ==
  ASSUME DownloadInv, [Next]_vars
  PROVE  WrittenBeforeMarked'
<1>1. TypeOK /\ StartedFirst /\ ZeroingAvailable /\ WrittenBeforeMarked
  BY DEF DownloadInv, AuthenticInv
<1>2. CASE WriterWrite
  <2>1. /\ writer.vb \in VerifiedBlock /\ writer'.vb = writer.vb
        /\ WriteBlock(writer.vb)
    BY <1>1, <1>2 DEF WriterWrite, TypeOK
  <2> QED BY <1>1, <2>1, WriteBlockDisk, Types DEF WrittenBeforeMarked
<1>3. CASE WriteZeroFile
  <2>1. ui.pc # "idle" /\ UNCHANGED <<writer, cur>>
    BY <1>3 DEF WriteZeroFile, packVars
  <2>2. writer.pc # "idle" => writer.vb.info[1] # cur
    BY <1>1, <2>1, ZeroingAlone
  <2> QED BY <2>1, <2>2 DEF WrittenBeforeMarked
<1>4. CASE ProcessAdvertisement
  <2>1. writer.pc # "idle" => writer.vb.info[1] # cur'
    BY <1>1, <1>4, NewPack
  <2>2. UNCHANGED writer
    BY <1>4 DEF ProcessAdvertisement
  <2> QED BY <2>1, <2>2 DEF WrittenBeforeMarked
<1>5. CASE ClearPacks
  <2>1. cur' = 0 /\ UNCHANGED writer /\ writer.vb.info[1] \in Objs
    BY <1>1, <1>5, Types DEF ClearPacks
  <2> QED BY <2>1 DEF WrittenBeforeMarked, Objs
<1>6. CASE writer'.pc # "mark"
  BY <1>6 DEF WrittenBeforeMarked
<1>7. CASE UNCHANGED <<writer, cur, disk>>
  BY <1>1, <1>7 DEF WrittenBeforeMarked
<1>8. \/ WriterWrite \/ WriteZeroFile \/ ProcessAdvertisement \/ ClearPacks
      \/ writer'.pc # "mark"
      \/ UNCHANGED <<writer, cur, disk>>
  <2>1. CASE WriterTake
    BY <1>1, <2>1 DEF WriterTake, TypeOK
  <2>2. CASE WriterFail \/ MarkCoverage \/ PutBlockMap \/ PutBlockLookup
    BY <1>1, <2>2 DEF WriterFail, MarkCoverage, PutBlockMap, PutBlockLookup, TypeOK
  <2> QED
    BY <2>1, <2>2 DEF Next, RecvNext, WriterNext, UINext, vars, packVars,
       FulfillmentUnknownPack, FulfillmentCheck, FulfillmentVerify,
       FulfillmentSend, WriterOutOfRange, ConcurrentMapAccess,
       SendRequestsComplete, StartPack, EmptyCoverage, Activate
<1> QED BY <1>2, <1>3, <1>4, <1>5, <1>6, <1>7, <1>8

\* A bit is set only after the write, and files are emptied only while they
\* have no bits.
LEMMA CoverageNext ==
  ASSUME DownloadInv, [Next]_vars
  PROVE  CoverageOnDisk'
<1> DEFINE Good(f, i) == disk[f][i] = Genuine(f, i)
<1>1. /\ TypeOK /\ StartedFirst /\ ZeroingAvailable /\ WrittenBeforeMarked
      /\ CoverageOnDisk /\ OnlyGenuineInFlight
  BY DEF DownloadInv, AuthenticInv
<1>2. cur # 0 => \A f \in Files : <<cur, f>> \in Infos /\ coverage[<<cur, f>>] \subseteq Indices
  BY <1>1, Types DEF TypeOK
<1>3. CASE WriterWrite \/ WriterFail
  <2>1. /\ writer.vb \in VerifiedBlock /\ GenuineFor(writer.vb)
        /\ WriteBlock(writer.vb) \/ UNCHANGED disk
        /\ UNCHANGED <<cur, coverage>>
    BY <1>1, <1>3 DEF WriterWrite, WriterFail, TypeOK, OnlyGenuineInFlight,
                      packVars, fileVars
  <2>2. ASSUME cur # 0, NEW f \in Files, NEW i \in coverage[<<cur, f>>]
        PROVE  disk'[f][i] = Genuine(f, i)
    <3>1. i \in Indices /\ disk[f][i] = Genuine(f, i)
      BY <1>1, <1>2, <2>2 DEF CoverageOnDisk
    <3> QED BY <1>1, <2>1, <3>1, WriteBlockDisk DEF GenuineFor
  <2> QED BY <2>1, <2>2 DEF CoverageOnDisk
<1>4. CASE MarkCoverage
  <2> DEFINE m == writer.vb.info
             j == writer.vb.block.index
  <2>1. /\ coverage' = [coverage EXCEPT ![m] = @ \cup {j}]
        /\ UNCHANGED <<cur, disk>> /\ writer.pc = "mark"
        /\ writer.vb.block = Genuine(m[2], j)
    BY <1>1, <1>4 DEF MarkCoverage, packVars, OnlyGenuineInFlight, GenuineFor
  <2>2. m[1] = cur => disk[m[2]][j] = Genuine(m[2], j)
    BY <1>1, <2>1 DEF WrittenBeforeMarked
  <2> HIDE DEF m, j
  <2>3. ASSUME cur # 0, NEW f \in Files, NEW i \in coverage'[<<cur, f>>]
        PROVE  disk[f][i] = Genuine(f, i)
    <3>1. i \in coverage[<<cur, f>>] \/ (i = j /\ m = <<cur, f>>)
      BY <1>1, <1>2, <2>1, <2>3 DEF TypeOK
    <3>2. CASE i \in coverage[<<cur, f>>]
      BY <1>1, <2>3, <3>2 DEF CoverageOnDisk
    <3>3. CASE i = j /\ m = <<cur, f>>
      BY <2>2, <3>3
    <3> QED BY <3>1, <3>2, <3>3
  <2> QED BY <2>1, <2>3 DEF CoverageOnDisk
<1>5. CASE EmptyCoverage
  <2>1. UNCHANGED <<cur, disk>> /\ ui.pc # "idle"
    BY <1>5 DEF EmptyCoverage, packVars
  <2>2. ASSUME NEW f \in Files PROVE coverage'[<<cur, f>>] = {}
    <3>1. cur \in Objs /\ coverage[<<cur, f>>] = {} /\ <<cur, f>> \in Infos
      BY <1>1, <2>1, ZeroingAlone, Types
    <3> QED BY <1>1, <1>5, <3>1 DEF EmptyCoverage, TypeOK
  <2> QED BY <2>1, <2>2 DEF CoverageOnDisk
<1>6. CASE WriteZeroFile
  <2>1. UNCHANGED <<cur, coverage>> /\ ui.pc # "idle"
    BY <1>6 DEF WriteZeroFile, packVars, fileVars
  <2>2. \A f \in Files : coverage[<<cur, f>>] = {}
    BY <1>1, <2>1, ZeroingAlone
  <2> QED BY <2>1, <2>2 DEF CoverageOnDisk
<1>7. CASE ProcessAdvertisement
  <2>1. \A f \in Files : coverage[<<cur', f>>] = {}
    BY <1>1, <1>7, NewPack
  <2>2. UNCHANGED coverage
    BY <1>7 DEF ProcessAdvertisement, fileVars
  <2> QED BY <2>1, <2>2 DEF CoverageOnDisk
<1>8. CASE ClearPacks
  BY <1>8 DEF ClearPacks, CoverageOnDisk
<1>9. CASE UNCHANGED <<cur, coverage, disk>>
  BY <1>1, <1>9 DEF CoverageOnDisk
<1>10. \/ WriterWrite \/ WriterFail \/ MarkCoverage \/ EmptyCoverage
       \/ WriteZeroFile \/ ProcessAdvertisement \/ ClearPacks
       \/ UNCHANGED <<cur, coverage, disk>>
  BY DEF Next, RecvNext, WriterNext, UINext, vars, packVars, fileVars,
         FulfillmentUnknownPack, FulfillmentCheck, FulfillmentVerify,
         FulfillmentSend, WriterTake, WriterOutOfRange, PutBlockMap, PutBlockLookup,
         ConcurrentMapAccess, SendRequestsComplete, StartPack, Activate
<1> QED BY <1>3, <1>4, <1>5, <1>6, <1>7, <1>8, <1>9, <1>10

\* A complete pack stays full: bits are cleared in an available pack only.
LEMMA CompleteNext ==
  ASSUME DownloadInv, [Next]_vars
  PROVE  CompleteIsFull'
<1>1. TypeOK /\ StartedFirst /\ ZeroingAvailable /\ CompleteIsFull
  BY DEF DownloadInv, AuthenticInv
<1>2. ASSUME NEW n \in Infos, state'[n[1]] = "COMPLETE"
      PROVE  Covered(ContentOf[n[2]]) \subseteq coverage'[n]
  <2>1. n[1] \in Objs /\ n[2] \in Files /\ n = <<n[1], n[2]>>
    BY DEF Infos
  <2>2. CASE SendRequestsComplete
    <3>1. UNCHANGED coverage
      BY <2>2 DEF SendRequestsComplete, fileVars
    <3>2. CASE n[1] = cur
      BY <2>1, <2>2, <3>1, <3>2 DEF SendRequestsComplete, isFullCoverage
    <3>3. CASE n[1] # cur
      BY <1>1, <1>2, <2>1, <2>2, <3>1, <3>3
      DEF SendRequestsComplete, TypeOK, CompleteIsFull
    <3> QED BY <3>2, <3>3
  <2>3. CASE Activate
    <3>1. state[n[1]] = "COMPLETE" /\ UNCHANGED coverage
      BY <1>1, <1>2, <2>1, <2>3 DEF Activate, fileVars, TypeOK
    <3> QED BY <1>1, <3>1 DEF CompleteIsFull
  <2>4. CASE MarkCoverage
    <3>1. state[n[1]] = "COMPLETE" /\ coverage[n] \subseteq coverage'[n]
      BY <1>1, <1>2, <2>4 DEF MarkCoverage, packVars, TypeOK
    <3> QED BY <1>1, <3>1 DEF CompleteIsFull
  <2>5. CASE EmptyCoverage
    <3>1. state[n[1]] = "COMPLETE" /\ state[cur] = "AVAILABLE"
      BY <1>1, <1>2, <2>5 DEF EmptyCoverage, packVars, ZeroingAvailable
    <3>2. n # <<cur, ui.file>>
      BY <3>1
    <3>3. coverage'[n] = coverage[n]
      BY <1>1, <2>5, <3>2 DEF EmptyCoverage, TypeOK
    <3> QED BY <1>1, <3>1, <3>3 DEF CompleteIsFull
  <2>6. CASE UNCHANGED <<state, coverage>>
    BY <1>1, <1>2, <2>6 DEF CompleteIsFull
  <2>7. \/ SendRequestsComplete \/ Activate \/ MarkCoverage \/ EmptyCoverage
        \/ UNCHANGED <<state, coverage>>
    BY StateSteps, CoverageSteps
  <2> QED BY <2>2, <2>3, <2>4, <2>5, <2>6, <2>7
<1> QED BY <1>2 DEF CompleteIsFull

\* No step breaks the invariant of the download.
LEMMA DownloadNext ==
  ASSUME GetStates \subseteq {"AVAILABLE"}, DownloadInv, [Next]_vars
  PROVE  DownloadInv'
<1>1. AuthenticInv'
  BY AuthenticNext DEF DownloadInv
<1>2. StartedFirst'
  BY StartedNext
<1>3. ZeroingAvailable'
  BY ZeroingNext
<1>4. WrittenBeforeMarked' /\ CoverageOnDisk' /\ CompleteIsFull'
  BY WrittenNext, CoverageNext, CompleteNext
<1> QED BY <1>1, <1>2, <1>3, <1>4 DEF DownloadInv

\* With /get used for available packs only, the whole invariant always holds.
THEOREM DownloadSafe ==
  ASSUME GetStates \subseteq {"AVAILABLE"}
  PROVE  Spec => []DownloadInv
<1>1. Init => DownloadInv
  BY DownloadInit
<1>2. DownloadInv /\ [Next]_vars => DownloadInv'
  BY DownloadNext
<1> QED BY <1>1, <1>2, PTL DEF Spec

\* A set coverage bit always means that the block is on disk, whatever seeders
\* send, writes fail, and packs are dropped and offered again.
THEOREM RecordedIsOnDisk ==
  ASSUME GetStates \subseteq {"AVAILABLE"}
  PROVE  Spec => []CoverageOnDisk
<1>1. DownloadInv => CoverageOnDisk
  BY DEF DownloadInv
<1> QED BY <1>1, DownloadSafe, PTL

\* A pack shown as complete is on disk, all of it.
THEOREM CompleteIsOnDisk ==
  ASSUME GetStates \subseteq {"AVAILABLE"}
  PROVE  Spec => []CompleteOnDisk
<1>1. DownloadInv => CompleteOnDisk
  <2> SUFFICES ASSUME DownloadInv, cur # 0, state[cur] = "COMPLETE",
                      NEW f \in Files, NEW i \in Covered(ContentOf[f])
               PROVE  disk[f][i] = Genuine(f, i)
    BY DEF CompleteOnDisk
  <2>1. TypeOK /\ CoverageOnDisk /\ CompleteIsFull
    BY DEF DownloadInv, AuthenticInv
  <2>2. <<cur, f>> \in Infos /\ <<cur, f>>[1] = cur /\ <<cur, f>>[2] = f
    BY <2>1, Types
  <2>3. i \in coverage[<<cur, f>>]
    BY <2>1, <2>2 DEF CompleteIsFull
  <2> QED BY <2>1, <2>3 DEF CoverageOnDisk
<1> QED BY <1>1, DownloadSafe, PTL

-----------------------------------------------------------------------------
(* Steps and refinement *)

\* Only StartPack clears bits, and only those of an available pack, which has
\* none: the requests never ask again for a block that was recorded.
THEOREM BitsNeverLost ==
  ASSUME GetStates \subseteq {"AVAILABLE"}
  PROVE  Spec => CoverageNeverLost
<1>1. DownloadInv /\ [Next]_vars => \A n \in Infos : coverage[n] \subseteq coverage'[n]
  <2> SUFFICES ASSUME DownloadInv, [Next]_vars, NEW n \in Infos
               PROVE  coverage[n] \subseteq coverage'[n]
    OBVIOUS
  <2>1. TypeOK /\ StartedFirst /\ ZeroingAvailable
    BY DEF DownloadInv, AuthenticInv
  <2>2. CASE MarkCoverage
    BY <2>1, <2>2 DEF MarkCoverage, TypeOK
  <2>3. CASE EmptyCoverage
    <3>1. coverage[<<cur, ui.file>>] = {}
      BY <2>1, <2>3, ZeroingAlone, Types DEF EmptyCoverage
    <3> QED BY <2>1, <2>3, <3>1 DEF EmptyCoverage, TypeOK
  <2>4. CASE UNCHANGED coverage
    BY <2>4
  <2> QED BY <2>2, <2>3, <2>4, CoverageSteps
<1>2. DownloadInv /\ [Next]_vars =>
        [\A n \in Infos : coverage[n] \subseteq coverage'[n]]_vars
  BY <1>1
<1> QED BY <1>2, DownloadSafe, PTL DEF Spec, CoverageNeverLost

\* Since recorded blocks are on disk, the held blocks are the wanted ones among
\* the recorded.
Recorded ==
  IF cur = 0 THEN {}
  ELSE {p \in Wanted : p[2] \in coverage[<<cur, p[1]>>]}

\* Of the pack in party.Packs, a block is held once its bit is set.
LEMMA HeldRecorded ==
  ASSUME CoverageOnDisk
  PROVE  Held = Recorded
BY DEF CoverageOnDisk, Held, Recorded, Wanted

\* Setting a bit gains at most one wanted block, and only while the pack is
\* being downloaded.
LEMMA MarkGains ==
  ASSUME DownloadInv, MarkCoverage
  PROVE  \/ Recorded' = Recorded
         \/ /\ Phase = "ACTIVE"
            /\ \E p \in Wanted \ Recorded : Recorded' = Recorded \cup {p}
<1> DEFINE m == writer.vb.info
           j == writer.vb.block.index
           p == <<m[2], j>>
<1>1. /\ TypeOK /\ StartedFirst /\ CompleteIsFull
      /\ UNCHANGED cur
      /\ coverage' = [coverage EXCEPT ![m] = @ \cup {j}]
      /\ state[m[1]] # "AVAILABLE"
  BY DEF DownloadInv, AuthenticInv, StartedFirst, MarkCoverage, packVars
<1>2. m \in Infos /\ m[1] \in Objs /\ m[2] \in Files /\ j \in Indices
      /\ m = <<m[1], m[2]>>
  BY <1>1, Types
<1> HIDE DEF m, j
<1>3. CASE m[1] # cur
  <2>1. \A f \in Files : coverage'[<<cur, f>>] = coverage[<<cur, f>>]
    <3>1. ASSUME NEW f \in Files PROVE <<cur, f>> # m
      BY <1>3
    <3> QED BY <1>1, <3>1 DEF TypeOK
  <2>2. \A q \in Wanted : coverage'[<<cur, q[1]>>] = coverage[<<cur, q[1]>>]
    BY <2>1 DEF Wanted
  <2>3. cur' = cur
    BY <1>1
  <2>4. Recorded' = Recorded
    BY <2>2, <2>3 DEF Recorded
  <2> QED BY <2>4
<1>4. CASE m[1] = cur /\ j \in coverage[m]
  <2>1. coverage' = coverage
    BY <1>1, <1>2, <1>4 DEF TypeOK
  <2> QED BY <1>1, <2>1 DEF Recorded
<1>5. CASE m[1] = cur /\ j \notin coverage[m]
  <2>1. cur # 0 /\ m = <<cur, m[2]>>
    BY <1>2, <1>5 DEF Objs
  <2>2. ASSUME NEW f \in Files, NEW i \in Indices
        PROVE  i \in coverage'[<<cur, f>>] <=>
                 i \in coverage[<<cur, f>>] \/ (f = m[2] /\ i = j)
    <3>1. <<cur, f>> \in Infos
      BY <1>1, <2>1, Types
    <3>2. CASE f = m[2]
      BY <1>1, <1>2, <2>1, <3>1, <3>2 DEF TypeOK
    <3>3. CASE f # m[2]
      <4>1. <<cur, f>> # m
        BY <2>1, <3>3
      <4> QED BY <1>1, <3>1, <3>3, <4>1 DEF TypeOK
    <3> QED BY <3>2, <3>3
  <2>3. CASE j \in Covered(ContentOf[m[2]])
    <3>1. state[cur] = "ACTIVE"
      BY <1>1, <1>2, <1>5, <2>3 DEF CompleteIsFull, TypeOK, States
    <3>2. p \in Wanted \ Recorded
      BY <1>1, <1>2, <1>5, <2>1, <2>3 DEF Wanted, Recorded
    <3>3. Recorded' = Recorded \cup {p}
      BY <1>1, <1>2, <2>1, <2>2, <3>2 DEF Recorded, Wanted
    <3> QED BY <2>1, <3>1, <3>2, <3>3 DEF Phase
  <2>4. CASE j \notin Covered(ContentOf[m[2]])
    <3>1. \A q \in Wanted : q[2] \in coverage'[<<cur, q[1]>>] <=> q[2] \in coverage[<<cur, q[1]>>]
      BY <2>2, <2>4 DEF Wanted
    <3> QED BY <1>1, <3>1 DEF Recorded
  <2> QED BY <2>3, <2>4
<1> QED BY <1>3, <1>4, <1>5

\* Before the first advertisement there is no pack to download.
LEMMA AbstractInit == Init => Abstract!Init
BY DEF Init, Abstract!Init, Phase, Held

\* Every step is a step of the reliable download or changes nothing of it.
LEMMA AbstractNext ==
  ASSUME GetStates \subseteq {"AVAILABLE"}, DownloadInv, [Next]_vars
  PROVE  [Abstract!Next]_<<Phase, Held>>
<1>1. /\ TypeOK /\ StartedFirst /\ ZeroingAvailable /\ CoverageOnDisk
      /\ CoverageOnDisk'
  BY DownloadNext DEF DownloadInv, AuthenticInv
<1>2. Held = Recorded /\ Held' = Recorded'
  <2>1. Held = Recorded
    BY <1>1, HeldRecorded
  <2>2. Held' = Recorded'
    BY <1>1 DEF CoverageOnDisk, Held, Recorded, Wanted
  <2> QED BY <2>1, <2>2
<1> USE DEF Abstract!Next, Abstract!vars
<1>3. CASE ProcessAdvertisement
  <2>1. cur = 0 /\ cur' \in Objs /\ cur' > made /\ UNCHANGED <<state, coverage>>
    BY <1>1, <1>3, BoundsAssumption
    DEF ProcessAdvertisement, TypeOK, Objs, fileVars
  <2>2. state'[cur'] = "AVAILABLE" /\ cur' # 0
    BY <1>1, <2>1 DEF StartedFirst, Objs
  <2>3. \A f \in Files : coverage'[<<cur', f>>] = {}
    BY <1>1, <1>3, <2>1, NewPack
  <2>4. Recorded = {} /\ Recorded' = {}
    BY <2>1, <2>2, <2>3 DEF Recorded, Wanted
  <2> QED BY <1>2, <2>1, <2>2, <2>4 DEF Abstract!Offer, Phase
<1>4. CASE ClearPacks
  <2>1. cur # 0 /\ cur' = 0
    BY <1>4 DEF ClearPacks
  <2>2. Phase # "NONE" /\ Phase' = "NONE" /\ Held' = {}
    BY <1>1, <2>1, Types DEF Phase, Held, TypeOK, States
  <2> QED BY <2>2 DEF Abstract!Forget
<1>5. CASE Activate
  <2>1. /\ cur \in Objs /\ state[cur] = "AVAILABLE"
        /\ state' = [state EXCEPT ![cur] = "ACTIVE"]
        /\ UNCHANGED <<cur, coverage>>
    BY <1>1, <1>5, ZeroingAlone DEF Activate, ZeroingAvailable, fileVars
  <2>2. Phase = "AVAILABLE" /\ Phase' = "ACTIVE" /\ Recorded' = Recorded
    BY <1>1, <2>1 DEF Phase, Recorded, TypeOK, Objs
  <2> QED BY <1>2, <2>2 DEF Abstract!Begin
<1>6. CASE SendRequestsComplete
  <2>1. /\ cur \in Objs /\ state[cur] = "ACTIVE" /\ cur # 0
        /\ state' = [state EXCEPT ![cur] = "COMPLETE"]
        /\ UNCHANGED <<cur, coverage>>
    BY <1>1, <1>6, Types DEF SendRequestsComplete, fileVars
  <2>2. \A f \in Files : coverage[<<cur, f>>] = Covered(ContentOf[f])
    BY <1>6 DEF SendRequestsComplete, isFullCoverage
  <2>3. Recorded = Wanted
    BY <2>1, <2>2 DEF Recorded, Wanted
  <2>4. Phase = "ACTIVE" /\ Phase' = "COMPLETE" /\ Recorded' = Recorded
    BY <1>1, <2>1 DEF Phase, Recorded, TypeOK
  <2> QED BY <1>2, <2>3, <2>4 DEF Abstract!Finish
<1>7. CASE MarkCoverage
  <2>1. Phase' = Phase
    BY <1>7 DEF MarkCoverage, packVars, Phase
  <2>2. CASE Recorded' = Recorded
    BY <1>2, <2>1, <2>2
  <2>3. CASE Phase = "ACTIVE" /\ \E p \in Wanted \ Recorded : Recorded' = Recorded \cup {p}
    BY <1>2, <2>1, <2>3 DEF Abstract!Gain
  <2> QED BY <1>7, <2>2, <2>3, MarkGains
<1>8. CASE EmptyCoverage
  <2>1. UNCHANGED <<cur, state>> /\ ui.pc # "idle"
    BY <1>8 DEF EmptyCoverage, packVars
  <2>2. ASSUME NEW f \in Files PROVE coverage'[<<cur, f>>] = coverage[<<cur, f>>]
    <3>1. cur \in Objs /\ coverage[<<cur, f>>] = {} /\ <<cur, f>> \in Infos
      BY <1>1, <2>1, ZeroingAlone, Types
    <3> QED BY <1>1, <1>8, <3>1 DEF EmptyCoverage, TypeOK
  <2>3. Phase' = Phase /\ Recorded' = Recorded
    BY <2>1, <2>2 DEF Phase, Recorded, Wanted
  <2> QED BY <1>2, <2>3
<1>9. CASE UNCHANGED <<cur, state, coverage>>
  <2>1. Phase' = Phase /\ Recorded' = Recorded
    BY <1>9 DEF Phase, Recorded
  <2> QED BY <1>2, <2>1
<1>10. \/ ProcessAdvertisement \/ ClearPacks \/ Activate \/ SendRequestsComplete
       \/ MarkCoverage \/ EmptyCoverage
       \/ UNCHANGED <<cur, state, coverage>>
  BY DEF Next, RecvNext, WriterNext, UINext, vars, packVars, fileVars,
         FulfillmentUnknownPack, FulfillmentCheck, FulfillmentVerify,
         FulfillmentSend, WriterTake, WriterOutOfRange, WriterWrite, WriterFail, PutBlockMap,
         PutBlockLookup, ConcurrentMapAccess, StartPack, WriteZeroFile
<1> QED BY <1>3, <1>4, <1>5, <1>6, <1>7, <1>8, <1>9, <1>10

\* The four goroutines together give the user a reliable download, whatever
\* seeders send: a bit outside fullCoverage is no gain, and with it the pack is
\* not shown as complete.
THEOREM Refinement ==
  ASSUME GetStates \subseteq {"AVAILABLE"}
  PROVE  Spec => ImplementsReliableDownload
<1>1. Init => Abstract!Init
  BY AbstractInit
<1>2. DownloadInv /\ [Next]_vars => [Abstract!Next]_<<Phase, Held>>
  BY AbstractNext
<1>3. DownloadInv /\ [Next]_vars => [Abstract!Next]_(Abstract!vars)
  BY <1>2 DEF Abstract!vars
<1> QED
  BY <1>1, <1>3, DownloadSafe, PTL
  DEF Spec, ImplementsReliableDownload, Abstract!Spec

-----------------------------------------------------------------------------
(* Recorded blocks can be looked up *)

\* The block of the bit that was just set is not in both maps yet.
Entering(n, i) ==
  writer.pc \in {"map", "lookup"} /\ writer.vb = [info |-> n, block |-> Genuine(n[2], i)]

\* The two maps of a file have every recorded block, but for that one, which
\* enters the first map before the second.
MapsHaveRecorded ==
  /\ \A n \in Infos : \A i \in coverage[n] :
       \/ blockLookup[n][i] = Genuine(n[2], i) /\ Genuine(n[2], i) \in blockMap[n]
       \/ Entering(n, i)
  /\ writer.pc = "lookup" => writer.vb.block \in blockMap[writer.vb.info]

\* Blocks stay in the maps: only the genuine block of an index is put there.
LEMMA MapsGrow ==
  ASSUME AuthenticInv, [Next]_vars, NEW n \in Infos, NEW i \in Indices
  PROVE  /\ blockMap[n] \subseteq blockMap'[n]
         /\ blockLookup[n][i] = Genuine(n[2], i) => blockLookup'[n][i] = Genuine(n[2], i)
<1>1. TypeOK /\ MapsGenuine' /\ OnlyGenuineInFlight
  BY MapsNext DEF AuthenticInv
<1>2. CASE PutBlockMap
  BY <1>1, <1>2 DEF PutBlockMap, TypeOK
<1>3. CASE PutBlockLookup
  <2>1. writer.vb.block = Genuine(writer.vb.info[2], writer.vb.block.index)
    BY <1>1, <1>3 DEF OnlyGenuineInFlight, GenuineFor, PutBlockLookup
  <2>2. /\ blockMap' = blockMap
        /\ blockLookup' = [blockLookup EXCEPT ![writer.vb.info] =
             [blockLookup[writer.vb.info] EXCEPT ![writer.vb.block.index] = writer.vb.block]]
    BY <1>3 DEF PutBlockLookup
  <2>3. blockLookup \in [Infos -> [Indices -> Block \cup {NoHash}]]
    BY <1>1 DEF TypeOK
  <2>4. CASE n = writer.vb.info /\ i = writer.vb.block.index
    BY <2>1, <2>2, <2>3, <2>4
  <2>5. CASE n # writer.vb.info \/ i # writer.vb.block.index
    BY <2>2, <2>3, <2>5
  <2> QED BY <2>2, <2>4, <2>5
<1>4. CASE UNCHANGED <<blockMap, blockLookup>>
  BY <1>4
<1> QED BY <1>2, <1>3, <1>4
        DEF Next, RecvNext, WriterNext, UINext, vars, fileVars,
            ProcessAdvertisement, FulfillmentUnknownPack, FulfillmentCheck,
            FulfillmentVerify, FulfillmentSend, WriterTake, WriterOutOfRange, WriterWrite, WriterFail,
            MarkCoverage, ConcurrentMapAccess, SendRequestsComplete, StartPack,
            WriteZeroFile, EmptyCoverage, Activate, ClearPacks

\* What the writer is at when it is putting a block into the maps.
LEMMA EnteringSteps ==
  ASSUME [Next]_vars
  PROVE  MarkCoverage \/ PutBlockMap \/ PutBlockLookup \/
           /\ (writer.pc \in {"map", "lookup"} => writer' = writer)
           /\ (writer'.pc = "lookup" => writer' = writer)
<1> USE DEF Next, RecvNext, WriterNext, UINext
<1>1. CASE WriterTake
  BY <1>1 DEF WriterTake
<1>2. CASE WriterWrite
  BY <1>2 DEF WriterWrite
<1>3. CASE WriterFail
  BY <1>3 DEF WriterFail
<1>4. CASE writer' = writer
  BY <1>4
<1> QED BY <1>1, <1>2, <1>3, <1>4
        DEF vars, ProcessAdvertisement, FulfillmentUnknownPack, FulfillmentCheck,
            FulfillmentVerify, FulfillmentSend, WriterOutOfRange, ConcurrentMapAccess,
            SendRequestsComplete, StartPack, WriteZeroFile, EmptyCoverage, Activate,
            ClearPacks

\* A recorded block stays, or comes to be, where it can be looked up.
LEMMA MapsHaveNext ==
  AuthenticInv /\ MapsHaveRecorded /\ [Next]_vars => MapsHaveRecorded'
<1> SUFFICES ASSUME AuthenticInv, MapsHaveRecorded, [Next]_vars PROVE MapsHaveRecorded'
  OBVIOUS
<1> DEFINE There(n, i) == blockLookup[n][i] = Genuine(n[2], i) /\ Genuine(n[2], i) \in blockMap[n]
<1>1. /\ TypeOK /\ OnlyGenuineInFlight
      /\ writer.vb.info \in Infos /\ writer.vb.block \in Block
      /\ writer.vb = [info |-> writer.vb.info, block |-> writer.vb.block]
      /\ writer.vb.block.index \in Indices /\ coverage \in [Infos -> SUBSET Indices]
  BY Types DEF AuthenticInv, TypeOK, VerifiedBlock, Block
<1>2. ASSUME NEW n \in Infos, NEW i \in Indices, There(n, i)
      PROVE  There(n, i)'
  BY <1>2, MapsGrow
<1>3. writer.pc # "idle" => writer.vb.block = Genuine(writer.vb.info[2], writer.vb.block.index)
  BY <1>1 DEF OnlyGenuineInFlight, GenuineFor
<1>4. CASE MarkCoverage
  <2>1. /\ writer'.pc = "map" /\ writer'.vb = writer.vb
        /\ coverage' = [coverage EXCEPT ![writer.vb.info] =
                          coverage[writer.vb.info] \cup {writer.vb.block.index}]
        /\ writer.pc = "mark"
    BY <1>1, <1>4 DEF MarkCoverage, TypeOK
  <2>2. ASSUME NEW n \in Infos, NEW i \in coverage'[n]
        PROVE  There(n, i)' \/ Entering(n, i)'
    <3>1. CASE i \in coverage[n]
      <4>1. There(n, i)
        BY <2>1, <3>1 DEF MapsHaveRecorded, Entering
      <4> QED BY <1>1, <1>2, <3>1, <4>1
    <3>2. CASE i \notin coverage[n]
      <4>1. n = writer.vb.info /\ i = writer.vb.block.index
        BY <1>1, <2>1, <3>2
      <4> QED BY <1>1, <1>3, <2>1, <4>1 DEF Entering
    <3> QED BY <3>1, <3>2
  <2> QED BY <2>1, <2>2 DEF MapsHaveRecorded
<1>5. CASE PutBlockMap
  <2>1. /\ writer.pc = "map" /\ writer'.pc = "lookup" /\ writer'.vb = writer.vb
        /\ coverage' = coverage
        /\ writer.vb.block \in blockMap'[writer.vb.info]
    BY <1>1, <1>5 DEF PutBlockMap, TypeOK
  <2>2. ASSUME NEW n \in Infos, NEW i \in coverage'[n]
        PROVE  There(n, i)' \/ Entering(n, i)'
    <3>1. There(n, i) \/ Entering(n, i)
      BY <2>1 DEF MapsHaveRecorded
    <3>2. Entering(n, i) => Entering(n, i)'
      BY <2>1 DEF Entering
    <3> QED BY <1>1, <1>2, <2>1, <3>1, <3>2
  <2> QED BY <2>1, <2>2 DEF MapsHaveRecorded
<1>6. CASE PutBlockLookup
  <2>1. /\ writer.pc = "lookup" /\ writer'.pc = "idle"
        /\ coverage' = coverage /\ blockMap' = blockMap
        /\ blockLookup'[writer.vb.info][writer.vb.block.index] = writer.vb.block
    BY <1>1, <1>6 DEF PutBlockLookup, TypeOK
  <2>2. ASSUME NEW n \in Infos, NEW i \in coverage'[n]
        PROVE  There(n, i)' \/ Entering(n, i)'
    <3>1. There(n, i) \/ Entering(n, i)
      BY <2>1 DEF MapsHaveRecorded
    <3>2. ASSUME Entering(n, i) PROVE There(n, i)'
      <4>1. writer.vb.info = n /\ writer.vb.block = Genuine(n[2], i)
            /\ writer.vb.block.index = i
        BY <3>2 DEF Entering, Genuine
      <4>2. writer.vb.block \in blockMap[writer.vb.info]
        BY <2>1 DEF MapsHaveRecorded
      <4> QED BY <2>1, <4>1, <4>2
    <3> QED BY <1>1, <1>2, <2>1, <3>1, <3>2
  <2> QED BY <2>1, <2>2 DEF MapsHaveRecorded
<1>7. CASE /\ writer.pc \in {"map", "lookup"} => writer' = writer
           /\ writer'.pc = "lookup" => writer' = writer
           /\ ~MarkCoverage
  <2>1. \A n \in Infos : coverage'[n] \subseteq coverage[n]
    BY <1>1, <1>7, CoverageSteps DEF EmptyCoverage
  <2>2. ASSUME NEW n \in Infos, NEW i \in coverage'[n]
        PROVE  There(n, i)' \/ Entering(n, i)'
    <3>1. i \in coverage[n] /\ i \in Indices
      BY <1>1, <2>1
    <3>2. There(n, i) \/ Entering(n, i)
      BY <3>1 DEF MapsHaveRecorded
    <3>3. Entering(n, i) => Entering(n, i)'
      BY <1>7 DEF Entering
    <3> QED BY <1>2, <3>1, <3>2, <3>3
  <2>3. writer'.pc = "lookup" => writer'.vb.block \in blockMap'[writer'.vb.info]
    <3> SUFFICES ASSUME writer'.pc = "lookup"
                 PROVE  writer'.vb.block \in blockMap'[writer'.vb.info]
      OBVIOUS
    <3>1. writer' = writer
      BY <1>7
    <3>2. writer.vb.block \in blockMap[writer.vb.info]
      BY <3>1 DEF MapsHaveRecorded
    <3> QED BY <1>1, <3>1, <3>2, MapsGrow
  <2> QED BY <2>2, <2>3 DEF MapsHaveRecorded
<1> QED BY <1>4, <1>5, <1>6, <1>7, EnteringSteps

\* Whatever seeders send, and also if the user restarts downloads, what is
\* recorded can be looked up and served to others, except for the block that
\* setBlockWritten is at.
THEOREM RecordedIsServed == Spec => []CoverageHasBlock
<1>1. Init => MapsHaveRecorded
  BY DEF Init, MapsHaveRecorded
<1>2. MapsHaveRecorded => CoverageHasBlock
  BY DEF MapsHaveRecorded, CoverageHasBlock, Stored, Entering
<1> QED BY <1>1, <1>2, MapsHaveNext, Authenticity, PTL DEF Spec
-----------------------------------------------------------------------------
(* A download is never stuck *)

\* What comes before a block of a file is of the file, too.
LEMMA CoveredDown ==
  ASSUME NEW c \in Contents, NEW i \in Covered(c), NEW j \in Nat, j < i
  PROVE  j \in Covered(c)
<1>1. /\ i \in Nat /\ i <= MaxIndex /\ i * BUFFER_SIZE < Size[c]
      /\ MaxIndex \in Nat /\ BUFFER_SIZE \in Nat /\ Size[c] \in Nat
  BY FilesAssumption, BoundsAssumption DEF Covered, Indices
<1>2. j \in Indices
  BY <1>1 DEF Indices
<1>3. j * BUFFER_SIZE <= i * BUFFER_SIZE
  BY <1>1
<1>4. j * BUFFER_SIZE \in Nat /\ i * BUFFER_SIZE \in Nat
  BY <1>1
<1> QED BY <1>1, <1>2, <1>3, <1>4 DEF Covered

\* The chain of hashes reaches every block of a file: its last index is that
\* of the last byte, or one more.
LEMMA CoveredInChain ==
  ASSUME NEW c \in Contents, NEW i \in Covered(c)
  PROVE  i <= LastIndex(c)
<1> DEFINE S == Size[c]
           B == BUFFER_SIZE
<1>1. i \in Nat /\ i * B < S /\ S \in Nat /\ B \in Nat /\ B > 0
  BY FilesAssumption, BoundsAssumption DEF Covered, Indices
<1> HIDE DEF S, B
<1>2. S \div B \in Int /\ S < B * (S \div B + 1)
  BY <1>1
<1>3. SUFFICES ASSUME ~(i <= S \div B) PROVE FALSE
  BY DEF LastIndex, S, B
<1>4. S \div B + 1 <= i
  BY <1>1, <1>2, <1>3
<1>5. B * (S \div B + 1) <= B * i
  BY <1>1, <1>2, <1>4
<1> QED BY <1>1, <1>2, <1>5

\* The hash of a block of the file is found in both of its parents.
LEMMA HashInParents ==
  ASSUME NEW f \in Files, NEW i \in Covered(ContentOf[f]), i # 0
  PROVE  /\ NextBlockHash(Genuine(f, i - 1)) = Genuine(f, i)
         /\ ChildHash(Genuine(f, treeParent(i)), i) = Genuine(f, i)
<1>1. ContentOf[f] \in Contents
  BY FilesAssumption
<1>2. i \in Nat /\ i <= LastIndex(ContentOf[f])
  BY <1>1, CoveredInChain DEF Covered, Indices
<1>3. \A j : HashAt(Genuine(f, j), i) = Genuine(f, i)
  BY <1>2 DEF HashAt, Genuine
<1>4. Genuine(f, i - 1).index + 1 = i
  BY <1>2 DEF Genuine
<1>5. CASE i % 2 = 1
  <2>1. 2 * treeParent(i) + 1 = i
    BY <1>2, <1>5 DEF treeParent
  <2>2. Genuine(f, treeParent(i)).index = treeParent(i)
    BY DEF Genuine
  <2> QED BY <1>3, <1>4, <1>5, <2>1, <2>2 DEF NextBlockHash, ChildHash, LeftBlockHash
<1>6. CASE i % 2 # 1
  <2>1. 2 * treeParent(i) + 2 = i
    BY <1>2, <1>6 DEF treeParent
  <2>2. Genuine(f, treeParent(i)).index = treeParent(i)
    BY DEF Genuine
  <2> QED BY <1>3, <1>4, <1>6, <2>1, <2>2 DEF NextBlockHash, ChildHash, RightBlockHash
<1> QED BY <1>5, <1>6

\* The parents of a block come before it.
LEMMA ParentsBefore ==
  ASSUME NEW i \in Nat, i # 0
  PROVE  i - 1 \in 0..(i - 1) /\ treeParent(i) \in 0..(i - 1)
BY DEF treeParent

\* The first block that a file lacks can be verified, once what is recorded
\* before it is in the maps.
LEMMA FirstVerifies ==
  ASSUME TypeOK, CoverageHasBlock, NEW n \in Infos,
         ~(writer.pc \in {"map", "lookup"} /\ writer.vb.info = n),
         NEW i \in Covered(ContentOf[n[2]]),
         \A j \in 0..(i - 1) : j \in coverage[n]
  PROVE  Verifies(n, Genuine(n[2], i))
<1>1. n[2] \in Files /\ i \in Indices /\ i \in Nat
  BY DEF Infos, Covered, Indices
<1>2. /\ Genuine(n[2], i).index = i
      /\ Genuine(n[2], i).kind # "garbled"
  BY DEF Genuine
<1>3. CASE i = 0
  BY <1>2, <1>3 DEF Verifies
<1>4. CASE i # 0
  <2>1. ASSUME NEW j \in 0..(i - 1)
        PROVE  Stored(n, j) = Genuine(n[2], j)
    <3>1. writer.vb # [info |-> n, block |-> Genuine(n[2], j)]
             \/ writer.pc \notin {"map", "lookup"}
      OBVIOUS
    <3> QED BY <3>1 DEF CoverageHasBlock
  <2>2. /\ Stored(n, i - 1) = Genuine(n[2], i - 1)
        /\ Stored(n, treeParent(i)) = Genuine(n[2], treeParent(i))
    BY <1>1, <1>4, <2>1, ParentsBefore
  <2>3. \A j \in Indices : Genuine(n[2], j) # NoHash
    BY <1>1, GenuineInBlock, NoHashAssumption
  <2>4. i - 1 \in Indices /\ treeParent(i) \in Indices
    BY <1>1, <1>4, TreeParentIndex
  <2>5. ExpectedHash(n, i) = Genuine(n[2], i)
    BY <1>1, <1>4, <2>2, <2>3, <2>4, HashInParents DEF ExpectedHash
  <2> QED BY <1>2, <1>4, <2>5 DEF Verifies
<1> QED BY <1>3, <1>4

\* A file that lacks a block lacks a first one, and its parents are recorded.
LEMMA FirstMissing ==
  ASSUME TypeOK, CoverageHasBlock, NEW n \in Infos,
         ~(Covered(ContentOf[n[2]]) \subseteq coverage[n]),
         ~(writer.pc \in {"map", "lookup"} /\ writer.vb.info = n)
  PROVE  \E i \in Covered(ContentOf[n[2]]) \ coverage[n] :
           Verifies(n, Genuine(n[2], i))
<1> DEFINE Missing == Covered(ContentOf[n[2]]) \ coverage[n]
<1>1. ContentOf[n[2]] \in Contents
  BY FilesAssumption DEF Infos
<1>2. Missing # {} /\ Missing \subseteq Nat
  BY DEF Covered, Indices
<1>3. PICK i \in Missing : \A j \in Missing : ~(<<j, i>> \in OpToRel(<, Nat))
  BY <1>2, WFMin, NatLessThanWellFounded
<1>4. ASSUME NEW j \in 0..(i - 1)
      PROVE  j \in coverage[n]
  <2>1. j \in Nat /\ i \in Nat /\ j < i
    BY <1>2
  <2>2. j \in Covered(ContentOf[n[2]])
    BY <1>1, <2>1, CoveredDown
  <2>3. <<j, i>> \in OpToRel(<, Nat)
    BY <2>1 DEF OpToRel
  <2> QED BY <1>3, <2>2, <2>3
<1> QED BY <1>4, FirstVerifies

\* However large the files and whatever seeders send, the empty block at the end
\* of a chain included, and also if downloads are restarted: as long as a block
\* of the file is missing, there is one among the missing that can be verified
\* on arrival, so that ProcessFulfillment's checks never bring it to a halt.
THEOREM AlwaysOneToAskFor == Spec => []NeverStuck
<1>1. TypeOK /\ CoverageHasBlock => NeverStuck
  BY Types, FirstMissing DEF NeverStuck
<1> QED BY <1>1, TypeCorrect, RecordedIsServed, PTL
=============================================================================
