----------------------------- MODULE SavedProofs -----------------------------
(***************************************************************************)
(* What the web UI has counted is in flash, for any images, partitions and *)
(* erase blocks, sent over the remains of one another.                     *)
(***************************************************************************)
EXTENDS UpdateProofs

PagesOf(image) == 0 .. PageCountOf[image] - 1

ChunksOf(image, page) == 0 .. ChunkCountOf(image, page) - 1

IsBlank(page) == \A k \in Chunks : flash[page][k] = Blank

\* A page that is erased with a later one.
Earlier(p, q) == p < q /\ SameEraseBlock(p, q)

ImageOf(msg) == msg.payload[1]

Carries(n, image, page, k) ==
  /\ ImageOf(downlink[n]) = image
  /\ downlink[n].pageIndex = page /\ downlink[n].chunkIndex = k

\* The device has taken the chunk for the page under way, and no chunk of another image
\* in a place where this one has one.
Held(image, page, k) ==
  /\ activePage = page /\ k \notin chunksPending
  /\ \A c \in ChunksOf(image, page) \ chunksPending : pageBuffer[c] = Bytes(image, page, c)

Missing(image, page, k) == ~Held(image, page, k)

\* The image's page cannot be finished by the messages before the n-th: there is a chunk
\* that the device misses and none of them carries.
SpentBefore(image, page, n) ==
  \E k \in ChunksOf(image, page) :
    Missing(image, page, k) /\ \A m \in 1 .. n - 1 : ~Carries(m, image, page, k)

\* ... nor by any message under way.
Spent(image, page) == SpentBefore(image, page, Len(downlink) + 1)

\* Nor can the page of any other image.
AllSpent(page) == \A image \in Images : page \in PagesOf(image) => Spent(image, page)

Counted(image, page) == HoldsPage(image, page) /\ AllSpent(page)

\* A block fills from its first page on, and a later page of it that can still be
\* finished is blank, so that writing it erases nothing.
BlockInv ==
  \A p, q \in Pages : Earlier(p, q) =>
    /\ ~IsBlank(p) \/ IsBlank(q)
    /\ \A image \in Images : q \in PagesOf(image) =>
         Spent(image, q) \/ (IsBlank(q) /\ HoldsPage(image, p))

\* A message of a later page is behind the last chance of an earlier one, and only
\* the first page has chunks under way of several uploads.
OrderInv ==
  /\ \A n \in 1 .. Len(downlink), image \in Images : \A p \in PagesOf(image) :
       p < downlink[n].pageIndex => SpentBefore(image, p, n)
  /\ \A m, n \in 1 .. Len(downlink) :
       m < n /\ downlink[m].pageIndex = downlink[n].pageIndex =>
         \/ downlink[n].pageIndex = 0 /\ m <= older
         \/ /\ ImageOf(downlink[m]) = ImageOf(downlink[n])
            /\ downlink[m].chunkIndex # downlink[n].chunkIndex

\* The upload under way, of the image.
UploadOf(image) ==
  /\ activePageIndex < PageCountOf[image]
  /\ activePageIndex > 0 => older = 0 /\ stale = 0
  /\ \A n \in older + 1 .. Len(downlink) :
       ImageOf(downlink[n]) = image /\ downlink[n].pageIndex <= activePageIndex
  /\ \A p \in PagesOf(image) : p < activePageIndex => Counted(image, p)
  /\ \A n \in stale + 1 .. Len(uplink) : uplink[n].status = "WRITE_SUCCESS" =>
       /\ uplink[n].pageIndex <= activePageIndex
       /\ uplink[n].pageIndex = activePageIndex =>
            /\ Counted(image, activePageIndex)
            /\ \A q \in Pages : Earlier(activePageIndex, q) => IsBlank(q)
            /\ \A q \in Pages : activePageIndex < q => AllSpent(q)

UploadInv == \A image \in Images : pages = image => UploadOf(image)

DoneInv ==
  progress = "Upload complete" =>
    /\ pages = NoImage
    /\ \A p \in Pages : AllSpent(p)
    /\ AnImageIsSaved

StaleInv == older > 0 => stale = Len(uplink)

SavedInv ==
  ~misled /\ ~mixed => BlockInv /\ OrderInv /\ UploadInv /\ DoneInv /\ StaleInv

-----------------------------------------------------------------------------
LEMMA PageFacts ==
  ASSUME NEW image \in Images
  PROVE  /\ PagesOf(image) \subseteq Pages /\ PagesOf(image) \subseteq Nat
         /\ PageCountOf[image] \in Nat /\ 0 \in PagesOf(image)
         /\ \A p \in PagesOf(image) :
              /\ ChunksOf(image, p) \subseteq Chunks /\ 0 \in ChunksOf(image, p)
              /\ ChunkCountOf(image, p) \in Nat
<1>1. PageCountOf[image] \in Nat /\ PageCountOf[image] > 0
  BY ImageFits
<1>2. PagesOf(image) \subseteq Nat /\ 0 \in PagesOf(image)
  BY <1>1 DEF PagesOf
<1>3. PagesOf(image) \subseteq Pages
  BY <1>1, ImageFits DEF PagesOf
<1>4. ASSUME NEW p \in PagesOf(image)
      PROVE  /\ ChunksOf(image, p) \subseteq Chunks /\ 0 \in ChunksOf(image, p)
             /\ ChunkCountOf(image, p) \in Nat
  <2>1. ChunkCountOf(image, p) \in 1 .. ChunksPerPageMax
    BY <1>2, ImageFits
  <2> QED
    BY <2>1, PartitionAssumption DEF ChunksOf, Chunks
<1> QED
  BY <1>1, <1>2, <1>3, <1>4

\* An image has the pages before one that it has.
LEMMA PagesBefore ==
  ASSUME NEW image \in Images, NEW q \in PagesOf(image), NEW p \in Nat, p < q
  PROVE  p \in PagesOf(image) /\ p \in Pages
<1>1. PageCountOf[image] \in Nat
  BY PageFacts
<1>2. p \in PagesOf(image)
  BY <1>1 DEF PagesOf
<1> QED
  BY <1>2, PageFacts

LEMMA BytesDiffer ==
  ASSUME NEW i, NEW j, NEW p, NEW k, Bytes(i, p, k) = Bytes(j, p, k)
  PROVE  i = j
  BY DEF Bytes

\* What a message says of the image it is of.
LEMMA MsgSays ==
  ASSUME NEW msg \in Msgs, NEW i, i = ImageOf(msg)
  PROVE  /\ i \in Images
         /\ msg.pageIndex \in PagesOf(i) /\ msg.pageIndex \in Pages /\ msg.pageIndex \in Nat
         /\ msg.pageCount = PageCountOf[i]
         /\ msg.chunkCountInPage = ChunkCountOf(i, msg.pageIndex)
         /\ msg.chunkIndex \in ChunksOf(i, msg.pageIndex) /\ msg.chunkIndex \in Chunks
         /\ msg.payload = Bytes(i, msg.pageIndex, msg.chunkIndex)
         /\ msg.payload \in Payloads
<1>1. PICK j \in Images, p \in Pages, k \in Chunks :
        /\ p < PageCountOf[j] /\ k < ChunkCountOf(j, p)
        /\ msg.pageIndex = p /\ msg.pageCount = PageCountOf[j]
        /\ msg.chunkIndex = k /\ msg.chunkCountInPage = ChunkCountOf(j, p)
        /\ msg.payload = Bytes(j, p, k)
  BY MsgFacts
<1>2. i = j
  BY <1>1 DEF ImageOf, Bytes
<1>3. p \in Nat /\ k \in Nat
  BY Partition
<1>4. PageCountOf[j] \in Nat /\ ChunkCountOf(j, p) \in 1 .. ChunksPerPageMax
  BY <1>3, ImageFits
<1>5. p \in PagesOf(j) /\ k \in ChunksOf(j, p)
  BY <1>1, <1>3, <1>4, PartitionAssumption DEF PagesOf, ChunksOf
<1>6. Bytes(j, p, k) \in Payloads
  BY PayloadFacts
<1> QED
  BY <1>1, <1>2, <1>3, <1>5, <1>6

\* The step of the device that completes a page with chunks of one image.
Unmixed(msg) == Completes(msg) /\ OfOneImage(msg) /\ PageComplete(msg)

\* That image is the one of the message, and the device held every other chunk of it.
LEMMA BufferIsPage ==
  ASSUME DeviceType, NEW msg \in Msgs, Unmixed(msg), NEW i, i = ImageOf(msg)
  PROVE  \A k \in ChunksOf(i, msg.pageIndex) :
           /\ k # msg.chunkIndex => Held(i, msg.pageIndex, k)
           /\ BufferAfter(msg)[k] = Bytes(i, msg.pageIndex, k)
<1> DEFINE page == msg.pageIndex
<1>1. /\ i \in Images /\ page \in PagesOf(i)
      /\ 0 .. msg.chunkCountInPage - 1 = ChunksOf(i, page)
      /\ msg.chunkIndex \in ChunksOf(i, page) /\ ChunksOf(i, page) \subseteq Chunks
      /\ msg.payload = Bytes(i, page, msg.chunkIndex)
  BY MsgSays, PageFacts DEF ChunksOf
<1>2. /\ msg.chunkIndex \in chunksPending
      /\ page = activePage \/ chunksPending = Chunks
      /\ PendingAfter(msg) = {}
  BY DEF Unmixed, Completes, ImageDataMsgValid, NO_CHUNKS_PROCESSED
<1>3. /\ BufferAfter(msg)[msg.chunkIndex] = msg.payload
      /\ \A c \in Chunks : c # msg.chunkIndex => BufferAfter(msg)[c] = pageBuffer[c]
  BY <1>1 DEF BufferAfter, DeviceType
<1>4. \A k \in ChunksOf(i, page) : BufferAfter(msg)[k] = Bytes(i, page, k)
  <2>1. PICK image \in Images :
          \A k \in ChunksOf(i, page) : BufferAfter(msg)[k] = Bytes(image, page, k)
    BY <1>1 DEF Unmixed, OfOneImage
  <2>2. image = i
    BY <1>1, <1>3, <2>1, BytesDiffer
  <2> QED
    BY <2>1, <2>2
<1>5. \A k \in ChunksOf(i, page) : k # msg.chunkIndex => k \notin chunksPending
  BY <1>1, <1>2 DEF PendingAfter, FlipBit
<1>6. ASSUME NEW k \in ChunksOf(i, page), k # msg.chunkIndex
      PROVE  Held(i, page, k)
  <2>1. k \in Chunks /\ k \notin chunksPending
    BY <1>1, <1>5, <1>6
  <2>2. activePage = page
    BY <1>2, <2>1
  <2>3. \A c \in ChunksOf(i, page) \ chunksPending : pageBuffer[c] = Bytes(i, page, c)
    BY <1>1, <1>2, <1>3, <1>4
  <2> QED
    BY <2>1, <2>2, <2>3 DEF Held
<1> QED
  BY <1>4, <1>6

\* A page that holds a page of an image is not blank.
LEMMA HeldIsNotBlank ==
  ASSUME NEW image \in Images, NEW p \in PagesOf(image), NEW mem,
         \A k \in ChunksOf(image, p) : mem[p][k] = Bytes(image, p, k)
  PROVE  ~ \A k \in Chunks : mem[p][k] = Blank
<1>1. 0 \in Chunks /\ 0 \in ChunksOf(image, p) /\ p \in Pages
  BY PageFacts, Partition
<1>2. mem[p][0] = <<image, p, 0>>
  BY <1>1 DEF Bytes
<1>3. <<image, p, 0>> \in Images \X Pages \X Chunks
  BY <1>1
<1> QED
  BY <1>1, <1>2, <1>3, BlankAssumption

LEMMA UpToLast ==
  ASSUME NEW image \in Images
  PROVE  \A p \in PagesOf(image) : p <= PageCountOf[image] - 1
<1>1. PageCountOf[image] \in Nat
  BY PageFacts
<1> QED
  BY <1>1 DEF PagesOf

LEMMA Below ==
  ASSUME NEW n \in Nat, NEW a \in Nat, a < n
  PROVE  a \in 0 .. n - 1
  OBVIOUS

\* Pages between two of a block are of the block.
LEMMA BetweenInBlock ==
  ASSUME NEW p \in Nat, NEW q \in Nat, NEW r \in Nat, p <= q, q <= r, SameEraseBlock(p, r)
  PROVE  SameEraseBlock(q, r)
  BY EraseBlockAssumption DEF SameEraseBlock

LEMMA SameFlash ==
  ASSUME NEW image, NEW p, flash' = flash
  PROVE  (HoldsPage(image, p)' <=> HoldsPage(image, p)) /\ (IsBlank(p)' <=> IsBlank(p))
  BY DEF HoldsPage, IsBlank

-----------------------------------------------------------------------------
\* A page that is written erases nothing if it is blank, and otherwise the pages of
\* its block.
LEMMA BlockWritten ==
  ASSUME NEW mem \in [Pages -> [Chunks -> Payloads]], NEW page \in Pages,
         NEW data \in [Chunks -> Payloads], NEW q \in Pages \ {page}
  PROVE  /\ (\A k \in Chunks : mem[page][k] = Blank) \/ ~SameEraseBlock(page, q)
              => FlashWrite(mem, page, data)[q] = mem[q]
         /\ ~(\A k \in Chunks : mem[page][k] = Blank) /\ SameEraseBlock(page, q)
              => \A k \in Chunks : FlashWrite(mem, page, data)[q][k] = Blank
<1> DEFINE ready == PrepareToWrite(mem, page)
<1>1. /\ FlashIsErased(mem, page) <=> \A k \in Chunks : mem[page][k] = Blank
      /\ DOMAIN mem = Pages /\ \A r \in Pages : DOMAIN mem[r] = Chunks
  BY DEF FlashIsErased
<1>2. FlashWrite(mem, page, data)[q] = ready[q]
  BY DEF FlashWrite, ProgramPage
<1>3. CASE FlashIsErased(mem, page)
  BY <1>1, <1>2, <1>3 DEF PrepareToWrite
<1>4. CASE ~FlashIsErased(mem, page)
  <2>1. ready[q] = IF SameEraseBlock(page, q) THEN [c \in Chunks |-> Blank] ELSE mem[q]
    BY <1>1, <1>4 DEF PrepareToWrite, FlashErase
  <2> QED
    BY <1>1, <1>2, <1>4, <2>1
<1> QED
  BY <1>3, <1>4

\* The page that is completed is in flash, and the others are as they were, or erased.
LEMMA CompletedPage ==
  ASSUME DeviceType, NEW msg \in Msgs, Unmixed(msg), NEW i, i = ImageOf(msg)
  PROVE  /\ HoldsPage(i, msg.pageIndex)' /\ ~IsBlank(msg.pageIndex)'
         /\ \A q \in Pages \ {msg.pageIndex} :
              /\ IsBlank(msg.pageIndex) \/ ~SameEraseBlock(msg.pageIndex, q)
                   => /\ \A image : HoldsPage(image, q)' <=> HoldsPage(image, q)
                      /\ IsBlank(q)' <=> IsBlank(q)
              /\ ~IsBlank(msg.pageIndex) /\ SameEraseBlock(msg.pageIndex, q) => IsBlank(q)'
<1> DEFINE page == msg.pageIndex
<1>1. /\ i \in Images /\ page \in Pages /\ page \in PagesOf(i)
      /\ msg.payload \in Payloads /\ msg.chunkIndex \in Chunks
  BY MsgSays
<1>2. BufferAfter(msg) \in [Chunks -> Payloads] /\ flash \in [Pages -> [Chunks -> Payloads]]
  BY <1>1 DEF BufferAfter, DeviceType
<1>3. flash' = FlashWrite(flash, page, BufferAfter(msg))
  BY DEF Unmixed, PageComplete, ProcessPage
<1>4. flash'[page] = BufferAfter(msg)
  BY <1>1, <1>2, <1>3, FlashWriteFacts
<1>5. \A k \in ChunksOf(i, page) : flash'[page][k] = Bytes(i, page, k)
  BY <1>4, BufferIsPage
<1>6. HoldsPage(i, page)' /\ ~IsBlank(page)'
  BY <1>1, <1>5, HeldIsNotBlank DEF HoldsPage, IsBlank, ChunksOf
<1>7. ASSUME NEW q \in Pages \ {page}
      PROVE  /\ IsBlank(page) \/ ~SameEraseBlock(page, q) => flash'[q] = flash[q]
             /\ ~IsBlank(page) /\ SameEraseBlock(page, q) => IsBlank(q)'
  BY <1>1, <1>2, <1>3, BlockWritten DEF IsBlank
<1> QED
  BY <1>6, <1>7 DEF HoldsPage, IsBlank

-----------------------------------------------------------------------------
\* The message that leaves is the first; the others move up.
MovesUp ==
  /\ Len(downlink) \in Nat \ {0} /\ Len(downlink') = Len(downlink) - 1
  /\ \A n \in 1 .. Len(downlink) - 1 : downlink'[n] = downlink[n + 1]

\* Nothing but the chunk of the message that leaves stops being missing.
StillMissing ==
  \A image \in Images : \A p \in PagesOf(image) : \A k \in ChunksOf(image, p) :
    Missing(image, p, k) /\ ~Carries(1, image, p, k) => Missing(image, p, k)'

\* A chunk of another image that the device takes has a place in this one, which then does
\* not hold its page, or it is of an image with more chunks on the page, and its message
\* masks no bit of this one.
LEMMA MissingAfter ==
  ASSUME DeviceType, NEW msg \in Msgs, msg = downlink[1], HandleImageData(msg)
  PROVE  StillMissing
<1> SUFFICES ASSUME NEW i \in Images, NEW p \in PagesOf(i), NEW k \in ChunksOf(i, p),
                    Held(i, p, k)', ~Carries(1, i, p, k)
             PROVE  Held(i, p, k)
  BY DEF StillMissing, Missing
<1>1. k \in Chunks /\ ChunksOf(i, p) \subseteq Chunks /\ ChunkCountOf(i, p) \in Nat
  BY PageFacts
<1>2. /\ activePage' = p /\ k \notin chunksPending'
      /\ \A c \in ChunksOf(i, p) \ chunksPending' : pageBuffer'[c] = Bytes(i, p, c)
  BY DEF Held, ChunksOf
<1>3. ImageDataMsgValid(msg) /\ PageIncomplete(msg)
  <2>1. CASE PageComplete(msg) \/ RejectMsg
    BY <1>1, <1>2, <2>1 DEF PageComplete, RejectMsg, PrepForNewPage, NO_CHUNKS_PROCESSED
  <2> QED
    BY <2>1 DEF HandleImageData
<1>4. PICK j : j = ImageOf(msg)
  OBVIOUS
<1>5. /\ j \in Images /\ msg.chunkCountInPage = ChunkCountOf(j, msg.pageIndex)
      /\ msg.pageIndex \in PagesOf(j)
      /\ msg.chunkIndex \in ChunksOf(j, msg.pageIndex) /\ msg.chunkIndex \in Chunks
      /\ msg.payload = Bytes(j, msg.pageIndex, msg.chunkIndex)
  BY <1>4, MsgSays
<1>6. PICK c : c = msg.chunkIndex
  OBVIOUS
<1>7. /\ activePage' = msg.pageIndex /\ chunksPending' = PendingAfter(msg)
      /\ pageBuffer' = BufferAfter(msg) /\ c \in chunksPending
      /\ msg.pageIndex = activePage \/ chunksPending = Chunks
  BY <1>3, <1>6 DEF PageIncomplete, ProcessChunk, ImageDataMsgValid, NO_CHUNKS_PROCESSED
<1>8. msg.pageIndex = p /\ p \in PagesOf(j) /\ c \in ChunksOf(j, p)
  BY <1>2, <1>5, <1>6, <1>7
<1>9. chunksPending' = (chunksPending \ {c}) \cap ChunksOf(j, p)
  BY <1>5, <1>6, <1>7, <1>8 DEF PendingAfter, FlipBit, ChunksOf
<1>10. /\ pageBuffer'[c] = Bytes(j, p, c)
       /\ \A d \in Chunks : d # c => pageBuffer'[d] = pageBuffer[d]
  BY <1>5, <1>6, <1>7, <1>8 DEF BufferAfter, DeviceType
<1>11. k # c /\ ChunksOf(i, p) \subseteq ChunksOf(j, p)
  <2>1. CASE c \in ChunksOf(i, p)
    <3>1. i = j
      BY <1>2, <1>9, <1>10, <2>1, BytesDiffer
    <3>2. k # c
      BY <1>4, <1>6, <1>8, <3>1 DEF Carries
    <3> QED
      BY <3>1, <3>2
  <2>2. CASE c \notin ChunksOf(i, p)
    <3>1. ChunkCountOf(j, p) \in Nat /\ c \in Nat
      BY <1>5, <1>8, PageFacts, Partition
    <3>2. ChunkCountOf(i, p) <= ChunkCountOf(j, p)
      BY <1>1, <1>8, <2>2, <3>1 DEF ChunksOf
    <3>3. ChunksOf(i, p) \subseteq ChunksOf(j, p)
      BY <1>1, <3>1, <3>2 DEF ChunksOf
    <3> QED
      BY <2>2, <3>3
  <2> QED
    BY <2>1, <2>2
<1>12. k \notin chunksPending
  BY <1>2, <1>9, <1>11
<1>13. activePage = p
  BY <1>1, <1>7, <1>8, <1>12
<1>14. ASSUME NEW d \in ChunksOf(i, p) \ chunksPending PROVE pageBuffer[d] = Bytes(i, p, d)
  BY <1>1, <1>2, <1>7, <1>9, <1>10
<1> QED
  BY <1>12, <1>13, <1>14 DEF Held

LEMMA SpentMovesUp ==
  ASSUME MovesUp, StillMissing, NEW image \in Images, NEW p \in PagesOf(image)
  PROVE  /\ \A n \in 1 .. Len(downlink) :
              SpentBefore(image, p, n + 1) => SpentBefore(image, p, n)'
         /\ Spent(image, p) => Spent(image, p)'
<1>1. ASSUME NEW n \in 1 .. Len(downlink), SpentBefore(image, p, n + 1)
      PROVE  SpentBefore(image, p, n)'
  <2>1. Len(downlink) \in Nat /\ n \in Nat /\ n >= 1
    BY DEF MovesUp
  <2>2. PICK k \in ChunksOf(image, p) :
          Missing(image, p, k) /\ \A m \in 1 .. (n + 1) - 1 : ~Carries(m, image, p, k)
    BY <1>1 DEF SpentBefore
  <2>3. Missing(image, p, k)'
    <3>1. ~Carries(1, image, p, k)
      BY <2>1, <2>2
    <3> QED
      BY <2>2, <3>1 DEF StillMissing
  <2>4. ASSUME NEW m \in 1 .. n - 1 PROVE ~Carries(m, image, p, k)'
    <3>1. m + 1 \in 1 .. (n + 1) - 1 /\ m \in 1 .. Len(downlink) - 1
      BY <2>1
    <3>2. ~Carries(m + 1, image, p, k) /\ downlink'[m] = downlink[m + 1]
      BY <2>2, <3>1 DEF MovesUp
    <3> QED
      BY <3>2 DEF Carries
  <2> QED
    BY <2>3, <2>4 DEF SpentBefore, ChunksOf
<1>2. ASSUME Spent(image, p) PROVE Spent(image, p)'
  <2>1. Len(downlink) \in 1 .. Len(downlink) /\ Len(downlink') + 1 = Len(downlink)
    BY DEF MovesUp
  <2>2. SpentBefore(image, p, Len(downlink) + 1)
    BY <1>2 DEF Spent
  <2>3. PICK n \in 1 .. Len(downlink) : n = Len(downlink') + 1 /\ n = Len(downlink)
    BY <2>1
  <2>4. SpentBefore(image, p, n)'
    BY <1>1, <2>2, <2>3
  <2> QED
    BY <2>3, <2>4 DEF Spent, SpentBefore
<1> QED
  BY <1>1, <1>2

LEMMA AllSpentMovesUp ==
  ASSUME MovesUp, StillMissing, NEW p, AllSpent(p)
  PROVE  AllSpent(p)'
  BY SpentMovesUp DEF AllSpent, PagesOf

\* A message that completes its page has not let the chance pass.
LEMMA CompletesUnspent ==
  ASSUME DeviceType, NEW msg \in Msgs, msg = downlink[1], Unmixed(msg),
         NEW i, i = ImageOf(msg)
  PROVE  \A n \in Nat : n >= 2 => ~SpentBefore(i, msg.pageIndex, n)
<1> SUFFICES ASSUME NEW n \in Nat, n >= 2, NEW k \in ChunksOf(i, msg.pageIndex),
                    Missing(i, msg.pageIndex, k),
                    \A m \in 1 .. n - 1 : ~Carries(m, i, msg.pageIndex, k)
             PROVE  FALSE
  BY DEF SpentBefore
<1>1. k # msg.chunkIndex
  BY DEF Carries
<1>2. Held(i, msg.pageIndex, k)
  BY <1>1, BufferIsPage
<1> QED
  BY <1>2 DEF Missing

LEMMA CompletesNotSpent ==
  ASSUME DeviceType, MovesUp, NEW msg \in Msgs, msg = downlink[1], Unmixed(msg),
         NEW i, i = ImageOf(msg)
  PROVE  ~Spent(i, msg.pageIndex) /\ ~AllSpent(msg.pageIndex)
<1>1. Len(downlink) + 1 \in Nat /\ Len(downlink) + 1 >= 2
  BY DEF MovesUp
<1>2. ~Spent(i, msg.pageIndex)
  BY <1>1, CompletesUnspent DEF Spent
<1> QED
  BY <1>2, MsgSays DEF AllSpent

\* ... and it was the last one, but for a first page with chunks of an earlier upload.
LEMMA CompletesSpent ==
  ASSUME DeviceType, OrderInv, MovesUp, NEW msg \in Msgs, msg = downlink[1], Unmixed(msg),
         msg.pageIndex # 0 \/ older = 0
  PROVE  AllSpent(msg.pageIndex)'
<1> DEFINE page == msg.pageIndex
<1>1. PICK i \in Images : i = ImageOf(msg) /\ msg.chunkIndex \in ChunksOf(i, page)
  BY MsgSays
<1>2. chunksPending' = Chunks
  BY DEF Unmixed, PageComplete, PrepForNewPage, NO_CHUNKS_PROCESSED
<1> SUFFICES ASSUME NEW j \in Images, page \in PagesOf(j) PROVE Spent(j, page)'
  BY DEF AllSpent, PagesOf
<1>3. PICK k \in ChunksOf(j, page) : j = i => k = msg.chunkIndex
  <2>1. 0 \in ChunksOf(j, page)
    BY PageFacts
  <2> QED
    BY <1>1, <2>1
<1>4. Missing(j, page, k)'
  <2>1. k \in Chunks
    BY PageFacts
  <2> QED
    BY <1>2, <2>1 DEF Missing, Held
<1>5. ASSUME NEW m \in 1 .. Len(downlink') PROVE ~Carries(m, j, page, k)'
  <2>1. m \in 1 .. Len(downlink) - 1 /\ m + 1 \in 1 .. Len(downlink) /\ 1 \in 1 .. Len(downlink)
        /\ 1 < m + 1
    BY DEF MovesUp
  <2>2. downlink'[m] = downlink[m + 1]
    BY <2>1 DEF MovesUp
  <2>3. ~Carries(m + 1, j, page, k)
    <3>1. SUFFICES ASSUME Carries(m + 1, j, page, k) PROVE FALSE
      OBVIOUS
    <3>2. ImageOf(downlink[m + 1]) = j /\ downlink[m + 1].pageIndex = page
          /\ downlink[m + 1].chunkIndex = k
      BY <3>1 DEF Carries
    <3>3. \/ page = 0 /\ 1 <= older
          \/ i = j /\ msg.chunkIndex # k
      BY <1>1, <2>1, <3>2 DEF OrderInv
    <3> QED
      BY <1>3, <3>3
  <2> QED
    BY <2>2, <2>3 DEF Carries
<1>6. Len(downlink') + 1 - 1 = Len(downlink')
  BY DEF MovesUp
<1> QED
  BY <1>4, <1>5, <1>6 DEF Spent, SpentBefore, ChunksOf

\* ... and a message of a later page is not under way, nor a chunk of one taken.
LEMMA LaterIsSpent ==
  ASSUME DeviceType, OrderInv, MovesUp, NEW msg \in Msgs, msg = downlink[1], Unmixed(msg),
         NEW q \in Pages, msg.pageIndex < q
  PROVE  AllSpent(q)'
<1> DEFINE w == msg.pageIndex
<1>1. PICK i \in Images : i = ImageOf(msg) /\ w \in PagesOf(i)
  BY MsgSays
<1> SUFFICES ASSUME NEW j \in Images, q \in PagesOf(j) PROVE Spent(j, q)'
  BY DEF AllSpent, PagesOf
<1>2. 0 \in ChunksOf(j, q) /\ 0 \in Chunks
  BY PageFacts
<1>3. Missing(j, q, 0)'
  BY <1>2 DEF Unmixed, PageComplete, PrepForNewPage, NO_CHUNKS_PROCESSED, Missing, Held
<1>4. ASSUME NEW m \in 1 .. Len(downlink') PROVE ~Carries(m, j, q, 0)'
  <2>1. m \in 1 .. Len(downlink) - 1 /\ m + 1 \in 1 .. Len(downlink)
        /\ m + 1 \in Nat /\ m + 1 >= 2
    BY DEF MovesUp
  <2>2. downlink'[m] = downlink[m + 1]
    BY <2>1 DEF MovesUp
  <2>3. downlink[m + 1].pageIndex # q
    <3>1. SUFFICES ASSUME downlink[m + 1].pageIndex = q PROVE FALSE
      OBVIOUS
    <3>2. SpentBefore(i, w, m + 1)
      BY <1>1, <2>1, <3>1 DEF OrderInv
    <3> QED
      BY <1>1, <2>1, <3>2, CompletesUnspent
  <2> QED
    BY <2>2, <2>3 DEF Carries
<1>5. Len(downlink') + 1 - 1 = Len(downlink')
  BY DEF MovesUp
<1> QED
  BY <1>2, <1>3, <1>4, <1>5 DEF Spent, SpentBefore, ChunksOf

-----------------------------------------------------------------------------
\* The order of the messages survives the loss or the delivery of the first.
LEMMA OrderMovesUp ==
  ASSUME TypeInv, OrderInv, MovesUp, StillMissing, older' = OneLess(older)
  PROVE  OrderInv'
<1>0. Len(downlink) \in Nat \ {0} /\ Len(downlink') = Len(downlink) - 1 /\ older \in Nat
  BY DEF MovesUp, TypeInv, HistoryType
<1>1. ASSUME NEW n \in 1 .. Len(downlink'), NEW image \in Images, NEW p \in PagesOf(image),
             p < downlink'[n].pageIndex
      PROVE  SpentBefore(image, p, n)'
  <2>1. n \in 1 .. Len(downlink) - 1 /\ n \in 1 .. Len(downlink) /\ n + 1 \in 1 .. Len(downlink)
    BY <1>0
  <2>2. downlink'[n] = downlink[n + 1]
    BY <2>1 DEF MovesUp
  <2>3. SpentBefore(image, p, n + 1)
    BY <1>1, <2>1, <2>2 DEF OrderInv
  <2> QED
    BY <2>1, <2>3, SpentMovesUp
<1>2. ASSUME NEW m \in 1 .. Len(downlink'), NEW n \in 1 .. Len(downlink'), m < n,
             downlink'[m].pageIndex = downlink'[n].pageIndex
      PROVE  \/ downlink'[n].pageIndex = 0 /\ m <= older'
             \/ /\ ImageOf(downlink'[m]) = ImageOf(downlink'[n])
                /\ downlink'[m].chunkIndex # downlink'[n].chunkIndex
  <2>1. /\ m \in 1 .. Len(downlink) - 1 /\ m + 1 \in 1 .. Len(downlink)
        /\ n \in 1 .. Len(downlink) - 1 /\ n + 1 \in 1 .. Len(downlink)
        /\ m + 1 < n + 1
    BY <1>0, <1>2
  <2>2. downlink'[n] = downlink[n + 1] /\ downlink'[m] = downlink[m + 1]
    BY <2>1 DEF MovesUp
  <2>3. \/ downlink[n + 1].pageIndex = 0 /\ m + 1 <= older
        \/ /\ ImageOf(downlink[m + 1]) = ImageOf(downlink[n + 1])
           /\ downlink[m + 1].chunkIndex # downlink[n + 1].chunkIndex
    BY <1>2, <2>1, <2>2 DEF OrderInv
  <2>4. m + 1 <= older => m <= OneLess(older)
    BY <1>0, <2>1 DEF OneLess
  <2> QED
    BY <2>2, <2>3, <2>4
<1> QED
  BY <1>1, <1>2 DEF OrderInv, ImageOf, PagesOf

\* What holds of every step that leaves flash alone and lets no page come back.
LEMMA BlockStays ==
  ASSUME BlockInv, flash' = flash,
         \A image \in Images : \A p \in PagesOf(image) : Spent(image, p) => Spent(image, p)'
  PROVE  BlockInv'
<1>1. \A image, p : (HoldsPage(image, p)' <=> HoldsPage(image, p)) /\ (IsBlank(p)' <=> IsBlank(p))
  BY SameFlash
<1> QED
  BY <1>1 DEF BlockInv, PagesOf, Earlier, SameEraseBlock

\* The first page of a block is the one that may be written over what it holds.
LEMMA LaterIsBlank ==
  ASSUME BlockInv, NEW image \in Images, NEW p \in Pages, NEW q \in PagesOf(image),
         Earlier(p, q), ~Spent(image, q)
  PROVE  IsBlank(q) /\ HoldsPage(image, p)
<1>1. q \in Pages
  BY PageFacts
<1> QED
  BY <1>1 DEF BlockInv

\* After a page is written the later ones of its block are blank.
LEMMA RestIsBlank ==
  ASSUME DeviceType, BlockInv, NEW msg \in Msgs, Unmixed(msg),
         NEW q \in Pages, Earlier(msg.pageIndex, q)
  PROVE  IsBlank(q)'
<1> DEFINE w == msg.pageIndex
<1>1. w \in Pages /\ w \in Nat /\ q \in Nat
  BY MsgSays, Partition
<1>2. w # q /\ SameEraseBlock(w, q)
  BY <1>1 DEF Earlier
<1>3. CASE IsBlank(w)
  <2>1. IsBlank(q)
    BY <1>1, <1>3 DEF BlockInv
  <2> QED
    BY <1>2, <1>3, <2>1, CompletedPage
<1>4. CASE ~IsBlank(w)
  BY <1>2, <1>4, CompletedPage
<1> QED
  BY <1>3, <1>4

\* A page that is written erases none before it.
LEMMA EarlierStays ==
  ASSUME DeviceType, BlockInv, MovesUp, NEW msg \in Msgs, msg = downlink[1], Unmixed(msg),
         NEW p \in Pages, p < msg.pageIndex
  PROVE  \A image : HoldsPage(image, p)' <=> HoldsPage(image, p)
<1> DEFINE w == msg.pageIndex
<1>1. PICK i \in Images : i = ImageOf(msg) /\ w \in PagesOf(i)
  BY MsgSays
<1>2. p \in Nat /\ w \in Nat /\ p # w
  BY MsgSays, Partition
<1>3. ~Spent(i, w)
  BY <1>1, CompletesNotSpent
<1>4. IsBlank(w) \/ ~SameEraseBlock(w, p)
  <2>1. Earlier(p, w) \/ ~SameEraseBlock(w, p)
    BY DEF Earlier, SameEraseBlock
  <2> QED
    BY <1>1, <1>3, <2>1, LaterIsBlank
<1> QED
  BY <1>2, <1>4, CompletedPage

LEMMA BlockCompletes ==
  ASSUME DeviceType, BlockInv, OrderInv, MovesUp, StillMissing,
         NEW msg \in Msgs, msg = downlink[1], Unmixed(msg)
  PROVE  BlockInv'
<1> DEFINE w == msg.pageIndex
<1>0. PICK i \in Images : i = ImageOf(msg) /\ w \in PagesOf(i) /\ w \in Pages /\ w \in Nat
  BY MsgSays
<1>1. \A image \in Images : \A p \in PagesOf(image) : Spent(image, p) => Spent(image, p)'
  BY SpentMovesUp
<1>2. ~Spent(i, w)
  BY <1>0, CompletesNotSpent
<1>3. HoldsPage(i, w)' /\ ~IsBlank(w)'
  BY <1>0, CompletedPage
<1> SUFFICES ASSUME NEW p \in Pages, NEW q \in Pages, Earlier(p, q)
             PROVE  /\ ~IsBlank(p)' \/ IsBlank(q)'
                    /\ \A image \in Images : q \in PagesOf(image) =>
                         Spent(image, q)' \/ (IsBlank(q)' /\ HoldsPage(image, p)')
  BY DEF BlockInv, PagesOf, Earlier, SameEraseBlock
<1>4. p \in Nat /\ q \in Nat /\ p < q /\ SameEraseBlock(p, q)
  BY Partition DEF Earlier
<1>5. CASE q = w
  <2>1. IsBlank(w) /\ HoldsPage(i, p) /\ p \in PagesOf(i) /\ p # w
    BY <1>0, <1>2, <1>4, <1>5, LaterIsBlank, PagesBefore
  <2>2. HoldsPage(i, p)'
    BY <1>4, <1>5, <2>1, EarlierStays
  <2>3. ~IsBlank(p)'
    BY <2>1, <2>2, HeldIsNotBlank DEF HoldsPage, IsBlank, ChunksOf
  <2>4. AllSpent(w)'
    BY <1>4, <1>5, CompletesSpent
  <2> QED
    BY <1>5, <2>3, <2>4 DEF AllSpent, PagesOf
<1>6. CASE p = w
  <2>1. IsBlank(q)'
    BY <1>6, RestIsBlank
  <2>2. AllSpent(q)'
    BY <1>4, <1>6, LaterIsSpent
  <2> QED
    BY <2>1, <2>2 DEF AllSpent, PagesOf
<1>7. CASE p # w /\ q # w /\ (IsBlank(w) \/ ~SameEraseBlock(w, p))
  <2>1. IsBlank(w) \/ ~SameEraseBlock(w, q)
    BY <1>4, <1>7 DEF SameEraseBlock
  <2>2. \A image : HoldsPage(image, p)' <=> HoldsPage(image, p)
    BY <1>7, CompletedPage
  <2>3. IsBlank(p)' <=> IsBlank(p)
    BY <1>7, CompletedPage
  <2>4. IsBlank(q)' <=> IsBlank(q)
    BY <1>7, <2>1, CompletedPage
  <2> QED
    BY <1>1, <2>2, <2>3, <2>4 DEF BlockInv
<1>8. CASE p # w /\ q # w /\ ~IsBlank(w) /\ SameEraseBlock(w, p)
  <2>1. ~Earlier(p, w)
    BY <1>0, <1>2, <1>8, LaterIsBlank
  <2>2. w < p /\ w < q /\ SameEraseBlock(w, q)
    BY <1>0, <1>4, <1>8, <2>1 DEF Earlier, SameEraseBlock
  <2>3. IsBlank(q)'
    BY <1>8, <2>2, CompletedPage
  <2>4. AllSpent(q)'
    BY <2>2, LaterIsSpent
  <2> QED
    BY <2>3, <2>4 DEF AllSpent, PagesOf
<1> QED
  BY <1>5, <1>6, <1>7, <1>8

-----------------------------------------------------------------------------
\* The lengths and counters are numbers.
LEMMA Numbers ==
  ASSUME TypeInv
  PROVE  /\ Len(downlink) \in Nat /\ Len(uplink) \in Nat
         /\ older \in Nat /\ older <= Len(downlink) /\ stale \in Nat /\ stale <= Len(uplink)
         /\ activePageIndex \in Nat /\ pages \in Images \cup {NoImage}
  BY LenProperties DEF TypeInv, DeviceType, UiType, HistoryType

\* A message that leaves without a page being written.
LEMMA UploadMovesUp ==
  ASSUME TypeInv, NEW image \in Images, UploadOf(image), StaleInv,
         MovesUp, StillMissing, flash' = flash,
         older' = OneLess(older), UNCHANGED activePageIndex,
         Len(uplink') \in Nat,
         \/ UNCHANGED <<uplink, stale>>
         \/ /\ stale' = (IF older > 0 THEN Len(uplink') ELSE stale)
            /\ Len(uplink') = Len(uplink) + 1
            /\ uplink'[Len(uplink')].status = "WRITE_FAIL"
            /\ \A n \in 1 .. Len(uplink) : uplink'[n] = uplink[n]
         \/ /\ stale' = (IF older > 0 THEN Len(uplink') ELSE stale)
            /\ uplink' = uplink
  PROVE  UploadOf(image)'
<1> DEFINE a == activePageIndex
<1>0. /\ Len(uplink) \in Nat /\ older \in Nat /\ stale \in Nat /\ stale <= Len(uplink)
      /\ a \in Nat /\ a' = a
  BY Numbers
<1>1. \A p : (HoldsPage(image, p)' <=> HoldsPage(image, p)) /\ (IsBlank(p)' <=> IsBlank(p))
  BY SameFlash
<1>2. \A p : (AllSpent(p) => AllSpent(p)') /\ (Counted(image, p) => Counted(image, p)')
  BY <1>1, AllSpentMovesUp DEF Counted
<1>3. a < PageCountOf[image]
  BY <1>0 DEF UploadOf
<1>4. a > 0 => older' = 0 /\ stale' = 0
  BY <1>0 DEF UploadOf, OneLess
<1>5. ASSUME NEW n \in older' + 1 .. Len(downlink')
      PROVE  ImageOf(downlink'[n]) = image /\ downlink'[n].pageIndex <= a
  <2>1. n + 1 \in older + 1 .. Len(downlink) /\ n \in 1 .. Len(downlink) - 1
    BY <1>0 DEF MovesUp, OneLess
  <2> QED
    BY <2>1 DEF MovesUp, UploadOf
<1>6. ASSUME NEW n \in stale' + 1 .. Len(uplink'), uplink'[n].status = "WRITE_SUCCESS"
      PROVE  n \in stale + 1 .. Len(uplink) /\ uplink'[n] = uplink[n]
  BY <1>0, <1>6 DEF StaleInv
<1>7. \A p \in PagesOf(image) : p < a => Counted(image, p)'
  BY <1>2 DEF UploadOf
<1>8. ASSUME NEW n \in stale' + 1 .. Len(uplink'), uplink'[n].status = "WRITE_SUCCESS"
      PROVE  /\ uplink'[n].pageIndex <= a
             /\ uplink'[n].pageIndex = a =>
                  /\ Counted(image, activePageIndex)'
                  /\ \A q \in Pages : Earlier(a, q) => IsBlank(q)'
                  /\ \A q \in Pages : a < q => AllSpent(q)'
  <2>1. n \in stale + 1 .. Len(uplink) /\ uplink'[n] = uplink[n]
    BY <1>6, <1>8
  <2>2. /\ uplink[n].pageIndex <= a
        /\ uplink[n].pageIndex = a =>
             /\ Counted(image, a)
             /\ \A q \in Pages : Earlier(a, q) => IsBlank(q)
             /\ \A q \in Pages : a < q => AllSpent(q)
    BY <1>8, <2>1 DEF UploadOf
  <2>3. uplink[n].pageIndex = a => Counted(image, a)' /\ \A q \in Pages : a < q => AllSpent(q)'
    BY <1>2, <2>2
  <2>4. Counted(image, a)' <=> Counted(image, activePageIndex)'
    BY <1>0
  <2> QED
    BY <1>1, <2>1, <2>2, <2>3, <2>4
<1> QED
  BY <1>0, <1>3, <1>4, <1>5, <1>7, <1>8
  DEF UploadOf, PagesOf, Earlier, SameEraseBlock, ImageOf

\* A page that is completed while an upload is under way, and no message of an earlier
\* one, is the page the widget waits for.
LEMMA UploadCompletes ==
  ASSUME TypeInv, BlockInv, OrderInv, NEW image \in Images, UploadOf(image), StaleInv,
         MovesUp, StillMissing, older' = OneLess(older),
         NEW msg \in Msgs, msg = downlink[1], Unmixed(msg),
         UNCHANGED activePageIndex,
         stale' = (IF older > 0 THEN Len(uplink') ELSE stale)
  PROVE  UploadOf(image)'
<1> DEFINE w == msg.pageIndex
<1>0. /\ Len(uplink) \in Nat /\ older \in Nat /\ stale \in Nat /\ stale <= Len(uplink)
      /\ activePageIndex \in Nat /\ activePageIndex' = activePageIndex
      /\ Len(downlink) \in Nat \ {0} /\ DeviceType
  BY Numbers DEF MovesUp, TypeInv
<1>1. PICK i \in Images : i = ImageOf(msg) /\ w \in PagesOf(i) /\ w \in Nat /\ w \in Pages
  BY MsgSays
<1>2. PICK a \in Nat : a = activePageIndex /\ a' = a
  BY <1>0
<1>3. a < PageCountOf[image] /\ a \in PagesOf(image) /\ PagesOf(image) \subseteq Nat
      /\ PagesOf(image) \subseteq Pages
  BY <1>2, PageFacts DEF UploadOf, PagesOf
<1>4. /\ Len(uplink') = Len(uplink) + 1
      /\ uplink'[Len(uplink')].pageIndex = w
      /\ \A n \in 1 .. Len(uplink) : uplink'[n] = uplink[n]
  <2>1. uplink' = Append(uplink, PageStatus(w, "WRITE_SUCCESS"))
    BY DEF Unmixed, PageComplete, PrepForNewPage
  <2>2. /\ Len(uplink') = Len(uplink) + 1
        /\ uplink'[Len(uplink')] = PageStatus(w, "WRITE_SUCCESS")
        /\ \A n \in 1 .. Len(uplink) : uplink'[n] = uplink[n]
    BY <1>0, <1>1, <2>1, Answered DEF DeviceType
  <2> QED
    BY <2>1, <2>2 DEF PageStatus
<1>5. ~AllSpent(w)
  BY <1>0, <1>1, CompletesNotSpent
<1>6. a > 0 => older = 0 /\ older' = 0 /\ stale' = 0
  BY <1>0, <1>2 DEF UploadOf, OneLess
<1>7. ASSUME older = 0 PROVE w <= a /\ i = image /\ AllSpent(w)'
  <2>1. 1 \in older + 1 .. Len(downlink)
    BY <1>0, <1>7
  <2> QED
    BY <1>0, <1>1, <1>2, <1>7, <2>1, CompletesSpent DEF UploadOf
<1>8. ASSUME older = 0 PROVE w = a
  <2>1. w <= a /\ w \in PagesOf(image)
    BY <1>1, <1>7, <1>8
  <2>2. ~(w < a)
    BY <1>2, <1>5, <2>1 DEF UploadOf, Counted
  <2> QED
    BY <1>1, <2>1, <2>2
<1>9. ASSUME NEW p \in PagesOf(image), p < a PROVE Counted(image, p)'
  <2>1. Counted(image, p)
    BY <1>2, <1>9 DEF UploadOf
  <2>2. p \in Pages /\ p < w
    BY <1>3, <1>6, <1>8, <1>9
  <2>3. HoldsPage(image, p)'
    BY <1>0, <2>1, <2>2, EarlierStays DEF Counted
  <2> QED
    BY <2>1, <2>3, AllSpentMovesUp DEF Counted
<1>10. ASSUME NEW n \in stale' + 1 .. Len(uplink'), uplink'[n].status = "WRITE_SUCCESS"
      PROVE  /\ uplink'[n].pageIndex <= a
             /\ uplink'[n].pageIndex = a =>
                  /\ Counted(image, a)'
                  /\ \A q \in Pages : Earlier(a, q) => IsBlank(q)'
                  /\ \A q \in Pages : a < q => AllSpent(q)'
  <2>1. older = 0 /\ stale' = stale /\ w = a
    BY <1>0, <1>4, <1>8, <1>10
  <2>2. CASE n = Len(uplink')
    <3>1. uplink'[n].pageIndex = a
      BY <1>4, <2>1, <2>2
    <3>2. HoldsPage(image, a)' /\ AllSpent(a)'
      BY <1>0, <1>1, <1>7, <2>1, CompletedPage
    <3>3. \A q \in Pages : Earlier(a, q) => IsBlank(q)'
      BY <1>0, <2>1, RestIsBlank
    <3>4. \A q \in Pages : a < q => AllSpent(q)'
      BY <1>0, <2>1, LaterIsSpent
    <3> QED
      BY <3>1, <3>2, <3>3, <3>4 DEF Counted
  <2>3. CASE n # Len(uplink')
    <3>1. n \in stale + 1 .. Len(uplink) /\ n \in 1 .. Len(uplink)
      BY <1>0, <1>4, <1>10, <2>1, <2>3
    <3>2. uplink'[n] = uplink[n]
      BY <1>4, <3>1
    <3>3. /\ uplink[n].pageIndex <= a
          /\ uplink[n].pageIndex = a => Counted(image, a)
      BY <1>2, <1>10, <3>1, <3>2 DEF UploadOf
    <3>4. ~Counted(image, a)
      BY <1>5, <2>1 DEF Counted
    <3> QED
      BY <3>2, <3>3, <3>4
  <2> QED
    BY <2>2, <2>3
<1>11. ASSUME NEW n \in older' + 1 .. Len(downlink')
       PROVE  ImageOf(downlink'[n]) = image /\ downlink'[n].pageIndex <= a
  <2>1. n + 1 \in older + 1 .. Len(downlink) /\ n \in 1 .. Len(downlink) - 1
    BY <1>0 DEF MovesUp, OneLess
  <2> QED
    BY <1>2, <2>1 DEF MovesUp, UploadOf
<1>12. activePageIndex' = a
  BY <1>0, <1>2
<1> QED
  BY <1>3, <1>6, <1>9, <1>10, <1>11, <1>12
  DEF UploadOf, PagesOf, Earlier, SameEraseBlock, ImageOf

-----------------------------------------------------------------------------
LEMMA SavedDelivery ==
  ASSUME TypeInv, SavedInv, DeliverChunk
  PROVE  SavedInv'
<1> SUFFICES ASSUME ~misled, ~mixed' PROVE SavedInv'
  BY DEF SavedInv, DeliverChunk
<1>0. /\ DeviceType /\ UiType /\ ~mixed
      /\ BlockInv /\ OrderInv /\ UploadInv /\ DoneInv /\ StaleInv
  BY DEF SavedInv, TypeInv, DeliverChunk
<1>1. /\ downlink # <<>> /\ downlink' = Tail(downlink) /\ older' = OneLess(older)
      /\ stale' = (IF older > 0 THEN Len(uplink') ELSE stale)
      /\ UNCHANGED <<pages, activePageIndex, progress, misled>>
  BY DEF DeliverChunk, uiVars
<1>2. PICK msg \in Msgs :
        /\ msg = downlink[1] /\ HandleImageData(msg)
        /\ Completes(msg) => OfOneImage(msg)
  BY <1>0, <1>1, Oldest DEF UiType, DeliverChunk
<1>3. MovesUp
  BY <1>0, <1>1, Oldest DEF UiType, MovesUp
<1>4. StillMissing
  BY <1>0, <1>2, MissingAfter
<1>5. OrderInv'
  BY <1>0, <1>1, <1>3, <1>4, OrderMovesUp
<1>6. StaleInv'
  BY <1>0, <1>1, Numbers DEF StaleInv, OneLess
<1>7. /\ \A image \in Images : \A p \in PagesOf(image) : Spent(image, p) => Spent(image, p)'
      /\ \A p : AllSpent(p) => AllSpent(p)'
  BY <1>3, <1>4, SpentMovesUp, AllSpentMovesUp
<1>8. CASE Unmixed(msg)
  <2>1. BlockInv'
    BY <1>0, <1>2, <1>3, <1>4, <1>8, BlockCompletes
  <2>2. UploadInv'
    <3>1. SUFFICES ASSUME NEW image \in Images, pages = image PROVE UploadOf(image)'
      BY <1>1 DEF UploadInv
    <3>2. UploadOf(image)
      BY <1>0, <3>1 DEF UploadInv
    <3> QED
      BY <1>0, <1>1, <1>2, <1>3, <1>4, <1>8, <3>2, UploadCompletes
  <2>3. progress # "Upload complete"
    <3>1. ~AllSpent(msg.pageIndex) /\ msg.pageIndex \in Pages
      BY <1>0, <1>2, <1>3, <1>8, CompletesNotSpent, MsgSays
    <3> QED
      BY <1>0, <3>1 DEF DoneInv
  <2>4. DoneInv'
    BY <1>1, <2>3 DEF DoneInv
  <2> QED
    BY <1>5, <1>6, <2>1, <2>2, <2>4 DEF SavedInv
<1>9. CASE flash' = flash /\ (uplink' = uplink \/ RejectMsg)
  <2>1. BlockInv'
    BY <1>0, <1>7, <1>9, BlockStays
  <2>2. Len(uplink) \in Nat
    BY Numbers
  <2>3. DoneInv'
    <3>1. \A image, p : HoldsPage(image, p)' <=> HoldsPage(image, p)
      BY <1>9, SameFlash
    <3> QED
      BY <1>0, <1>1, <1>7, <3>1 DEF DoneInv, AnImageIsSaved, HoldsImage
  <2>4. /\ Len(uplink') \in Nat
        /\ \/ uplink' = uplink
           \/ /\ Len(uplink') = Len(uplink) + 1
              /\ uplink'[Len(uplink')].status = "WRITE_FAIL"
              /\ \A n \in 1 .. Len(uplink) : uplink'[n] = uplink[n]
    <3>1. CASE uplink' = uplink
      BY <2>2, <3>1
    <3>2. CASE RejectMsg
      <4>1. uplink' = Append(uplink, PageStatus(activePage, "WRITE_FAIL"))
        BY <3>2 DEF RejectMsg, PrepForNewPage
      <4>2. /\ Len(uplink') = Len(uplink) + 1
            /\ uplink'[Len(uplink')] = PageStatus(activePage, "WRITE_FAIL")
            /\ \A n \in 1 .. Len(uplink) : uplink'[n] = uplink[n]
        BY <1>0, <4>1, Answered DEF DeviceType
      <4> QED
        BY <2>2, <4>2 DEF PageStatus
    <3> QED
      BY <1>9, <3>1, <3>2
  <2>5. UploadInv'
    <3>1. SUFFICES ASSUME NEW image \in Images, pages = image PROVE UploadOf(image)'
      BY <1>1 DEF UploadInv
    <3>2. UploadOf(image)
      BY <1>0, <3>1 DEF UploadInv
    <3> QED
      BY <1>0, <1>1, <1>3, <1>4, <1>9, <2>4, <3>2, UploadMovesUp
  <2> QED
    BY <1>5, <1>6, <2>1, <2>3, <2>5 DEF SavedInv
<1> QED
  BY <1>2, <1>8, <1>9 DEF HandleImageData, Completes, Unmixed, PageIncomplete, RejectMsg

LEMMA SavedLoss ==
  ASSUME TypeInv, SavedInv, LoseChunk
  PROVE  SavedInv'
<1> SUFFICES ASSUME ~misled, ~mixed PROVE SavedInv'
  BY DEF SavedInv, LoseChunk
<1>0. /\ UiType
      /\ BlockInv /\ OrderInv /\ UploadInv /\ DoneInv /\ StaleInv
  BY DEF SavedInv, TypeInv
<1>1. /\ downlink # <<>> /\ downlink' = Tail(downlink) /\ older' = OneLess(older)
      /\ UNCHANGED <<pages, activePageIndex, progress, misled, uplink, stale, flash,
                     chunksPending, activePage, pageBuffer>>
  BY DEF LoseChunk, uiVars, deviceVars
<1>2. MovesUp
  BY <1>0, <1>1, Oldest DEF UiType, MovesUp
<1>3. StillMissing
  BY <1>1 DEF StillMissing, Missing, Held, ChunksOf
<1>4. OrderInv'
  BY <1>1, <1>0, <1>2, <1>3, OrderMovesUp
<1>5. Len(uplink) \in Nat /\ older \in Nat /\ stale \in Nat
  BY Numbers
<1>6. StaleInv'
  BY <1>0, <1>1, <1>5 DEF StaleInv, OneLess
<1>7. /\ \A image \in Images : \A p \in PagesOf(image) : Spent(image, p) => Spent(image, p)'
      /\ \A p : AllSpent(p) => AllSpent(p)'
  BY <1>2, <1>3, SpentMovesUp, AllSpentMovesUp
<1>8. BlockInv'
  BY <1>0, <1>1, <1>7, BlockStays
<1>9. Len(uplink') \in Nat
  BY <1>1, <1>5
<1>10. UploadInv'
  <2>1. SUFFICES ASSUME NEW image \in Images, pages = image PROVE UploadOf(image)'
    BY <1>1 DEF UploadInv
  <2>2. UploadOf(image)
    BY <1>0, <2>1 DEF UploadInv
  <2> QED
    BY <1>0, <1>1, <1>2, <1>3, <1>9, <2>2, UploadMovesUp
<1>11. DoneInv'
  <2>1. \A image, p : HoldsPage(image, p)' <=> HoldsPage(image, p)
    BY <1>1, SameFlash
  <2> QED
    BY <1>0, <1>1, <1>7, <2>1 DEF DoneInv, AnImageIsSaved, HoldsImage
<1> QED
  BY <1>4, <1>6, <1>8, <1>10, <1>11 DEF SavedInv

-----------------------------------------------------------------------------
\* Messages that are sent make no other page come back.
LEMMA SpentUnderSend ==
  ASSUME TypeInv, NEW i \in Images, NEW sent \in PagesOf(i), SendPage(i, sent),
         UNCHANGED <<chunksPending, activePage, pageBuffer>>,
         NEW image \in Images, NEW p \in PagesOf(image)
  PROVE  /\ \A n \in 1 .. Len(downlink) :
              SpentBefore(image, p, n) => SpentBefore(image, p, n)'
         /\ (p # sent \/ image # i) /\ Spent(image, p) =>
              \A n \in Len(downlink) + 1 .. Len(downlink') + 1 : SpentBefore(image, p, n)'
         /\ (p # sent \/ image # i) /\ Spent(image, p) => Spent(image, p)'
<1>0. Len(downlink) \in Nat /\ UiType
  BY Numbers DEF TypeInv
<1>1. sent \in Nat /\ sent < PageCountOf[i] /\ ChunkCountOf(i, sent) \in Nat
  BY PageFacts DEF PagesOf
<1>2. /\ Len(downlink') = Len(downlink) + ChunkCountOf(i, sent)
      /\ \A n \in 1 .. Len(downlink) : downlink'[n] = downlink[n]
      /\ \A n \in Len(downlink) + 1 .. Len(downlink') :
           downlink'[n] = ImageData(i, sent, n - Len(downlink) - 1)
  BY <1>0, <1>1, Sent
<1>3. Len(downlink') \in Nat
  BY <1>0, <1>1, <1>2
<1>m. \A k : Missing(image, p, k) => Missing(image, p, k)'
  BY DEF Missing, Held, ChunksOf
<1>4. ASSUME NEW n \in 1 .. Len(downlink), SpentBefore(image, p, n)
      PROVE  SpentBefore(image, p, n)'
  <2>1. PICK k \in ChunksOf(image, p) :
          Missing(image, p, k) /\ \A m \in 1 .. n - 1 : ~Carries(m, image, p, k)
    BY <1>4 DEF SpentBefore
  <2>2. Missing(image, p, k)'
    BY <1>m, <2>1
  <2>3. \A m \in 1 .. n - 1 : ~Carries(m, image, p, k)'
    BY <1>0, <1>2, <2>1 DEF Carries
  <2> QED
    BY <2>2, <2>3 DEF SpentBefore, ChunksOf
<1>5. ASSUME p # sent \/ image # i, Spent(image, p),
             NEW n \in Len(downlink) + 1 .. Len(downlink') + 1
      PROVE  SpentBefore(image, p, n)'
  <2>1. PICK k \in ChunksOf(image, p) :
          Missing(image, p, k)
          /\ \A m \in 1 .. (Len(downlink) + 1) - 1 : ~Carries(m, image, p, k)
    BY <1>5 DEF Spent, SpentBefore
  <2>2. Missing(image, p, k)'
    BY <1>m, <2>1
  <2>3. ASSUME NEW m \in 1 .. n - 1 PROVE ~Carries(m, image, p, k)'
    <3>1. CASE m <= Len(downlink)
      BY <1>0, <1>2, <1>3, <2>1, <3>1 DEF Carries
    <3>2. CASE m > Len(downlink)
      <4>1. m \in Len(downlink) + 1 .. Len(downlink')
        BY <1>0, <1>3, <3>2
      <4>2. downlink'[m] = ImageData(i, sent, m - Len(downlink) - 1)
        BY <1>2, <4>1
      <4>3. downlink'[m].pageIndex = sent /\ ImageOf(downlink'[m]) = i
        BY <4>2 DEF ImageData, ImageOf, Bytes
      <4> QED
        BY <1>5, <4>3 DEF Carries, ImageOf
    <3> QED
      BY <1>0, <1>3, <3>1, <3>2
  <2> QED
    BY <2>2, <2>3 DEF SpentBefore, ChunksOf
<1>6. ASSUME p # sent \/ image # i, Spent(image, p) PROVE Spent(image, p)'
  <2>1. PICK n \in Len(downlink) + 1 .. Len(downlink') + 1 : n = Len(downlink') + 1
    BY <1>0, <1>1, <1>2, <1>3
  <2>2. SpentBefore(image, p, n)'
    BY <1>5, <1>6
  <2> QED
    BY <2>1, <2>2 DEF Spent, SpentBefore
<1> QED
  BY <1>4, <1>5, <1>6

LEMMA AllSpentUnderSend ==
  ASSUME TypeInv, NEW i \in Images, NEW sent \in PagesOf(i), SendPage(i, sent),
         UNCHANGED <<chunksPending, activePage, pageBuffer>>,
         NEW p, p # sent, AllSpent(p)
  PROVE  AllSpent(p)'
  BY SpentUnderSend DEF AllSpent, PagesOf

\* The order of the messages survives a page that is sent, if the earlier pages are spent
\* and, for a later page than the first, nothing of that page is under way.
LEMMA OrderUnderSend ==
  ASSUME TypeInv, OrderInv, NEW i \in Images, NEW sent \in PagesOf(i), SendPage(i, sent),
         UNCHANGED <<chunksPending, activePage, pageBuffer>>,
         \A p \in Nat : p < sent => AllSpent(p),
         \/ sent = 0 /\ older' = Len(downlink)
         \/ /\ older' = older
            /\ \A n \in 1 .. Len(downlink) : downlink[n].pageIndex < sent
  PROVE  OrderInv'
<1>0. Len(downlink) \in Nat /\ UiType /\ older \in Nat /\ older <= Len(downlink)
  BY Numbers DEF TypeInv
<1>1. sent \in Nat /\ sent < PageCountOf[i] /\ ChunkCountOf(i, sent) \in Nat
  BY PageFacts DEF PagesOf
<1>2. /\ Len(downlink') = Len(downlink) + ChunkCountOf(i, sent)
      /\ \A n \in 1 .. Len(downlink) : downlink'[n] = downlink[n]
      /\ \A n \in Len(downlink) + 1 .. Len(downlink') :
           downlink'[n] = ImageData(i, sent, n - Len(downlink) - 1)
  BY <1>0, <1>1, Sent
<1>3. Len(downlink') \in Nat
  BY <1>0, <1>1, <1>2
<1>4. ASSUME NEW n \in Len(downlink) + 1 .. Len(downlink')
      PROVE  /\ downlink'[n].pageIndex = sent /\ downlink'[n].chunkIndex = n - Len(downlink) - 1
             /\ ImageOf(downlink'[n]) = i
  <2>1. downlink'[n] = ImageData(i, sent, n - Len(downlink) - 1)
    BY <1>2
  <2> QED
    BY <2>1 DEF ImageData, ImageOf, Bytes
<1>5. ASSUME NEW n \in 1 .. Len(downlink'), NEW image \in Images, NEW p \in PagesOf(image),
             p < downlink'[n].pageIndex
      PROVE  SpentBefore(image, p, n)'
  <2>1. CASE n <= Len(downlink)
    <3>1. n \in 1 .. Len(downlink) /\ downlink'[n] = downlink[n]
      BY <1>0, <1>2, <1>3, <2>1
    <3>2. SpentBefore(image, p, n)
      BY <1>5, <3>1 DEF OrderInv
    <3> QED
      BY <3>1, <3>2, SpentUnderSend
  <2>2. CASE n > Len(downlink)
    <3>1. n \in Len(downlink) + 1 .. Len(downlink') /\ n \in Len(downlink) + 1 .. Len(downlink') + 1
      BY <1>0, <1>3, <2>2
    <3>2. p \in Nat /\ p < sent /\ p # sent
      BY <1>1, <1>4, <1>5, <3>1, PageFacts
    <3>3. Spent(image, p)
      BY <3>2 DEF AllSpent
    <3> QED
      BY <3>1, <3>2, <3>3, SpentUnderSend
  <2> QED
    BY <1>0, <1>3, <2>1, <2>2
<1>6. ASSUME NEW m \in 1 .. Len(downlink'), NEW n \in 1 .. Len(downlink'), m < n,
             downlink'[m].pageIndex = downlink'[n].pageIndex
      PROVE  \/ downlink'[n].pageIndex = 0 /\ m <= older'
             \/ /\ ImageOf(downlink'[m]) = ImageOf(downlink'[n])
                /\ downlink'[m].chunkIndex # downlink'[n].chunkIndex
  <2>1. CASE n <= Len(downlink)
    <3>1. n \in 1 .. Len(downlink) /\ m \in 1 .. Len(downlink)
      BY <1>0, <1>3, <1>6, <2>1
    <3>2. downlink'[n] = downlink[n] /\ downlink'[m] = downlink[m]
      BY <1>2, <3>1
    <3>3. \/ downlink[n].pageIndex = 0 /\ m <= older
          \/ /\ ImageOf(downlink[m]) = ImageOf(downlink[n])
             /\ downlink[m].chunkIndex # downlink[n].chunkIndex
      BY <1>6, <3>1, <3>2 DEF OrderInv
    <3>4. m <= older => m <= older'
      BY <1>0, <3>1
    <3> QED
      BY <3>2, <3>3, <3>4
  <2>2. CASE n > Len(downlink) /\ m > Len(downlink)
    <3>1. /\ n \in Len(downlink) + 1 .. Len(downlink') /\ m \in Len(downlink) + 1 .. Len(downlink')
      BY <1>0, <1>3, <2>2
    <3>2. m - Len(downlink) - 1 # n - Len(downlink) - 1
      BY <1>0, <1>6, <3>1
    <3> QED
      BY <1>4, <3>1, <3>2
  <2>3. CASE n > Len(downlink) /\ m <= Len(downlink)
    <3>1. n \in Len(downlink) + 1 .. Len(downlink') /\ m \in 1 .. Len(downlink)
      BY <1>0, <1>3, <2>3
    <3>2. downlink'[n].pageIndex = sent /\ downlink[m].pageIndex = sent
      BY <1>2, <1>4, <1>6, <3>1
    <3>3. sent = 0 /\ older' = Len(downlink)
      BY <1>1, <3>1, <3>2
    <3> QED
      BY <1>0, <3>1, <3>2, <3>3
  <2> QED
    BY <1>0, <1>3, <2>1, <2>2, <2>3
<1> QED
  BY <1>5, <1>6 DEF OrderInv, PagesOf, ImageOf

-----------------------------------------------------------------------------
LEMMA SavedSubmit ==
  ASSUME TypeInv, SavedInv, NEW image \in Images, Submit(image)
  PROVE  SavedInv'
<1> SUFFICES ASSUME ~misled, ~mixed PROVE SavedInv'
  BY DEF SavedInv, Submit
<1>0. BlockInv /\ OrderInv /\ UiType
  BY DEF SavedInv, TypeInv
<1>1. /\ SendPage(image, 0) /\ pages' = image /\ activePageIndex' = 0
      /\ progress' = "Upload in progress"
      /\ older' = Len(downlink) /\ stale' = Len(uplink)
      /\ UNCHANGED <<chunksPending, activePage, pageBuffer, flash, uplink>>
  BY DEF Submit, HandleSubmit, deviceVars
<1>2. Len(downlink) \in Nat /\ Len(uplink) \in Nat
  BY Numbers
<1>3. 0 \in PagesOf(image) /\ PagesOf(image) \subseteq Nat /\ 0 < PageCountOf[image]
  BY PageFacts DEF PagesOf
<1>4. OrderInv'
  <2>1. \A p \in Nat : ~(p < 0)
    OBVIOUS
  <2> QED
    BY <1>0, <1>1, <1>3, <2>1, OrderUnderSend
<1>5. BlockInv'
  <2>1. \A i \in Images : \A p \in PagesOf(i) : p # 0 /\ Spent(i, p) => Spent(i, p)'
    BY <1>1, <1>3, SpentUnderSend
  <2>2. \A i, p : (HoldsPage(i, p)' <=> HoldsPage(i, p)) /\ (IsBlank(p)' <=> IsBlank(p))
    BY <1>1, SameFlash
  <2>3. ASSUME NEW p \in Pages, NEW q \in Pages, Earlier(p, q)
        PROVE  q # 0
    BY <2>3, Partition DEF Earlier
  <2> QED
    BY <1>0, <2>1, <2>2, <2>3 DEF BlockInv, PagesOf, Earlier, SameEraseBlock
<1>6. UploadOf(image)'
  <2>1. \A n \in older' + 1 .. Len(downlink') :
          ImageOf(downlink'[n]) = image /\ downlink'[n].pageIndex <= 0
    <3>1. TAKE n \in older' + 1 .. Len(downlink')
    <3>2. downlink'[n] = ImageData(image, 0, n - Len(downlink) - 1)
      BY <1>0, <1>1, <1>3, Sent
    <3> QED
      BY <3>2 DEF ImageData, ImageOf, Bytes
  <2>2. \A n \in stale' + 1 .. Len(uplink') : FALSE
    <3>1. stale' = Len(uplink) /\ Len(uplink') = Len(uplink)
      BY <1>1
    <3> QED
      BY <1>2, <3>1
  <2>3. \A p \in PagesOf(image) : ~(p < 0)
    BY <1>3
  <2> QED
    BY <1>1, <1>3, <2>1, <2>2, <2>3 DEF UploadOf, PagesOf, ImageOf
<1>7. UploadInv'
  BY <1>1, <1>6 DEF UploadInv
<1>8. DoneInv' /\ StaleInv'
  BY <1>1 DEF DoneInv, StaleInv
<1> QED
  BY <1>4, <1>5, <1>7, <1>8 DEF SavedInv

\* A status that is taken, or lost, and the bookkeeping of those that stay.
LEMMA StatusesMoveUp ==
  ASSUME TypeInv, StaleInv, uplink # <<>>, older' = older,
         \/ uplink' = Tail(uplink) /\ stale' = OneLess(stale)
         \/ UNCHANGED <<uplink, stale>>
  PROVE  /\ StaleInv'
         /\ stale = 0 => stale' = 0
         /\ \A n \in stale' + 1 .. Len(uplink') :
              \E m \in stale + 1 .. Len(uplink) : uplink'[n] = uplink[m]
<1>0. Len(uplink) \in Nat /\ older \in Nat /\ stale \in Nat /\ DeviceType
  BY Numbers DEF TypeInv
<1>1. CASE uplink' = Tail(uplink) /\ stale' = OneLess(stale)
  <2>1. /\ Len(uplink) \in Nat \ {0} /\ Len(uplink') = Len(uplink) - 1
        /\ \A n \in 1 .. Len(uplink) - 1 : uplink'[n] = uplink[n + 1]
    BY <1>0, <1>1, Oldest DEF DeviceType
  <2>2. StaleInv'
    BY <1>0, <1>1, <2>1 DEF StaleInv, OneLess
  <2>3. ASSUME NEW n \in stale' + 1 .. Len(uplink')
        PROVE  \E m \in stale + 1 .. Len(uplink) : uplink'[n] = uplink[m]
    <3>1. n \in 1 .. Len(uplink) - 1 /\ n + 1 \in stale + 1 .. Len(uplink)
      BY <1>0, <1>1, <2>1 DEF OneLess
    <3> QED
      BY <2>1, <3>1
  <2> QED
    BY <1>0, <1>1, <2>2, <2>3 DEF OneLess
<1>2. CASE UNCHANGED <<uplink, stale>>
  <2>1. Len(uplink') = Len(uplink) /\ stale' = stale
    BY <1>2
  <2> QED
    BY <1>2, <2>1 DEF StaleInv
<1> QED
  BY <1>1, <1>2

\* Where no message moves and no page comes back, the order stays.
LEMMA OrderStays ==
  ASSUME OrderInv, downlink' = downlink, older' = older, Len(downlink) \in Nat,
         \A image \in Images : \A p \in PagesOf(image), n \in Nat :
           SpentBefore(image, p, n) => SpentBefore(image, p, n)'
  PROVE  OrderInv'
<1>1. ASSUME NEW n \in 1 .. Len(downlink'), NEW image \in Images, NEW p \in PagesOf(image),
             p < downlink'[n].pageIndex
      PROVE  SpentBefore(image, p, n)'
  <2>1. n \in 1 .. Len(downlink) /\ p < downlink[n].pageIndex /\ n \in Nat
    BY <1>1
  <2>2. SpentBefore(image, p, n)
    BY <2>1 DEF OrderInv
  <2> QED
    BY <2>1, <2>2
<1>2. ASSUME NEW m \in 1 .. Len(downlink'), NEW n \in 1 .. Len(downlink'), m < n,
             downlink'[m].pageIndex = downlink'[n].pageIndex
      PROVE  \/ downlink'[n].pageIndex = 0 /\ m <= older'
             \/ /\ ImageOf(downlink'[m]) = ImageOf(downlink'[n])
                /\ downlink'[m].chunkIndex # downlink'[n].chunkIndex
  BY <1>2 DEF OrderInv, ImageOf
<1> QED
  BY <1>1, <1>2 DEF OrderInv, ImageOf, PagesOf

\* A step that touches neither flash, nor messages, nor an upload that goes on.
LEMMA SavedElsewhere ==
  ASSUME TypeInv, SavedInv, ~misled, ~mixed,
         UNCHANGED <<flash, downlink, older>>,
         UNCHANGED <<chunksPending, activePage, pageBuffer>> \/ chunksPending' = Chunks,
         \/ UNCHANGED <<pages, activePageIndex, progress>>
         \/ pages' = NoImage /\ progress' # "Upload complete",
         StaleInv', stale = 0 => stale' = 0,
         \A n \in stale' + 1 .. Len(uplink') :
           \E m \in stale + 1 .. Len(uplink) : uplink'[n] = uplink[m]
  PROVE  SavedInv'
<1>0. BlockInv /\ OrderInv /\ UploadInv /\ DoneInv
  BY DEF SavedInv
<1>1. ASSUME NEW image \in Images, NEW p \in PagesOf(image), NEW n, SpentBefore(image, p, n)
      PROVE  SpentBefore(image, p, n)'
  <2>1. PICK k \in ChunksOf(image, p) :
          Missing(image, p, k) /\ \A m \in 1 .. n - 1 : ~Carries(m, image, p, k)
    BY <1>1 DEF SpentBefore
  <2>2. Missing(image, p, k)'
    <3>1. k \in Chunks
      BY PageFacts
    <3> QED
      BY <2>1, <3>1 DEF Missing, Held, ChunksOf
  <2> QED
    BY <2>1, <2>2 DEF SpentBefore, ChunksOf, Carries
<1>2. \A image \in Images : \A p \in PagesOf(image) : Spent(image, p) => Spent(image, p)'
  <2>1. TAKE image \in Images
  <2>2. TAKE p \in PagesOf(image)
  <2>3. PICK n : n = Len(downlink) + 1
    OBVIOUS
  <2>4. Len(downlink') + 1 = n
    BY <2>3
  <2> QED
    BY <1>1, <2>3, <2>4 DEF Spent, SpentBefore
<1>3. BlockInv'
  BY <1>0, <1>2, BlockStays
<1>4. OrderInv'
  <2>1. \A image \in Images : \A p \in PagesOf(image), n \in Nat :
          SpentBefore(image, p, n) => SpentBefore(image, p, n)'
    BY <1>1
  <2>2. Len(downlink) \in Nat
    BY Numbers
  <2> QED
    BY <1>0, <2>1, <2>2, OrderStays
<1>5. /\ \A p : AllSpent(p) => AllSpent(p)'
      /\ \A image, p : Counted(image, p) => Counted(image, p)'
  BY <1>2, SameFlash DEF Counted, AllSpent, PagesOf
<1>6. DoneInv'
  <2>1. \A image, p : HoldsPage(image, p)' <=> HoldsPage(image, p)
    BY SameFlash
  <2> QED
    BY <1>0, <1>5, <2>1 DEF DoneInv, AnImageIsSaved, HoldsImage
<1>7. UploadInv'
  <2> SUFFICES ASSUME NEW image \in Images, pages' = image PROVE UploadOf(image)'
    BY DEF UploadInv
  <2>1. PICK a \in Nat : a = activePageIndex
    BY Numbers
  <2>2. pages = image /\ activePageIndex' = a /\ UploadOf(image)
    BY <1>0, <2>1, ImageAssumption DEF UploadInv
  <2>3. a < PageCountOf[image]
    BY <2>1, <2>2 DEF UploadOf
  <2>4. \A p \in PagesOf(image) : p < a => Counted(image, p)'
    BY <1>5, <2>1, <2>2 DEF UploadOf
  <2>5. ASSUME NEW n \in stale' + 1 .. Len(uplink'), uplink'[n].status = "WRITE_SUCCESS"
        PROVE  /\ uplink'[n].pageIndex <= a
               /\ uplink'[n].pageIndex = a =>
                    /\ Counted(image, a)'
                    /\ \A q \in Pages : Earlier(a, q) => IsBlank(q)'
                    /\ \A q \in Pages : a < q => AllSpent(q)'
    <3>1. PICK m \in stale + 1 .. Len(uplink) : uplink'[n] = uplink[m]
      OBVIOUS
    <3>2. /\ uplink[m].pageIndex <= a
          /\ uplink[m].pageIndex = a =>
               /\ Counted(image, a)
               /\ \A q \in Pages : Earlier(a, q) => IsBlank(q)
               /\ \A q \in Pages : a < q => AllSpent(q)
      BY <2>1, <2>2, <2>5, <3>1 DEF UploadOf
    <3> QED
      BY <1>5, <3>1, <3>2, SameFlash
  <2>6. \A n \in older' + 1 .. Len(downlink') :
          ImageOf(downlink'[n]) = image /\ downlink'[n].pageIndex <= a
    BY <2>1, <2>2 DEF UploadOf
  <2>7. a > 0 => older' = 0 /\ stale' = 0
    BY <2>1, <2>2 DEF UploadOf
  <2> QED
    BY <2>2, <2>3, <2>4, <2>5, <2>6, <2>7
    DEF UploadOf, PagesOf, Earlier, SameEraseBlock, ImageOf
<1> QED
  BY <1>3, <1>4, <1>6, <1>7 DEF SavedInv

-----------------------------------------------------------------------------
\* A success that does not mislead the widget is of the page it waits for, which is in
\* flash, with the later pages of its block blank and no message of an earlier upload left.
LEMMA SuccessIsCounted ==
  ASSUME NEW image \in Images, TypeInv, UploadOf(image), StaleInv,
         pages = image, uplink # <<>>, Head(uplink).status = "WRITE_SUCCESS",
         ~MisledBy(Head(uplink))
  PROVE  /\ Head(uplink).pageIndex = activePageIndex /\ stale = 0 /\ older = 0
         /\ activePageIndex \in PagesOf(image)
         /\ \A p \in PagesOf(image) : p <= activePageIndex => Counted(image, p)
         /\ \A q \in Pages : Earlier(activePageIndex, q) => IsBlank(q)
         /\ \A q \in Pages : activePageIndex < q => AllSpent(q)
         /\ \A n \in 1 .. Len(downlink) :
              ImageOf(downlink[n]) = image /\ downlink[n].pageIndex <= activePageIndex
<1>0. /\ Len(uplink) \in Nat /\ older \in Nat /\ stale \in Nat /\ activePageIndex \in Nat
      /\ PageCountOf[image] \in Nat
  BY Numbers, PageFacts
<1>1. Head(uplink).pageIndex = activePageIndex /\ ~(stale > 0)
  BY ImageAssumption DEF MisledBy
<1>2. stale = 0
  BY <1>0, <1>1
<1>3. Head(uplink) = uplink[1] /\ Len(uplink) > 0
  BY <1>0, Oldest DEF TypeInv, DeviceType
<1>4. older = 0
  BY <1>0, <1>2, <1>3 DEF StaleInv
<1>5. activePageIndex \in PagesOf(image)
  BY <1>0 DEF UploadOf, PagesOf
<1>6. 1 \in stale + 1 .. Len(uplink)
  BY <1>0, <1>2, <1>3
<1>7. /\ Counted(image, activePageIndex)
      /\ \A q \in Pages : Earlier(activePageIndex, q) => IsBlank(q)
      /\ \A q \in Pages : activePageIndex < q => AllSpent(q)
  BY <1>1, <1>3, <1>6 DEF UploadOf
<1>8. ASSUME NEW p \in PagesOf(image), p <= activePageIndex PROVE Counted(image, p)
  <2>1. p < activePageIndex \/ p = activePageIndex
    BY <1>0, <1>8, PageFacts
  <2> QED
    BY <1>7, <2>1 DEF UploadOf
<1>9. \A n \in 1 .. Len(downlink) :
        ImageOf(downlink[n]) = image /\ downlink[n].pageIndex <= activePageIndex
  BY <1>4 DEF UploadOf
<1> QED
  BY <1>1, <1>2, <1>4, <1>5, <1>7, <1>8, <1>9

\* The widget goes to the next page.
LEMMA SavedNextPage ==
  ASSUME TypeInv, SavedInv, ~misled, ~mixed, NEW image \in Images, pages = image,
         uplink # <<>>, Head(uplink).status = "WRITE_SUCCESS",
         ~MisledBy(Head(uplink)), ~IsLastPage(Head(uplink)), NextPage(Head(uplink)),
         UNCHANGED <<deviceVars, older>>,
         \/ uplink' = Tail(uplink) /\ stale' = OneLess(stale)
         \/ UNCHANGED <<uplink, stale>>
  PROVE  SavedInv'
<1>0. /\ BlockInv /\ OrderInv /\ UploadOf(image) /\ DoneInv /\ StaleInv /\ UiType
  BY DEF SavedInv, UploadInv, TypeInv
<1>1. PICK a \in Nat : a = activePageIndex
  BY Numbers
<1>2. /\ Head(uplink).pageIndex = a /\ stale = 0 /\ older = 0
      /\ a \in PagesOf(image)
      /\ \A p \in PagesOf(image) : p <= a => Counted(image, p)
      /\ \A q \in Pages : Earlier(a, q) => IsBlank(q)
      /\ \A q \in Pages : a < q => AllSpent(q)
      /\ \A n \in 1 .. Len(downlink) :
           ImageOf(downlink[n]) = image /\ downlink[n].pageIndex <= a
  BY <1>0, <1>1, SuccessIsCounted
<1>3. PageCountOf[image] \in Nat /\ PagesOf(image) \subseteq Nat /\ PagesOf(image) \subseteq Pages
  BY PageFacts
<1>4. a + 1 < PageCountOf[image] /\ a + 1 \in PagesOf(image) /\ a + 1 \in Nat /\ a + 1 \in Pages
  <2>1. a # PageCountOf[image] - 1
    BY <1>2, <1>3 DEF IsLastPage
  <2>2. a + 1 < PageCountOf[image] /\ a + 1 \in PagesOf(image)
    BY <1>2, <1>3, <2>1 DEF PagesOf
  <2> QED
    BY <1>3, <2>2
<1>5. /\ SendPage(image, a + 1) /\ activePageIndex' = a + 1 /\ pages' = image
      /\ progress' = progress
  BY <1>1, <1>4 DEF NextPage
<1>6. UNCHANGED <<chunksPending, activePage, pageBuffer, flash>> /\ older' = older
  BY DEF deviceVars
<1>7. \A i \in Images : \A p \in PagesOf(i) :
        (p # a + 1 \/ i # image) /\ Spent(i, p) => Spent(i, p)'
  BY <1>4, <1>5, <1>6, SpentUnderSend
<1>8. \A i, p : (HoldsPage(i, p)' <=> HoldsPage(i, p)) /\ (IsBlank(p)' <=> IsBlank(p))
  BY <1>6, SameFlash
<1>9. ASSUME NEW p \in Nat, p < a + 1
      PROVE  p <= a /\ p \in PagesOf(image) /\ Counted(image, p) /\ Counted(image, p)'
  <2>1. p <= a /\ p # a + 1 /\ p \in PagesOf(image)
    BY <1>4, <1>9, PagesBefore
  <2>2. Counted(image, p)
    BY <1>2, <2>1
  <2>3. AllSpent(p)'
    BY <1>4, <1>5, <1>6, <2>1, <2>2, AllSpentUnderSend DEF Counted
  <2> QED
    BY <1>8, <2>1, <2>2, <2>3 DEF Counted
<1>10. OrderInv'
  <2>1. \A p \in Nat : p < a + 1 => AllSpent(p)
    BY <1>9 DEF Counted
  <2>2. ASSUME NEW n \in 1 .. Len(downlink) PROVE downlink[n].pageIndex < a + 1
    <3>1. downlink[n].pageIndex \in Nat
      BY <1>0, ElementOfSeq, MsgSays DEF UiType
    <3>2. downlink[n].pageIndex <= a
      BY <1>2
    <3> QED
      BY <3>1, <3>2
  <2> QED
    BY <1>0, <1>4, <1>5, <1>6, <2>1, <2>2, OrderUnderSend
<1>11. BlockInv'
  <2> SUFFICES ASSUME NEW p \in Pages, NEW q \in Pages, Earlier(p, q)
               PROVE  /\ ~IsBlank(p)' \/ IsBlank(q)'
                      /\ \A i \in Images : q \in PagesOf(i) =>
                           Spent(i, q)' \/ (IsBlank(q)' /\ HoldsPage(i, p)')
    BY DEF BlockInv, PagesOf, Earlier, SameEraseBlock
  <2>1. CASE q = a + 1
    <3>1. p \in Nat /\ p < a + 1 /\ SameEraseBlock(p, a + 1)
      BY <2>1, Partition DEF Earlier
    <3>2. p <= a /\ HoldsPage(image, p)
      BY <1>9, <3>1 DEF Counted
    <3>3. SameEraseBlock(a, a + 1)
      BY <3>1, <3>2, BetweenInBlock
    <3>4. IsBlank(a + 1) /\ AllSpent(a + 1)
      BY <1>2, <1>4, <3>3 DEF Earlier
    <3>5. \A i \in Images : i # image /\ a + 1 \in PagesOf(i) => Spent(i, a + 1)'
      BY <1>7, <3>4 DEF AllSpent
    <3> QED
      BY <1>8, <2>1, <3>2, <3>4, <3>5
  <2>2. CASE q # a + 1
    BY <1>0, <1>7, <1>8, <2>2 DEF BlockInv
  <2> QED
    BY <2>1, <2>2
<1>12. /\ StaleInv' /\ stale' = 0
       /\ \A n \in stale' + 1 .. Len(uplink') :
            \E m \in stale + 1 .. Len(uplink) : uplink'[n] = uplink[m]
  BY <1>0, <1>2, StatusesMoveUp
<1>13. UploadOf(image)'
  <2>1. ASSUME NEW n \in stale' + 1 .. Len(uplink'), uplink'[n].status = "WRITE_SUCCESS"
        PROVE  uplink'[n].pageIndex <= a + 1 /\ uplink'[n].pageIndex # a + 1
    <3>1. PICK m \in stale + 1 .. Len(uplink) : uplink'[n] = uplink[m]
      BY <1>12
    <3>2. uplink[m].pageIndex <= a
      BY <1>0, <1>1, <2>1, <3>1 DEF UploadOf
    <3>3. uplink[m].pageIndex \in Nat
      <4>1. m \in 1 .. Len(uplink)
        BY <1>2
      <4>2. uplink[m] \in StatusMsgs
        BY <4>1, ElementOfSeq DEF TypeInv, DeviceType
      <4> QED
        BY <4>2, Partition DEF StatusMsgs
    <3> QED
      BY <3>1, <3>2, <3>3
  <2>2. ASSUME NEW n \in older' + 1 .. Len(downlink')
        PROVE  ImageOf(downlink'[n]) = image /\ downlink'[n].pageIndex <= a + 1
    <3>0. Len(downlink) \in Nat /\ ChunkCountOf(image, a + 1) \in Nat
      BY <1>4, Numbers, PageFacts
    <3>1. /\ Len(downlink') = Len(downlink) + ChunkCountOf(image, a + 1)
          /\ \A j \in 1 .. Len(downlink) : downlink'[j] = downlink[j]
          /\ \A j \in Len(downlink) + 1 .. Len(downlink') :
               downlink'[j] = ImageData(image, a + 1, j - Len(downlink) - 1)
      BY <1>0, <1>4, <1>5, Sent
    <3>2. n \in 1 .. Len(downlink')
      BY <1>2, <1>6
    <3>3. CASE n \in 1 .. Len(downlink)
      <4>1. /\ downlink'[n] = downlink[n] /\ ImageOf(downlink[n]) = image
            /\ downlink[n].pageIndex <= a
        BY <1>2, <3>1, <3>3
      <4>2. downlink[n].pageIndex \in Nat
        BY <1>0, <3>3, ElementOfSeq, MsgSays DEF UiType
      <4> QED
        BY <4>1, <4>2
    <3>4. CASE n \in Len(downlink) + 1 .. Len(downlink')
      <4>1. downlink'[n] = ImageData(image, a + 1, n - Len(downlink) - 1)
        BY <3>1, <3>4
      <4> QED
        BY <1>4, <4>1 DEF ImageData, ImageOf, Bytes
    <3> QED
      BY <3>0, <3>1, <3>2, <3>3, <3>4
  <2>3. older' = 0 /\ stale' = 0
    BY <1>2, <1>6, <1>12
  <2>4. \A p \in PagesOf(image) : p < a + 1 => Counted(image, p)'
    BY <1>3, <1>9
  <2> QED
    BY <1>4, <1>5, <2>1, <2>2, <2>3, <2>4
    DEF UploadOf, PagesOf, Earlier, SameEraseBlock, ImageOf
<1>14. UploadInv'
  BY <1>5, <1>13 DEF UploadInv
<1>15. DoneInv'
  BY <1>0, <1>5, ImageAssumption DEF DoneInv
<1> QED
  BY <1>10, <1>11, <1>12, <1>14, <1>15 DEF SavedInv

LEMMA UpOrAbove ==
  ASSUME NEW n \in Nat, NEW p \in Nat
  PROVE  p \in 0 .. n - 1 \/ n - 1 < p
  OBVIOUS

\* The upload ends with all its pages in flash.
LEMMA SavedComplete ==
  ASSUME TypeInv, SavedInv, ~misled, ~mixed, NEW image \in Images, pages = image,
         uplink # <<>>, Head(uplink).status = "WRITE_SUCCESS",
         ~MisledBy(Head(uplink)), IsLastPage(Head(uplink)), Forget("Upload complete"),
         UNCHANGED <<deviceVars, older>>,
         \/ uplink' = Tail(uplink) /\ stale' = OneLess(stale)
         \/ UNCHANGED <<uplink, stale>>
  PROVE  SavedInv'
<1>0. BlockInv /\ OrderInv /\ UploadOf(image) /\ StaleInv
  BY DEF SavedInv, UploadInv
<1>1. UNCHANGED <<chunksPending, activePage, pageBuffer, flash, downlink>> /\ older' = older
      /\ pages' = NoImage
  BY DEF deviceVars, Forget
<1>2. PICK a \in Nat : a = activePageIndex
  BY Numbers
<1>3. /\ Head(uplink).pageIndex = a
      /\ \A p \in PagesOf(image) : p <= a => Counted(image, p)
      /\ \A q \in Pages : a < q => AllSpent(q)
  BY <1>0, <1>2, SuccessIsCounted
<1>4. PageCountOf[image] \in Nat /\ a = PageCountOf[image] - 1
  BY <1>3, PageFacts DEF IsLastPage
<1>5. \A p \in PagesOf(image) : Counted(image, p)
  BY <1>3, <1>4, UpToLast, Zenon
<1>6. \A p \in Pages : AllSpent(p)
  <2> TAKE p \in Pages
  <2>1. p \in Nat
    BY Partition
  <2>2. p \in 0 .. PageCountOf[image] - 1 \/ a < p
    BY <1>4, <2>1, UpOrAbove
  <2> QED
    BY <1>3, <1>5, <2>2 DEF Counted, PagesOf
<1>7. AnImageIsSaved
  BY <1>5 DEF AnImageIsSaved, HoldsImage, Counted, PagesOf
<1>8. \A i, p, n : SpentBefore(i, p, n)' <=> SpentBefore(i, p, n)
  <2>1. \A i, p, k : Missing(i, p, k)' <=> Missing(i, p, k)
    BY <1>1 DEF Missing, Held, ChunksOf
  <2>2. \A m, i, p, k : Carries(m, i, p, k)' <=> Carries(m, i, p, k)
    BY <1>1 DEF Carries
  <2> QED
    BY <2>1, <2>2 DEF SpentBefore, ChunksOf
<1>9. \A i, p : Spent(i, p)' <=> Spent(i, p)
  BY <1>1, <1>8 DEF Spent
<1>10. BlockInv'
  BY <1>0, <1>1, <1>9, BlockStays
<1>11. OrderInv'
  <2>1. Len(downlink) \in Nat
    BY Numbers
  <2> QED
    BY <1>0, <1>1, <1>8, <2>1, OrderStays
<1>12. UploadInv'
  BY <1>1, ImageAssumption DEF UploadInv
<1>13. DoneInv'
  <2>1. \A p \in Pages : AllSpent(p)'
    BY <1>6, <1>9 DEF AllSpent, PagesOf
  <2>2. AnImageIsSaved'
    BY <1>1, <1>7 DEF AnImageIsSaved, HoldsImage, HoldsPage
  <2> QED
    BY <1>1, <2>1, <2>2 DEF DoneInv
<1>14. StaleInv'
  BY <1>0, <1>1, StatusesMoveUp
<1> QED
  BY <1>10, <1>11, <1>12, <1>13, <1>14 DEF SavedInv

\* A status the widget takes, for the first time or again.
LEMMA SavedStatus ==
  ASSUME TypeInv, SavedInv, uplink # <<>>,
         UpdateStatus(Head(uplink)), misled' = (misled \/ MisledBy(Head(uplink))),
         UNCHANGED <<deviceVars, older, mixed>>,
         \/ uplink' = Tail(uplink) /\ stale' = OneLess(stale)
         \/ UNCHANGED <<uplink, stale>>
  PROVE  SavedInv'
<1> SUFFICES ASSUME ~misled, ~misled', ~mixed PROVE SavedInv'
  BY DEF SavedInv
<1>0. StaleInv
  BY DEF SavedInv
<1>1. UNCHANGED <<chunksPending, activePage, pageBuffer, flash>> /\ older' = older
  BY DEF deviceVars
<1>2. ~MisledBy(Head(uplink))
  OBVIOUS
<1>3. /\ StaleInv' /\ (stale = 0 => stale' = 0)
      /\ \A n \in stale' + 1 .. Len(uplink') :
           \E m \in stale + 1 .. Len(uplink) : uplink'[n] = uplink[m]
  BY <1>0, <1>1, StatusesMoveUp
<1>4. pages \in Images \cup {NoImage}
  BY Numbers
<1>5. CASE pages = NoImage /\ UNCHANGED <<uiVars, downlink>>
  <2>1. UNCHANGED <<pages, activePageIndex, progress, downlink>>
    BY <1>5 DEF uiVars
  <2> QED
    BY <1>1, <1>3, <2>1, SavedElsewhere
<1>6. CASE /\ pages # NoImage /\ Head(uplink).status = "WRITE_SUCCESS"
           /\ IsLastPage(Head(uplink)) /\ Forget("Upload complete")
  BY <1>2, <1>4, <1>6, SavedComplete
<1>7. CASE /\ pages # NoImage /\ Head(uplink).status = "WRITE_SUCCESS"
           /\ ~IsLastPage(Head(uplink)) /\ NextPage(Head(uplink))
  BY <1>2, <1>4, <1>7, SavedNextPage
<1>8. CASE Forget("Failed: bad message")
  <2>1. pages' = NoImage /\ progress' # "Upload complete" /\ downlink' = downlink
    BY <1>8 DEF Forget
  <2> QED
    BY <1>1, <1>3, <2>1, SavedElsewhere
<1> QED
  BY <1>5, <1>6, <1>7, <1>8 DEF UpdateStatus

LEMMA SavedStep == TypeInv /\ SavedInv /\ [Next]_vars => SavedInv'
<1> SUFFICES ASSUME TypeInv, SavedInv, [Next]_vars PROVE SavedInv'
  OBVIOUS
<1>1. CASE \E image \in Images : Submit(image)
  BY <1>1, SavedSubmit
<1>2. CASE DeliverChunk
  BY <1>2, SavedDelivery
<1>3. CASE LoseChunk
  BY <1>3, SavedLoss
<1>4. CASE DeliverStatus
  <2>1. older' = older /\ mixed' = mixed
    BY <1>4 DEF DeliverStatus
  <2> QED
    BY <1>4, <2>1, SavedStatus DEF DeliverStatus
<1>5. CASE DuplicateStatus
  <2>1. older' = older /\ mixed' = mixed /\ UNCHANGED <<uplink, stale>>
    BY <1>5 DEF DuplicateStatus
  <2> QED
    BY <1>5, <2>1, SavedStatus DEF DuplicateStatus
<1>6. ASSUME ~misled, ~mixed, LoseStatus PROVE SavedInv'
  <2>1. /\ UNCHANGED <<flash, downlink, older, chunksPending, activePage, pageBuffer,
                       pages, activePageIndex, progress>>
        /\ uplink # <<>> /\ uplink' = Tail(uplink) /\ stale' = OneLess(stale)
    BY <1>6 DEF LoseStatus, deviceVars, uiVars
  <2>2. StaleInv
    BY <1>6 DEF SavedInv
  <2>3. /\ StaleInv' /\ (stale = 0 => stale' = 0)
        /\ \A n \in stale' + 1 .. Len(uplink') :
             \E m \in stale + 1 .. Len(uplink) : uplink'[n] = uplink[m]
    BY <2>1, <2>2, StatusesMoveUp
  <2> QED
    BY <1>6, <2>1, <2>3, SavedElsewhere
<1>7. ASSUME ~misled, ~mixed, UNCHANGED <<flash, downlink, older, uplink, stale>>,
             UNCHANGED <<chunksPending, activePage, pageBuffer>> \/ chunksPending' = Chunks,
             \/ UNCHANGED <<pages, activePageIndex, progress>>
             \/ pages' = NoImage /\ progress' # "Upload complete"
      PROVE  SavedInv'
  <2>1. StaleInv'
    BY <1>7 DEF SavedInv, StaleInv
  <2>2. (stale = 0 => stale' = 0)
        /\ \A n \in stale' + 1 .. Len(uplink') :
             \E m \in stale + 1 .. Len(uplink) : uplink'[n] = uplink[m]
    BY <1>7
  <2> QED
    BY <1>7, <2>1, <2>2, SavedElsewhere
<1>8. ASSUME ~misled, ~mixed, Timeout PROVE SavedInv'
  <2>1. /\ UNCHANGED <<flash, downlink, older, uplink, stale, chunksPending, activePage,
                       pageBuffer>>
        /\ pages' = NoImage /\ progress' # "Upload complete"
    BY <1>8 DEF Timeout, HandleTimeout, Forget, deviceVars, history
  <2> QED
    BY <1>7, <1>8, <2>1
<1>9. ASSUME ~misled, ~mixed, ResetDevice PROVE SavedInv'
  <2>1. /\ UNCHANGED <<flash, downlink, older, uplink, stale, pages, activePageIndex, progress>>
        /\ chunksPending' = Chunks
    BY <1>9 DEF ResetDevice, DeviceReset, NO_CHUNKS_PROCESSED, uiVars, history
  <2> QED
    BY <1>7, <1>9, <2>1
<1>10. ASSUME ~misled, ~mixed, UNCHANGED vars PROVE SavedInv'
  <2>1. UNCHANGED <<flash, downlink, older, uplink, stale, chunksPending, activePage,
                    pageBuffer, pages, activePageIndex, progress>>
    BY <1>10 DEF vars, deviceVars, uiVars, history
  <2> QED
    BY <1>7, <1>10, <2>1
<1>11. CASE (misled \/ mixed) /\ (LoseStatus \/ Timeout \/ ResetDevice \/ UNCHANGED vars)
  <2>1. misled' = misled /\ mixed' = mixed
    BY <1>11 DEF LoseStatus, Timeout, ResetDevice, vars, history
  <2> QED
    BY <1>11, <2>1 DEF SavedInv
<1> QED
  BY <1>1, <1>2, <1>3, <1>4, <1>5, <1>6, <1>8, <1>9, <1>10, <1>11 DEF Next

\* Before the first message nothing is under way.
LEMMA SpentInit ==
  ASSUME Init, NEW image \in Images, NEW p \in PagesOf(image)
  PROVE  Spent(image, p)
<1>1. downlink = <<>> /\ chunksPending = Chunks
  BY DEF Init, DeviceInit, UiInit, NO_CHUNKS_PROCESSED
<1>2. Len(downlink) = 0
  BY <1>1, EmptySeq
<1>3. 0 \in ChunksOf(image, p) /\ 0 \in Chunks
  BY PageFacts, Partition
<1>4. Missing(image, p, 0)
  BY <1>1, <1>3 DEF Missing, Held
<1>5. \A m \in 1 .. (Len(downlink) + 1) - 1 : ~Carries(m, image, p, 0)
  BY <1>2
<1> QED
  BY <1>3, <1>4, <1>5 DEF Spent, SpentBefore

LEMMA SavedInit == Init => SavedInv
<1> SUFFICES ASSUME Init PROVE SavedInv
  OBVIOUS
<1>1. /\ uplink = <<>> /\ downlink = <<>> /\ pages = NoImage /\ older = 0
      /\ pageBuffer = [k \in Chunks |-> Blank] /\ flash = [p \in Pages |-> pageBuffer]
      /\ progress # "Upload complete"
  BY DEF Init, DeviceInit, UiInit
<1>2. Len(downlink) = 0
  BY <1>1, EmptySeq
<1>3. \A p \in Pages : IsBlank(p)
  BY <1>1 DEF IsBlank
<1>4. BlockInv
  BY <1>3, SpentInit DEF BlockInv
<1>5. OrderInv
  BY <1>2 DEF OrderInv
<1>6. UploadInv /\ DoneInv
  BY <1>1, ImageAssumption DEF UploadInv, DoneInv
<1>7. StaleInv
  <2>1. older = 0
    BY <1>1
  <2>2. ~(older > 0)
    BY <2>1
  <2> QED
    BY <2>2 DEF StaleInv
<1> QED
  BY <1>4, <1>5, <1>6, <1>7 DEF SavedInv

LEMMA SavedInvariant == Spec => []SavedInv
  BY SavedInit, SavedStep, TypeInvariant, PTL DEF Spec

\* For any images, of different lengths or not, sent over the remains of one another, for
\* partitions and erase blocks of any size, whatever is lost, late or repeated, however
\* often the user submits again and the device restarts: as long as no success misled the
\* widget and no page was completed with chunks of several images, the pages the widget has
\* counted are in flash, and "Upload complete" means that a whole image is.  The inductive
\* invariant is SavedInv: a page that was counted cannot be finished again by what is still
\* under way, of whatever image, and one that still can is blank, or the first of its erase
\* block, so that no page that was counted is erased.
THEOREM CompleteIsSaved == Spec => []CompleteMeansSaved
<1>1. TypeInv /\ SavedInv => CompleteMeansSaved
  <2> SUFFICES ASSUME TypeInv, SavedInv, ~misled, ~mixed
               PROVE  /\ pages # NoImage =>
                           \A page \in 0 .. activePageIndex - 1 : HoldsPage(pages, page)
                      /\ progress = "Upload complete" => AnImageIsSaved
    BY DEF CompleteMeansSaved
  <2>1. UploadInv /\ DoneInv
    BY DEF SavedInv
  <2>2. ASSUME pages # NoImage, NEW page \in 0 .. activePageIndex - 1
        PROVE  HoldsPage(pages, page)
    <3>1. PICK image \in Images : pages = image
      BY <2>2, Numbers
    <3>2. activePageIndex \in Nat /\ PageCountOf[image] \in Nat
      BY Numbers, PageFacts
    <3>3. UploadOf(image)
      BY <2>1, <3>1 DEF UploadInv
    <3>4. page \in PagesOf(image) /\ page < activePageIndex
      BY <3>2, <3>3 DEF UploadOf, PagesOf
    <3> QED
      BY <3>1, <3>3, <3>4 DEF UploadOf, Counted
  <2> QED
    BY <2>1, <2>2 DEF DoneInv
<1> QED
  BY <1>1, SavedInvariant, TypeInvariant, PTL

-----------------------------------------------------------------------------
\* A page that can still be finished has all the earlier ones of its image in flash.
FinishInv ==
  ~misled /\ ~mixed =>
    \A image \in Images : \A p, q \in PagesOf(image) :
      p < q => Spent(image, q) \/ HoldsPage(image, p)

\* A step that leaves flash alone and lets no page come back but the one that is sent,
\* which has the earlier ones in flash.
LEMMA FinishStays ==
  ASSUME FinishInv, ~misled, ~mixed, flash' = flash,
         \A image \in Images : \A q \in PagesOf(image) :
           \/ Spent(image, q) => Spent(image, q)'
           \/ \A p \in PagesOf(image) : p < q => HoldsPage(image, p)
  PROVE  FinishInv'
<1>1. \A i, p : HoldsPage(i, p)' <=> HoldsPage(i, p)
  BY SameFlash
<1> QED
  BY <1>1 DEF FinishInv, PagesOf

LEMMA FinishDelivery ==
  ASSUME TypeInv, SavedInv, FinishInv, ~misled, ~mixed', DeliverChunk
  PROVE  FinishInv'
<1>0. DeviceType /\ UiType /\ BlockInv /\ OrderInv /\ ~mixed
  BY DEF SavedInv, TypeInv, DeliverChunk
<1>1. downlink # <<>> /\ downlink' = Tail(downlink) /\ misled' = misled
  BY DEF DeliverChunk
<1>2. PICK msg \in Msgs :
        /\ msg = downlink[1] /\ HandleImageData(msg)
        /\ Completes(msg) => OfOneImage(msg)
  BY <1>0, <1>1, Oldest DEF UiType, DeliverChunk
<1>3. MovesUp
  BY <1>0, <1>1, Oldest DEF UiType, MovesUp
<1>4. \A image \in Images : \A p \in PagesOf(image) : Spent(image, p) => Spent(image, p)'
  BY <1>0, <1>2, <1>3, MissingAfter, SpentMovesUp
<1>5. CASE Unmixed(msg)
  <2> SUFFICES ASSUME NEW image \in Images,
                      NEW p \in PagesOf(image), NEW q \in PagesOf(image), p < q,
                      ~Spent(image, q)'
               PROVE  HoldsPage(image, p)'
    BY DEF FinishInv, PagesOf
  <2>1. p \in Nat /\ q \in Nat /\ p \in Pages /\ q \in Pages /\ msg.pageIndex \in Nat
    BY MsgSays, PageFacts
  <2>2. ~(msg.pageIndex < q)
    BY <1>0, <1>2, <1>3, <1>5, <2>1, LaterIsSpent DEF AllSpent, PagesOf
  <2>3. HoldsPage(image, p)
    BY <1>0, <1>4 DEF FinishInv
  <2>4. p < msg.pageIndex
    BY <2>1, <2>2
  <2> QED
    BY <1>0, <1>2, <1>3, <1>5, <2>1, <2>3, <2>4, EarlierStays
<1>6. CASE flash' = flash
  BY <1>0, <1>4, <1>6, FinishStays
<1> QED
  BY <1>2, <1>5, <1>6 DEF HandleImageData, Completes, Unmixed, PageIncomplete, RejectMsg

\* A status the widget takes: only the next page it sends can be finished again.
LEMMA FinishStatus ==
  ASSUME TypeInv, SavedInv, FinishInv, ~misled, ~mixed,
         uplink # <<>>, UpdateStatus(Head(uplink)), ~MisledBy(Head(uplink)),
         UNCHANGED <<chunksPending, activePage, pageBuffer, flash>>
  PROVE  FinishInv'
<1>0. UploadInv /\ StaleInv /\ UiType
  BY DEF SavedInv, TypeInv
<1>1. CASE downlink' = downlink
  <2>1. \A i, p : Spent(i, p)' <=> Spent(i, p)
    BY <1>1 DEF Spent, SpentBefore, Missing, Held, Carries, ChunksOf
  <2> QED
    BY <2>1, FinishStays
<1>2. CASE /\ pages # NoImage /\ Head(uplink).status = "WRITE_SUCCESS"
           /\ ~IsLastPage(Head(uplink)) /\ NextPage(Head(uplink))
  <2>1. PICK a \in Nat : a = activePageIndex
    BY Numbers
  <2>2. PICK image \in Images : pages = image
    BY <1>2, Numbers
  <2>3. /\ Head(uplink).pageIndex = a /\ a \in PagesOf(image)
        /\ \A p \in PagesOf(image) : p <= a => Counted(image, p)
        /\ \A q \in Pages : a < q => AllSpent(q)
    BY <1>0, <1>2, <2>1, <2>2, SuccessIsCounted DEF UploadInv
  <2>4. PageCountOf[image] \in Nat /\ PagesOf(image) \subseteq Nat
        /\ PagesOf(image) \subseteq Pages
    BY PageFacts
  <2>5. a + 1 < PageCountOf[image] /\ a + 1 \in PagesOf(image)
    <3>1. a # PageCountOf[image] - 1
      BY <1>2, <2>2, <2>3, <2>4 DEF IsLastPage
    <3> QED
      BY <2>3, <2>4, <3>1 DEF PagesOf
  <2>6. SendPage(image, a + 1)
    BY <1>2, <2>1, <2>2, <2>5 DEF NextPage
  <2>7. \A i \in Images : \A q \in PagesOf(i) :
          (q # a + 1 \/ i # image) /\ Spent(i, q) => Spent(i, q)'
    BY <2>5, <2>6, SpentUnderSend
  <2>8. \A p \in PagesOf(image) : p < a + 1 => HoldsPage(image, p)
    <3>1. \A p \in PagesOf(image) : p < a + 1 => p <= a
      BY <2>1, <2>4
    <3> QED
      BY <2>3, <3>1 DEF Counted
  <2> QED
    BY <2>7, <2>8, FinishStays
<1> QED
  BY <1>1, <1>2 DEF UpdateStatus, Forget

LEMMA FinishStep == TypeInv /\ SavedInv /\ FinishInv /\ [Next]_vars => FinishInv'
<1> SUFFICES ASSUME TypeInv, SavedInv, FinishInv, [Next]_vars PROVE FinishInv'
  OBVIOUS
<1>0. (misled => misled') /\ (mixed => mixed')
  <2>1. ASSUME misled PROVE misled'
    BY <2>1 DEF Next, Submit, Timeout, DeliverChunk, LoseChunk, DeliverStatus,
                DuplicateStatus, LoseStatus, ResetDevice, vars, history
  <2>2. ASSUME mixed PROVE mixed'
    <3>1. mixed' = (mixed \/ (Completes(Head(downlink)) /\ ~OfOneImage(Head(downlink))))
          \/ mixed' = mixed
      BY DEF Next, Submit, Timeout, DeliverChunk, LoseChunk, DeliverStatus,
             DuplicateStatus, LoseStatus, ResetDevice, vars, history
    <3> QED
      BY <2>2, <3>1, Zenon
  <2> QED
    BY <2>1, <2>2
<1> SUFFICES ASSUME ~misled, ~misled', ~mixed, ~mixed' PROVE FinishInv'
  BY <1>0 DEF FinishInv
<1>1. ASSUME NEW image \in Images, Submit(image) PROVE FinishInv'
  <2>1. SendPage(image, 0) /\ UNCHANGED <<chunksPending, activePage, pageBuffer, flash>>
    BY <1>1 DEF Submit, HandleSubmit, deviceVars
  <2>2. 0 \in PagesOf(image)
    BY PageFacts
  <2>3. \A i \in Images : \A q \in PagesOf(i) : q # 0 /\ Spent(i, q) => Spent(i, q)'
    BY <2>1, <2>2, SpentUnderSend
  <2>4. \A i \in Images : \A p \in PagesOf(i) : ~(p < 0)
    BY PageFacts
  <2> QED
    BY <2>1, <2>3, <2>4, FinishStays
<1>2. CASE DeliverChunk
  BY <1>2, FinishDelivery
<1>3. CASE LoseChunk
  <2>1. /\ downlink # <<>> /\ downlink' = Tail(downlink)
        /\ UNCHANGED <<flash, chunksPending, activePage, pageBuffer>>
    BY <1>3 DEF LoseChunk, deviceVars
  <2>2. MovesUp
    BY <2>1, Oldest DEF TypeInv, UiType, MovesUp
  <2>3. StillMissing
    BY <2>1 DEF StillMissing, Missing, Held, ChunksOf
  <2> QED
    BY <2>1, <2>2, <2>3, SpentMovesUp, FinishStays
<1>4. CASE DeliverStatus \/ DuplicateStatus
  <2>1. /\ uplink # <<>> /\ UpdateStatus(Head(uplink))
        /\ misled' = (misled \/ MisledBy(Head(uplink))) /\ UNCHANGED deviceVars
    BY <1>4 DEF DeliverStatus, DuplicateStatus
  <2>2. UNCHANGED <<chunksPending, activePage, pageBuffer, flash>>
    BY <2>1 DEF deviceVars
  <2> QED
    BY <2>1, <2>2, FinishStatus
<1>5. CASE LoseStatus \/ Timeout \/ ResetDevice \/ UNCHANGED vars
  <2>1. /\ UNCHANGED <<flash, downlink>>
        /\ UNCHANGED <<chunksPending, activePage, pageBuffer>> \/ chunksPending' = Chunks
    BY <1>5 DEF LoseStatus, Timeout, HandleTimeout, Forget, ResetDevice, DeviceReset,
                NO_CHUNKS_PROCESSED, deviceVars, vars
  <2>2. ASSUME NEW i \in Images, NEW q \in PagesOf(i), Spent(i, q) PROVE Spent(i, q)'
    <3>1. \A k \in ChunksOf(i, q) : Missing(i, q, k) => Missing(i, q, k)'
      BY <2>1, PageFacts DEF Missing, Held, ChunksOf
    <3> QED
      BY <2>1, <2>2, <3>1 DEF Spent, SpentBefore, Carries, ChunksOf
  <2> QED
    BY <2>1, <2>2, FinishStays
<1> QED
  BY <1>1, <1>2, <1>3, <1>4, <1>5 DEF Next

LEMMA FinishInvariant == Spec => []FinishInv
<1>1. Init => FinishInv
  BY SpentInit DEF FinishInv
<1> QED
  BY <1>1, FinishStep, SavedInvariant, TypeInvariant, PTL DEF Spec

\* The step in which handleImageData calls the finish callback for the image.
FinishCallback(image) ==
  /\ DeliverChunk
  /\ Completes(Head(downlink))
  /\ ImageOf(Head(downlink)) = image
  /\ Head(downlink).pageIndex = PageCountOf[image] - 1

\* It finds the image in flash, unless its last page is the one that was mixed.
FinishFindsImage ==
  \A image \in Images :
    FinishCallback(image) /\ ~misled /\ ~mixed' => HoldsImage(image)'

\* fmt_update.c:154-166: until a success misleads the widget or chunks of several images
\* meet on a page, every call of the finish callback, the first one and those of uploads
\* of this or another image that are sent over it, finds the whole of its image in flash,
\* as fmt_update.in.h:28 says.  The run update_finish shows what happens afterwards.
THEOREM FinishIsSaved == Spec => [][FinishFindsImage]_vars
<1>1. TypeInv /\ SavedInv /\ FinishInv => FinishFindsImage
  <2> SUFFICES ASSUME TypeInv, SavedInv, FinishInv, NEW image \in Images,
                      FinishCallback(image), ~misled, ~mixed'
               PROVE  HoldsImage(image)'
    BY DEF FinishFindsImage
  <2>0. DeviceType /\ UiType /\ BlockInv /\ OrderInv /\ ~mixed
    BY DEF SavedInv, TypeInv, FinishCallback, DeliverChunk
  <2>1. downlink # <<>> /\ downlink' = Tail(downlink)
    BY DEF FinishCallback, DeliverChunk
  <2>2. PICK msg \in Msgs : /\ msg = downlink[1] /\ msg = Head(downlink)
                            /\ HandleImageData(msg) /\ Completes(msg) /\ OfOneImage(msg)
                            /\ ImageOf(msg) = image /\ msg.pageIndex = PageCountOf[image] - 1
    BY <2>0, <2>1, Oldest DEF UiType, FinishCallback, DeliverChunk
  <2>3. MovesUp
    BY <2>0, <2>1, Oldest DEF UiType, MovesUp
  <2>4. Unmixed(msg)
    BY <2>2 DEF HandleImageData, Completes, Unmixed
  <2>5. PICK w \in PagesOf(image) : w = msg.pageIndex /\ w = PageCountOf[image] - 1
    BY <2>2, MsgSays
  <2>6. HoldsPage(image, w)' /\ ~Spent(image, w)
    BY <2>0, <2>2, <2>3, <2>4, <2>5, CompletedPage, CompletesNotSpent
  <2>7. ASSUME NEW p \in PagesOf(image), p < w PROVE HoldsPage(image, p)'
    <3>1. HoldsPage(image, p) /\ p \in Pages
      BY <2>0, <2>6, <2>7, PageFacts DEF FinishInv
    <3> QED
      BY <2>0, <2>2, <2>3, <2>4, <2>5, <2>7, <3>1, EarlierStays
  <2>8. \A p \in PagesOf(image) : p < w \/ p = w
    <3>1. PageCountOf[image] \in Nat
      BY PageFacts
    <3> QED
      BY <2>5, <3>1 DEF PagesOf
  <2> QED
    BY <2>6, <2>7, <2>8 DEF HoldsImage, PagesOf
<1> QED
  BY <1>1, FinishInvariant, SavedInvariant, TypeInvariant, PTL

\* What fmt_update.in.h:28 says of the callback holds in every behaviour in which no
\* success misleads the widget and no page is completed with chunks of several images.
THEOREM FinishUnlessMisled ==
  Spec /\ [](~misled /\ ~mixed) => FinishMeansSaved
<1>1. TypeInv /\ [Next]_vars /\ ~misled /\ ~mixed' /\ FinishFindsImage
        => (~finishCalls /\ finishCalls' => AnImageIsSaved')
  <2> SUFFICES ASSUME TypeInv, [Next]_vars, ~misled, ~mixed', FinishFindsImage,
                      ~finishCalls, finishCalls'
               PROVE  AnImageIsSaved'
    OBVIOUS
  <2>1. DeliverChunk
    BY DEF Next, Submit, Timeout, LoseChunk, DeliverStatus, DuplicateStatus, LoseStatus,
           ResetDevice, DeviceReset, vars, deviceVars
  <2>2. PICK msg \in Msgs : msg = Head(downlink) /\ HandleImageData(msg)
    BY <2>1, Oldest DEF TypeInv, UiType, DeliverChunk
  <2>3. Completes(msg) /\ msg.pageIndex = msg.pageCount - 1
    BY <2>2 DEF HandleImageData, Completes, PageComplete, PageIncomplete, RejectMsg
  <2>4. PICK image \in Images : image = ImageOf(msg) /\ msg.pageCount = PageCountOf[image]
    BY MsgSays
  <2>5. FinishCallback(image)
    BY <2>1, <2>2, <2>3, <2>4 DEF FinishCallback
  <2> QED
    BY <2>5 DEF FinishFindsImage, AnImageIsSaved
<1> QED
  BY <1>1, FinishIsSaved, TypeInvariant, PTL DEF Spec, FinishMeansSaved
=============================================================================
