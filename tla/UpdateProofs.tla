----------------------------- MODULE UpdateProofs -----------------------------
(***************************************************************************)
(* What reaches flash in an update, and when the start callback runs, for  *)
(* images, partitions and erase blocks of every size.                      *)
(***************************************************************************)
EXTENDS UpdateSystem, TLAPS, SequenceTheorems

\* The messages that the widget may send.
IsChunk(msg) ==
  \E i \in Images, p \in Pages, k \in Chunks :
    p < PageCountOf[i] /\ k < ChunkCountOf(i, p) /\ msg = ImageData(i, p, k)

Msgs ==
  {msg \in {ImageData(i, p, k) : i \in Images, p \in Pages, k \in Chunks} : IsChunk(msg)}

DeviceType ==
  /\ chunksPending \in (SUBSET Chunks) \ {{}}
  /\ activePage \in Pages
  /\ pageBuffer \in [Chunks -> Payloads]
  /\ flash \in [Pages -> [Chunks -> Payloads]]
  /\ startCalls \in BOOLEAN /\ finishCalls \in BOOLEAN
  /\ uplink \in Seq(StatusMsgs)

UiType ==
  /\ pages \in Images \cup {NoImage}
  /\ activePageIndex \in Nat
  /\ timeoutArmed \in BOOLEAN
  /\ progress \in {"No upload yet", "Upload in progress", "Upload complete",
                   "Failed: timeout", "Failed: bad message"}
  /\ downlink \in Seq(Msgs)

HistoryType ==
  /\ older \in Nat /\ older <= Len(downlink)
  /\ stale \in Nat /\ stale <= Len(uplink)
  /\ misled \in BOOLEAN /\ mixed \in BOOLEAN

TypeInv == DeviceType /\ UiType /\ HistoryType

LEMMA Partition ==
  /\ Chunks # {} /\ 0 \in Chunks /\ 0 \in Pages
  /\ Chunks \subseteq Nat /\ Pages \subseteq Nat
  BY PartitionAssumption DEF Chunks, Pages

\* Every page of an image is in the partition and has a chunk at least.
LEMMA ImageFits ==
  ASSUME NEW i \in Images
  PROVE  /\ PageCountOf[i] \in Nat /\ PageCountOf[i] > 0
         /\ \A p \in Nat : p < PageCountOf[i] => p \in Pages
         /\ \A p \in Nat : ChunkCountOf(i, p) \in 1 .. ChunksPerPageMax
<1>1. /\ PageCountOf[i] \in Nat /\ PageCountOf[i] > 0 /\ PageCountOf[i] <= PagesCountMax
      /\ LastChunkCount[i] \in 1 .. FullChunkCount
      /\ FullChunkCount \in Nat /\ FullChunkCount > 0 /\ FullChunkCount = ChunksPerPageMax
  BY ImageAssumption, SharedConfiguration
<1>2. \A p \in Nat : p < PageCountOf[i] => p \in Pages
  BY <1>1, PartitionAssumption DEF Pages
<1>3. \A p \in Nat : ChunkCountOf(i, p) \in 1 .. ChunksPerPageMax
  BY <1>1, PartitionAssumption DEF ChunkCountOf
<1> QED
  BY <1>1, <1>2, <1>3

\* What a message of the widget says.
LEMMA MsgFacts ==
  ASSUME NEW msg \in Msgs
  PROVE  \E i \in Images, p \in Pages, k \in Chunks :
           /\ p < PageCountOf[i] /\ k < ChunkCountOf(i, p)
           /\ msg.pageIndex = p /\ msg.pageCount = PageCountOf[i]
           /\ msg.chunkIndex = k /\ msg.chunkCountInPage = ChunkCountOf(i, p)
           /\ msg.payload = Bytes(i, p, k)
<1>1. PICK i \in Images, p \in Pages, k \in Chunks :
        p < PageCountOf[i] /\ k < ChunkCountOf(i, p) /\ msg = ImageData(i, p, k)
  BY DEF Msgs, IsChunk
<1> QED
  BY <1>1 DEF ImageData

\* A page is made of what is erased and of what an image holds.
LEMMA PayloadFacts ==
  /\ Blank \in Payloads
  /\ \A i \in Images, p \in Pages, k \in Chunks : Bytes(i, p, k) \in Payloads
  BY DEF Payloads, Bytes

\* sendPage sends messages of its page.
LEMMA SentChunks ==
  ASSUME NEW i \in Images, NEW p \in Nat, p < PageCountOf[i]
  PROVE  /\ ChunkMsgs(i, p) \in Seq(Msgs)
         /\ Len(ChunkMsgs(i, p)) = ChunkCountOf(i, p)
         /\ \A n \in 1 .. ChunkCountOf(i, p) : ChunkMsgs(i, p)[n] = ImageData(i, p, n - 1)
<1> DEFINE count == ChunkCountOf(i, p)
<1>1. p \in Pages /\ count \in 1 .. ChunksPerPageMax
  BY ImageFits
<1>2. count \in Nat
  BY <1>1, PartitionAssumption
<1>3. ASSUME NEW n \in 1 .. count
      PROVE  ImageData(i, p, n - 1) \in Msgs
  <2>1. n - 1 \in Chunks /\ n - 1 < count
    BY <1>1, <1>2, PartitionAssumption DEF Chunks
  <2> QED
    BY <1>1, <2>1 DEF Msgs, IsChunk
<1>4. ChunkMsgs(i, p) \in [1 .. count -> Msgs]
  BY <1>3 DEF ChunkMsgs
<1>5. ChunkMsgs(i, p) \in Seq(Msgs) /\ Len(ChunkMsgs(i, p)) = count
  BY <1>2, <1>4
<1>6. \A n \in 1 .. count : ChunkMsgs(i, p)[n] = ImageData(i, p, n - 1)
  BY DEF ChunkMsgs
<1> QED
  BY <1>5, <1>6

-----------------------------------------------------------------------------
\* fmt_flash_write leaves the page as it was given, and every other page as it was or
\* erased.
LEMMA FlashWriteFacts ==
  ASSUME NEW page \in Pages, NEW mem \in [Pages -> [Chunks -> Payloads]],
         NEW data \in [Chunks -> Payloads]
  PROVE  /\ FlashWrite(mem, page, data) \in [Pages -> [Chunks -> Payloads]]
         /\ FlashWrite(mem, page, data)[page] = data
         /\ \A q \in Pages \ {page} :
              \/ FlashWrite(mem, page, data)[q] = mem[q]
              \/ \A k \in Chunks : FlashWrite(mem, page, data)[q][k] = Blank
<1> DEFINE ready == PrepareToWrite(mem, page)
<1>1. Blank \in Payloads
  BY PayloadFacts
<1>2. /\ ready \in [Pages -> [Chunks -> Payloads]]
      /\ \A k \in Chunks : ready[page][k] = Blank
      /\ \A q \in Pages : ready[q] = mem[q] \/ \A k \in Chunks : ready[q][k] = Blank
  <2>1. CASE FlashIsErased(mem, page)
    BY <2>1 DEF PrepareToWrite, FlashIsErased
  <2>2. CASE ~FlashIsErased(mem, page)
    <3>1. ready = [q \in Pages |-> IF SameEraseBlock(page, q)
                                     THEN [c \in Chunks |-> Blank] ELSE mem[q]]
      BY <2>2 DEF PrepareToWrite, FlashErase
    <3>2. SameEraseBlock(page, page)
      BY DEF SameEraseBlock
    <3> QED
      BY <1>1, <3>1, <3>2
  <2> QED
    BY <2>1, <2>2
<1> HIDE DEF ready
<1>3. FlashWrite(mem, page, data)
        = [ready EXCEPT ![page] = [c \in Chunks |-> Programmed(ready[page][c], data[c])]]
  BY DEF FlashWrite, ProgramPage, ready
<1>4. [c \in Chunks |-> Programmed(ready[page][c], data[c])] = data
  BY <1>2 DEF Programmed
<1>5. FlashWrite(mem, page, data) = [ready EXCEPT ![page] = data]
  BY <1>3, <1>4
<1> QED
  BY <1>2, <1>5

-----------------------------------------------------------------------------
\* The oldest entry of a sequence that has one, and the rest.
LEMMA Oldest ==
  ASSUME NEW S, NEW s \in Seq(S), s # <<>>
  PROVE  /\ Head(s) \in S /\ Head(s) = s[1]
         /\ Tail(s) \in Seq(S) /\ Len(s) \in Nat \ {0} /\ Len(Tail(s)) = Len(s) - 1
         /\ \A n \in 1 .. Len(s) - 1 : Tail(s)[n] = s[n + 1]
  BY HeadTailProperties, EmptySeq, LenProperties

\* An answer of the device is the newest status.
LEMMA Answered ==
  ASSUME NEW page \in Pages, NEW outcome \in {"WRITE_SUCCESS", "WRITE_FAIL"},
         uplink \in Seq(StatusMsgs), NEW more,
         more = Append(uplink, PageStatus(page, outcome))
  PROVE  /\ more \in Seq(StatusMsgs) /\ Len(more) = Len(uplink) + 1
         /\ more[Len(more)] = PageStatus(page, outcome)
         /\ \A n \in 1 .. Len(uplink) : more[n] = uplink[n]
<1>1. PageStatus(page, outcome) \in StatusMsgs
  BY DEF PageStatus, StatusMsgs
<1> QED
  BY <1>1, AppendProperties, LenProperties

\* What fmt_handleRx does with a message of the widget.
LEMMA DeviceStep ==
  ASSUME DeviceType, NEW msg \in Msgs, HandleImageData(msg)
  PROVE  DeviceType' /\ Len(uplink') \in Nat /\ Len(uplink') >= Len(uplink)
<1> USE DEF DeviceType
<1>1. PICK i \in Images, p \in Pages, k \in Chunks :
        /\ msg.pageIndex = p /\ msg.pageCount = PageCountOf[i]
        /\ msg.chunkIndex = k /\ k < ChunkCountOf(i, p)
        /\ msg.chunkCountInPage = ChunkCountOf(i, p)
        /\ msg.payload = Bytes(i, p, k)
  BY MsgFacts
<1>2. BufferAfter(msg) \in [Chunks -> Payloads]
  BY <1>1, PayloadFacts DEF BufferAfter
<1>3. NO_CHUNKS_PROCESSED \in (SUBSET Chunks) \ {{}}
  BY Partition DEF NO_CHUNKS_PROCESSED
<1>4. CASE ImageDataMsgValid(msg) /\ PendingAfter(msg) = {} /\ PageComplete(msg)
  <2>1. uplink' = Append(uplink, PageStatus(p, "WRITE_SUCCESS"))
    BY <1>1, <1>4 DEF PageComplete, PrepForNewPage
  <2>2. uplink' \in Seq(StatusMsgs) /\ Len(uplink') = Len(uplink) + 1
    BY <2>1, Answered
  <2>3. flash' \in [Pages -> [Chunks -> Payloads]]
    BY <1>1, <1>2, <1>4, FlashWriteFacts DEF PageComplete, ProcessPage
  <2>4. /\ chunksPending' = NO_CHUNKS_PROCESSED
        /\ activePage' = p /\ pageBuffer' = BufferAfter(msg)
        /\ startCalls' \in BOOLEAN /\ finishCalls' \in BOOLEAN
    BY <1>1, <1>4 DEF PageComplete, ProcessChunk, PrepForNewPage
  <2> QED
    BY <1>2, <1>3, <2>2, <2>3, <2>4, LenProperties
<1>5. CASE ImageDataMsgValid(msg) /\ PendingAfter(msg) # {} /\ PageIncomplete(msg)
  <2>1. PendingAfter(msg) \subseteq Chunks
    BY <1>1 DEF PendingAfter, FlipBit
  <2> QED
    BY <1>1, <1>2, <1>5, <2>1, LenProperties DEF PageIncomplete, ProcessChunk
<1>6. CASE ~ImageDataMsgValid(msg) /\ RejectMsg
  <2>1. uplink' \in Seq(StatusMsgs) /\ Len(uplink') = Len(uplink) + 1
    BY <1>6, Answered DEF RejectMsg, PrepForNewPage
  <2> QED
    BY <1>3, <1>6, <2>1, LenProperties DEF RejectMsg, PrepForNewPage
<1> QED
  BY <1>4, <1>5, <1>6 DEF HandleImageData

\* What sendPage adds to the messages under way.
LEMMA Sent ==
  ASSUME UiType, NEW i \in Images, NEW p \in Nat, p < PageCountOf[i], SendPage(i, p)
  PROVE  /\ downlink' \in Seq(Msgs) /\ timeoutArmed'
         /\ Len(downlink) \in Nat
         /\ Len(downlink') = Len(downlink) + ChunkCountOf(i, p)
         /\ \A n \in 1 .. Len(downlink) : downlink'[n] = downlink[n]
         /\ \A n \in Len(downlink) + 1 .. Len(downlink') :
              downlink'[n] = ImageData(i, p, n - Len(downlink) - 1)
<1>1. ChunkMsgs(i, p) \in Seq(Msgs) /\ Len(ChunkMsgs(i, p)) = ChunkCountOf(i, p)
  BY SentChunks
<1>2. \A n \in 1 .. ChunkCountOf(i, p) : ChunkMsgs(i, p)[n] = ImageData(i, p, n - 1)
  BY SentChunks
<1>3. downlink' = downlink \o ChunkMsgs(i, p) /\ timeoutArmed' = TRUE
  BY DEF SendPage
<1>4. downlink \in Seq(Msgs) /\ Len(downlink) \in Nat
  BY LenProperties DEF UiType
<1>5. ChunkCountOf(i, p) \in 1 .. ChunksPerPageMax
  BY ImageFits
<1>6. /\ downlink' \in Seq(Msgs)
      /\ Len(downlink') = Len(downlink) + ChunkCountOf(i, p)
      /\ \A n \in 1 .. Len(downlink) + ChunkCountOf(i, p) :
           downlink'[n] = IF n <= Len(downlink) THEN downlink[n]
                          ELSE ChunkMsgs(i, p)[n - Len(downlink)]
  BY <1>1, <1>3, <1>4, ConcatProperties
<1>7. \A n \in 1 .. Len(downlink) : downlink'[n] = downlink[n]
  BY <1>4, <1>5, <1>6, PartitionAssumption
<1>8. ASSUME NEW n \in Len(downlink) + 1 .. Len(downlink')
      PROVE  downlink'[n] = ImageData(i, p, n - Len(downlink) - 1)
  <2>1. n - Len(downlink) \in 1 .. ChunkCountOf(i, p) /\ n \in Nat
    BY <1>4, <1>5, <1>6, PartitionAssumption
  <2>2. downlink'[n] = ChunkMsgs(i, p)[n - Len(downlink)]
    BY <1>4, <1>5, <1>6, <2>1, PartitionAssumption
  <2> QED
    BY <1>2, <2>1, <2>2
<1> QED
  BY <1>3, <1>4, <1>6, <1>7, <1>8

\* What the widget does with a status: it ends the upload, or goes to the next page,
\* which it may send.
LEMMA StatusStep ==
  ASSUME UiType, NEW status \in StatusMsgs, UpdateStatus(status)
  PROVE  UiType' /\ Len(downlink') >= Len(downlink)
<1>0. UiType /\ Len(downlink) \in Nat
  BY LenProperties DEF UiType
<1>1. CASE UNCHANGED <<uiVars, downlink>>
  <2>1. UiType'
    BY <1>0, <1>1 DEF UiType, uiVars
  <2> QED
    BY <1>0, <1>1, <2>1
<1>2. CASE Forget("Upload complete") \/ Forget("Failed: bad message")
  <2>1. UiType'
    <3>1. CASE Forget("Upload complete")
      BY <1>0, <3>1 DEF UiType, Forget
    <3>2. CASE Forget("Failed: bad message")
      BY <1>0, <3>2 DEF UiType, Forget
    <3> QED
      BY <1>2, <3>1, <3>2
  <2>2. Len(downlink') = Len(downlink)
    BY <1>2 DEF Forget
  <2> QED
    BY <1>0, <2>1, <2>2
<1>3. CASE pages # NoImage /\ NextPage(status)
  <2> DEFINE next == activePageIndex + 1
  <2>0. pages \in Images \cup {NoImage} /\ activePageIndex \in Nat
    BY <1>0 DEF UiType
  <2>1. pages \in Images /\ next \in Nat
    BY <1>3, <2>0
  <2>2. UNCHANGED <<pages, progress>> /\ activePageIndex' = next
    BY <1>3 DEF NextPage
  <2>3. CASE next < PageCountOf[pages]
    <3>1. SendPage(pages, next)
      BY <1>3, <2>3 DEF NextPage
    <3>2. ChunkCountOf(pages, next) \in Nat
      <4>1. ChunkCountOf(pages, next) \in 1 .. ChunksPerPageMax
        BY <2>1, ImageFits
      <4> QED
        BY <4>1, PartitionAssumption
    <3> HIDE DEF next
    <3>3. /\ downlink' \in Seq(Msgs) /\ timeoutArmed'
          /\ Len(downlink') = Len(downlink) + ChunkCountOf(pages, next)
      BY <1>0, <2>1, <2>3, <3>1, Sent
    <3>4. timeoutArmed' = TRUE
      BY <3>1 DEF SendPage
    <3>5. UiType'
      BY <1>0, <2>1, <2>2, <3>3, <3>4 DEF UiType
    <3> QED
      BY <1>0, <3>2, <3>3, <3>5
  <2>4. CASE ~(next < PageCountOf[pages])
    <3>1. UNCHANGED <<downlink, timeoutArmed>>
      BY <1>3, <2>4 DEF NextPage
    <3>2. UiType'
      BY <1>0, <2>1, <2>2, <3>1 DEF UiType
    <3> QED
      BY <1>0, <3>1, <3>2
  <2> QED
    BY <2>3, <2>4
<1> QED
  BY <1>1, <1>2, <1>3 DEF UpdateStatus

-----------------------------------------------------------------------------
LEMMA TypeInit ==
  Init => TypeInv
<1> SUFFICES ASSUME Init PROVE TypeInv
  OBVIOUS
<1>0. /\ uplink = <<>> /\ downlink = <<>> /\ startCalls = FALSE /\ finishCalls = FALSE
      /\ timeoutArmed = FALSE /\ misled = FALSE /\ mixed = FALSE
      /\ chunksPending = NO_CHUNKS_PROCESSED /\ activePage = 0
      /\ pageBuffer = [k \in Chunks |-> Blank] /\ flash = [p \in Pages |-> pageBuffer]
      /\ pages = NoImage /\ activePageIndex = 0 /\ progress = "No upload yet"
      /\ older = 0 /\ stale = 0
  BY DEF Init, DeviceInit, UiInit
<1>1. DeviceType
  <2>1. pageBuffer \in [Chunks -> Payloads]
    BY <1>0, PayloadFacts
  <2>2. flash \in [Pages -> [Chunks -> Payloads]]
    BY <1>0, <2>1
  <2>3. chunksPending \in (SUBSET Chunks) \ {{}} /\ activePage \in Pages
    BY <1>0, Partition DEF NO_CHUNKS_PROCESSED
  <2>4. uplink \in Seq(StatusMsgs)
    BY <1>0, EmptySeq
  <2> QED
    BY <1>0, <2>1, <2>2, <2>3, <2>4 DEF DeviceType
<1>2. UiType
  <2>1. downlink \in Seq(Msgs)
    BY <1>0, EmptySeq
  <2> QED
    BY <1>0, <2>1 DEF UiType
<1>3. Len(downlink) = 0 /\ Len(uplink) = 0
  BY <1>0, EmptySeq
<1>4. older = 0 /\ stale = 0 /\ misled \in BOOLEAN /\ mixed \in BOOLEAN
  BY <1>0
<1>5. HistoryType
  BY <1>3, <1>4 DEF HistoryType
<1> QED
  BY <1>1, <1>2, <1>5 DEF TypeInv

\* The oldest message leaves, and with it the oldest of those before the last submit.
LEMMA OneLessOlder ==
  ASSUME NEW n \in Nat, NEW count \in Nat \ {0}, n <= count
  PROVE  OneLess(n) \in Nat /\ OneLess(n) <= count - 1
  BY DEF OneLess

LEMMA TypeStep ==
  TypeInv /\ [Next]_vars => TypeInv'
<1> SUFFICES ASSUME TypeInv, [Next]_vars PROVE TypeInv'
  OBVIOUS
<1>0. DeviceType /\ UiType /\ HistoryType
  BY DEF TypeInv
<1>l. Len(downlink) \in Nat /\ Len(uplink) \in Nat
  BY <1>0, LenProperties DEF DeviceType, UiType
<1>1. ASSUME NEW image \in Images, Submit(image) PROVE TypeInv'
  <2>1. SendPage(image, 0)
    BY <1>1 DEF Submit, HandleSubmit
  <2>2. 0 < PageCountOf[image] /\ ChunkCountOf(image, 0) \in 1 .. ChunksPerPageMax
    BY ImageFits
  <2>3. /\ downlink' \in Seq(Msgs)
        /\ Len(downlink') = Len(downlink) + ChunkCountOf(image, 0)
    BY <1>0, <2>1, <2>2, Sent
  <2>4. Len(downlink) <= Len(downlink')
    BY <1>l, <2>2, <2>3, PartitionAssumption
  <2>5. UiType'
    BY <1>1, <2>3 DEF UiType, Submit, HandleSubmit, SendPage
  <2>6. DeviceType'
    BY <1>0, <1>1 DEF DeviceType, Submit, deviceVars
  <2>7. HistoryType'
    BY <1>0, <1>l, <1>1, <2>4 DEF HistoryType, Submit
  <2> QED
    BY <2>5, <2>6, <2>7 DEF TypeInv
<1>2. CASE Timeout
  <2> USE <1>0, <1>2 DEF Timeout, HandleTimeout, Forget, deviceVars, history
  <2>1. DeviceType'
    BY DEF DeviceType
  <2>2. UiType'
    BY DEF UiType
  <2>3. HistoryType'
    BY DEF HistoryType
  <2> QED
    BY <2>1, <2>2, <2>3 DEF TypeInv
<1>3. CASE DeliverChunk
  <2> USE <1>3 DEF DeliverChunk
  <2>1. Head(downlink) \in Msgs /\ downlink' \in Seq(Msgs) /\ Len(downlink') = Len(downlink) - 1
        /\ Len(downlink) \in Nat \ {0}
    BY <1>0, Oldest DEF UiType
  <2>2. DeviceType' /\ Len(uplink') \in Nat /\ Len(uplink') >= Len(uplink)
    BY <1>0, <2>1, DeviceStep
  <2>3. UiType'
    BY <1>0, <2>1 DEF UiType, uiVars
  <2>4. mixed' \in BOOLEAN
    BY <1>0 DEF HistoryType, Completes
  <2>5. HistoryType'
    BY <1>0, <1>l, <2>1, <2>2, <2>4, OneLessOlder DEF HistoryType
  <2> QED
    BY <2>2, <2>3, <2>5 DEF TypeInv
<1>4. CASE LoseChunk
  <2> USE <1>4 DEF LoseChunk
  <2>1. downlink' \in Seq(Msgs) /\ Len(downlink') = Len(downlink) - 1
        /\ Len(downlink) \in Nat \ {0}
    BY <1>0, Oldest DEF UiType
  <2>2. DeviceType'
    BY <1>0 DEF DeviceType, deviceVars
  <2>3. UiType'
    BY <1>0, <2>1 DEF UiType, uiVars
  <2>4. HistoryType'
    BY <1>0, <1>l, <2>1, OneLessOlder DEF HistoryType
  <2> QED
    BY <2>2, <2>3, <2>4 DEF TypeInv
<1>5. CASE DeliverStatus
  <2> USE <1>5 DEF DeliverStatus
  <2>1. Head(uplink) \in StatusMsgs /\ uplink' \in Seq(StatusMsgs)
        /\ Len(uplink') = Len(uplink) - 1 /\ Len(uplink) \in Nat \ {0}
    BY <1>0, Oldest DEF DeviceType
  <2>2. UiType' /\ Len(downlink') >= Len(downlink)
    BY <1>0, <2>1, StatusStep
  <2>3. DeviceType'
    BY <1>0, <2>1 DEF DeviceType, deviceVars
  <2>4. misled' \in BOOLEAN
    BY <1>0 DEF HistoryType, MisledBy
  <2>5. Len(downlink') \in Nat
    BY <2>2, LenProperties DEF UiType
  <2>6. HistoryType'
    BY <1>0, <1>l, <2>1, <2>2, <2>4, <2>5, OneLessOlder DEF HistoryType
  <2> QED
    BY <2>2, <2>3, <2>6 DEF TypeInv
<1>6. CASE DuplicateStatus
  <2> USE <1>6 DEF DuplicateStatus
  <2>1. Head(uplink) \in StatusMsgs
    BY <1>0, Oldest DEF DeviceType
  <2>2. UiType' /\ Len(downlink') >= Len(downlink)
    BY <1>0, <2>1, StatusStep
  <2>3. DeviceType'
    BY <1>0 DEF DeviceType, deviceVars
  <2>4. misled' \in BOOLEAN
    BY <1>0 DEF HistoryType, MisledBy
  <2>5. Len(downlink') \in Nat
    BY <2>2, LenProperties DEF UiType
  <2>6. HistoryType'
    BY <1>0, <1>l, <2>2, <2>4, <2>5 DEF HistoryType
  <2> QED
    BY <2>2, <2>3, <2>6 DEF TypeInv
<1>7. CASE LoseStatus
  <2> USE <1>7 DEF LoseStatus
  <2>1. uplink' \in Seq(StatusMsgs) /\ Len(uplink') = Len(uplink) - 1
        /\ Len(uplink) \in Nat \ {0}
    BY <1>0, Oldest DEF DeviceType
  <2>2. DeviceType'
    BY <1>0, <2>1 DEF DeviceType, deviceVars
  <2>3. UiType'
    BY <1>0 DEF UiType, uiVars
  <2>4. HistoryType'
    BY <1>0, <1>l, <2>1, OneLessOlder DEF HistoryType
  <2> QED
    BY <2>2, <2>3, <2>4 DEF TypeInv
<1>8. CASE ResetDevice
  <2> USE <1>0, <1>8 DEF ResetDevice, DeviceReset
  <2>1. DeviceType'
    BY Partition, PayloadFacts DEF DeviceType, NO_CHUNKS_PROCESSED
  <2>2. UiType'
    BY DEF UiType, uiVars
  <2>3. HistoryType'
    BY DEF HistoryType, history
  <2> QED
    BY <2>1, <2>2, <2>3 DEF TypeInv
<1>9. CASE UNCHANGED vars
  <2> USE <1>0, <1>9 DEF vars, deviceVars, uiVars, history
  <2>1. DeviceType'
    BY DEF DeviceType
  <2>2. UiType'
    BY DEF UiType
  <2>3. HistoryType'
    BY DEF HistoryType
  <2> QED
    BY <2>1, <2>2, <2>3 DEF TypeInv
<1> QED
  BY <1>1, <1>2, <1>3, <1>4, <1>5, <1>6, <1>7, <1>8, <1>9 DEF Next

LEMMA TypeInvariant ==
  Spec => []TypeInv
  BY TypeInit, TypeStep, PTL DEF Spec

\* In every state of an update the variables have their types: the pending bits never
\* run out without a page going to flash, and a status names a page of the partition.
THEOREM TypeCorrect ==
  Spec => []TypeOK
<1>1. TypeInv => TypeOK
  <2> SUFFICES ASSUME TypeInv PROVE TypeOK
    OBVIOUS
  <2>1. DeviceType /\ UiType /\ HistoryType
    BY DEF TypeInv
  <2>2. Len(downlink) \in Nat /\ Len(uplink) \in Nat
    BY <2>1, LenProperties DEF DeviceType, UiType
  <2>3. older \in 0 .. Len(downlink) /\ stale \in 0 .. Len(uplink) /\ misled \in BOOLEAN
        /\ mixed \in BOOLEAN
    BY <2>1, <2>2 DEF HistoryType
  <2> QED
    BY <2>1, <2>3 DEF TypeOK, DeviceType, UiType
<1> QED
  BY <1>1, TypeInvariant, PTL

-----------------------------------------------------------------------------
\* Before the start callback nothing but the first page is on its way, and nothing
\* has been written.
Untouched ==
  /\ ~finishCalls
  /\ \A page \in Pages, k \in Chunks : flash[page][k] = Blank
  /\ activePageIndex = 0
  /\ \A n \in 1 .. Len(downlink) : downlink[n].pageIndex = 0
  /\ \A n \in 1 .. Len(uplink) : uplink[n].status = "WRITE_FAIL"

StartInv == startCalls \/ Untouched

\* A status that is no success moves no upload on.
LEMMA FailMovesNothing ==
  ASSUME NEW status, status.status = "WRITE_FAIL", UpdateStatus(status)
  PROVE  UNCHANGED downlink /\ (activePageIndex' = activePageIndex \/ activePageIndex' = 0)
<1>1. CASE UNCHANGED <<uiVars, downlink>>
  BY <1>1 DEF uiVars
<1>2. CASE Forget("Failed: bad message")
  BY <1>2 DEF Forget
<1> QED
  BY <1>1, <1>2 DEF UpdateStatus

LEMMA StartInit ==
  Init => StartInv
<1> SUFFICES ASSUME Init PROVE Untouched
  BY DEF StartInv
<1>0. /\ uplink = <<>> /\ downlink = <<>> /\ finishCalls = FALSE /\ activePageIndex = 0
      /\ pageBuffer = [k \in Chunks |-> Blank] /\ flash = [p \in Pages |-> pageBuffer]
  BY DEF Init, DeviceInit, UiInit
<1>1. \A page \in Pages, k \in Chunks : flash[page][k] = Blank
  BY <1>0
<1>2. Len(downlink) = 0 /\ Len(uplink) = 0
  BY <1>0, EmptySeq
<1>3. /\ \A n \in 1 .. Len(downlink) : downlink[n].pageIndex = 0
      /\ \A n \in 1 .. Len(uplink) : uplink[n].status = "WRITE_FAIL"
  BY <1>2
<1> QED
  BY <1>0, <1>1, <1>3 DEF Untouched

LEMMA StartStep ==
  TypeInv /\ StartInv /\ [Next]_vars => StartInv'
<1> SUFFICES ASSUME TypeInv, StartInv, [Next]_vars PROVE StartInv'
  OBVIOUS
<1>0. DeviceType /\ UiType /\ HistoryType
  BY DEF TypeInv
<1>l. Len(downlink) \in Nat /\ Len(uplink) \in Nat
  BY <1>0, LenProperties DEF DeviceType, UiType
<1>1. ASSUME NEW image \in Images, Submit(image) PROVE StartInv'
  <2>1. CASE startCalls
    BY <1>1, <2>1 DEF StartInv, Submit, deviceVars
  <2>2. CASE Untouched
    <3>1. SendPage(image, 0) /\ activePageIndex' = 0
      BY <1>1 DEF Submit, HandleSubmit
    <3>2. 0 < PageCountOf[image]
      BY ImageFits
    <3>3. /\ \A n \in 1 .. Len(downlink) : downlink'[n] = downlink[n]
          /\ \A n \in Len(downlink) + 1 .. Len(downlink') :
               downlink'[n] = ImageData(image, 0, n - Len(downlink) - 1)
          /\ downlink' \in Seq(Msgs)
      BY <1>0, <3>1, <3>2, Sent
    <3>4. \A n \in 1 .. Len(downlink') : downlink'[n].pageIndex = 0
      <4>1. TAKE n \in 1 .. Len(downlink')
      <4>2. Len(downlink') \in Nat
        BY <3>3, LenProperties
      <4>3. CASE n <= Len(downlink)
        BY <1>l, <2>2, <3>3, <4>2, <4>3 DEF Untouched
      <4>4. CASE n > Len(downlink)
        <5>1. n \in Len(downlink) + 1 .. Len(downlink')
          BY <1>l, <4>2, <4>4
        <5>2. downlink'[n] = ImageData(image, 0, n - Len(downlink) - 1)
          BY <3>3, <5>1
        <5> QED
          BY <5>2 DEF ImageData
      <4> QED
        BY <1>l, <4>2, <4>3, <4>4
    <3> QED
      BY <1>1, <2>2, <3>1, <3>4 DEF Untouched, StartInv, Submit, deviceVars
  <2> QED
    BY <2>1, <2>2 DEF StartInv
<1>2. CASE Timeout
  BY <1>2 DEF Timeout, HandleTimeout, Forget, StartInv, Untouched, deviceVars
<1>3. CASE DeliverChunk
  <2> DEFINE msg == Head(downlink)
  <2>1. HandleImageData(msg) /\ downlink # <<>> /\ downlink' = Tail(downlink)
        /\ activePageIndex' = activePageIndex
    BY <1>3 DEF DeliverChunk, uiVars
  <2>2. /\ msg \in Msgs /\ msg = downlink[1] /\ Len(downlink) \in Nat \ {0}
        /\ Len(downlink') = Len(downlink) - 1
        /\ \A n \in 1 .. Len(downlink) - 1 : downlink'[n] = downlink[n + 1]
    BY <1>0, <2>1, Oldest DEF UiType
  <2>3. CASE startCalls
    BY <2>1, <2>3 DEF HandleImageData, PageComplete, PageIncomplete, RejectMsg, StartInv
  <2>4. CASE Untouched
    <3>1. \A n \in 1 .. Len(downlink') : downlink'[n].pageIndex = 0
      BY <2>2, <2>4 DEF Untouched
    <3>2. CASE PageComplete(msg)
      <4>1. msg.pageIndex = 0
        BY <2>2, <2>4 DEF Untouched
      <4> QED
        BY <3>2, <4>1 DEF PageComplete, StartInv
    <3>3. CASE PageIncomplete(msg)
      <4>1. /\ \A page \in Pages, k \in Chunks : flash'[page][k] = Blank
            /\ \A n \in 1 .. Len(uplink') : uplink'[n].status = "WRITE_FAIL"
            /\ ~finishCalls' /\ activePageIndex' = 0
        BY <2>1, <2>4, <3>3 DEF PageIncomplete, Untouched
      <4> QED
        BY <3>1, <4>1 DEF Untouched, StartInv
    <3>4. CASE RejectMsg
      <4>1. uplink' = Append(uplink, PageStatus(activePage, "WRITE_FAIL"))
        BY <3>4 DEF RejectMsg, PrepForNewPage
      <4>2. /\ Len(uplink') = Len(uplink) + 1
            /\ uplink'[Len(uplink')] = PageStatus(activePage, "WRITE_FAIL")
            /\ \A n \in 1 .. Len(uplink) : uplink'[n] = uplink[n]
        BY <1>0, <4>1, Answered DEF DeviceType
      <4>3. PageStatus(activePage, "WRITE_FAIL").status = "WRITE_FAIL"
        BY DEF PageStatus
      <4>4. \A n \in 1 .. Len(uplink') : uplink'[n].status = "WRITE_FAIL"
        BY <1>l, <2>4, <4>2, <4>3 DEF Untouched
      <4>5. /\ \A page \in Pages, k \in Chunks : flash'[page][k] = Blank
            /\ ~finishCalls' /\ activePageIndex' = 0
        BY <2>1, <2>4, <3>4 DEF RejectMsg, Untouched
      <4> QED
        BY <3>1, <4>4, <4>5 DEF Untouched, StartInv
    <3> QED
      BY <2>1, <3>2, <3>3, <3>4 DEF HandleImageData
  <2> QED
    BY <2>3, <2>4 DEF StartInv
<1>4. CASE LoseChunk
  <2>1. CASE startCalls
    BY <1>4, <2>1 DEF LoseChunk, deviceVars, StartInv
  <2>2. CASE Untouched
    <3>1. /\ Len(downlink) \in Nat \ {0} /\ Len(downlink') = Len(downlink) - 1
          /\ \A n \in 1 .. Len(downlink) - 1 : downlink'[n] = downlink[n + 1]
      BY <1>0, <1>4, Oldest DEF UiType, LoseChunk
    <3>2. \A n \in 1 .. Len(downlink') : downlink'[n].pageIndex = 0
      BY <2>2, <3>1 DEF Untouched
    <3> QED
      BY <1>4, <2>2, <3>2 DEF LoseChunk, deviceVars, uiVars, Untouched, StartInv
  <2> QED
    BY <2>1, <2>2 DEF StartInv
<1>5. ASSUME UpdateStatus(Head(uplink)), uplink # <<>>, UNCHANGED deviceVars,
             uplink' = Tail(uplink) \/ uplink' = uplink
      PROVE  StartInv'
  <2>1. CASE startCalls
    BY <1>5, <2>1 DEF deviceVars, StartInv
  <2>2. CASE Untouched
    <3>1. /\ Head(uplink) = uplink[1]
          /\ Len(uplink) \in Nat \ {0} /\ Len(Tail(uplink)) = Len(uplink) - 1
          /\ \A n \in 1 .. Len(uplink) - 1 : Tail(uplink)[n] = uplink[n + 1]
      BY <1>0, <1>5, Oldest DEF DeviceType
    <3>2. Head(uplink).status = "WRITE_FAIL"
      BY <2>2, <3>1 DEF Untouched
    <3>3. UNCHANGED downlink /\ activePageIndex' = 0
      BY <1>5, <2>2, <3>2, FailMovesNothing DEF Untouched
    <3>4. \A n \in 1 .. Len(uplink') : uplink'[n].status = "WRITE_FAIL"
      <4>1. CASE uplink' = uplink
        BY <2>2, <4>1 DEF Untouched
      <4>2. CASE uplink' = Tail(uplink)
        BY <2>2, <3>1, <4>2 DEF Untouched
      <4> QED
        BY <1>5, <4>1, <4>2
    <3> QED
      BY <1>5, <2>2, <3>3, <3>4 DEF deviceVars, Untouched, StartInv
  <2> QED
    BY <2>1, <2>2 DEF StartInv
<1>6. CASE DeliverStatus
  BY <1>5, <1>6 DEF DeliverStatus
<1>7. CASE DuplicateStatus
  BY <1>5, <1>7 DEF DuplicateStatus
<1>8. CASE LoseStatus
  <2>1. CASE startCalls
    BY <1>8, <2>1 DEF LoseStatus, deviceVars, StartInv
  <2>2. CASE Untouched
    <3>1. /\ Len(uplink) \in Nat \ {0} /\ Len(uplink') = Len(uplink) - 1
          /\ \A n \in 1 .. Len(uplink) - 1 : uplink'[n] = uplink[n + 1]
      BY <1>0, <1>8, Oldest DEF DeviceType, LoseStatus
    <3>2. \A n \in 1 .. Len(uplink') : uplink'[n].status = "WRITE_FAIL"
      BY <2>2, <3>1 DEF Untouched
    <3> QED
      BY <1>8, <2>2, <3>2 DEF LoseStatus, deviceVars, uiVars, Untouched, StartInv
  <2> QED
    BY <2>1, <2>2 DEF StartInv
<1>9. CASE ResetDevice
  BY <1>9 DEF ResetDevice, DeviceReset, uiVars, StartInv, Untouched
<1>10. CASE UNCHANGED vars
  BY <1>10 DEF vars, deviceVars, uiVars, StartInv, Untouched
<1> QED
  BY <1>1, <1>2, <1>3, <1>4, <1>6, <1>7, <1>8, <1>9, <1>10 DEF Next

LEMMA StartInvariant ==
  Spec => []StartInv
  BY TypeInvariant, StartInit, StartStep, PTL DEF Spec

\* For images of any size, whatever is lost, late or repeated and however often the device
\* restarts: nothing is in flash, and no finish callback runs, before the start callback.
\* The inductive invariant is StartInv: until the first page is written the widget has no
\* success to go on from, so that no other page is on its way.
THEOREM StartIsFirst ==
  Spec => []StartComesFirst
<1>1. StartInv => StartComesFirst
  BY DEF StartInv, Untouched, StartComesFirst
<1> QED
  BY <1>1, StartInvariant, PTL

-----------------------------------------------------------------------------
\* The chunks that an image has of a page, but for those pending, are in their places: each
\* is a chunk of the page, of this image or of another.
HasChunks(image, page, buffer, pending) ==
  /\ page < PageCountOf[image]
  /\ pending \subseteq 0 .. ChunkCountOf(image, page) - 1
  /\ \A k \in (0 .. ChunkCountOf(image, page) - 1) \ pending :
       \E source \in Images : buffer[k] = Bytes(source, page, k)

\* What the buffer of the device holds of the page under way.  When images meet, it is the
\* one with the fewest chunks that decides when the page is complete.
BufferInv ==
  \/ chunksPending = Chunks
  \/ \E image \in Images : HasChunks(image, activePage, pageBuffer, chunksPending)

WholeInv == FlashPagesWhole /\ BufferInv

\* A chunk that is taken joins those of the page under way.
LEMMA BufferFills ==
  ASSUME DeviceType, BufferInv, NEW msg \in Msgs, ImageDataMsgValid(msg)
  PROVE  /\ msg.pageIndex \in Pages /\ BufferAfter(msg) \in [Chunks -> Payloads]
         /\ \E image \in Images :
              HasChunks(image, msg.pageIndex, BufferAfter(msg), PendingAfter(msg))
<1> DEFINE page == msg.pageIndex
           Count(image) == ChunkCountOf(image, page)
<1>1. PICK i \in Images, p \in Pages, k \in Chunks :
        /\ p < PageCountOf[i] /\ k < ChunkCountOf(i, p)
        /\ msg.pageIndex = p /\ msg.pageCount = PageCountOf[i]
        /\ msg.chunkIndex = k /\ msg.chunkCountInPage = ChunkCountOf(i, p)
        /\ msg.payload = Bytes(i, p, k)
  BY MsgFacts
<1>2. page \in Nat /\ k \in Nat /\ \A image \in Images : Count(image) \in 1 .. ChunksPerPageMax
  BY <1>1, ImageFits, Partition
<1>3. \A image \in Images : Count(image) \in Nat /\ 0 .. Count(image) - 1 \subseteq Chunks
  BY <1>2, PartitionAssumption DEF Chunks
<1>4. msg.chunkIndex \in chunksPending /\ (page = activePage \/ chunksPending = Chunks)
  BY DEF ImageDataMsgValid, NO_CHUNKS_PROCESSED
<1>5. PendingAfter(msg) = (chunksPending \ {k}) \cap (0 .. Count(i) - 1)
  BY <1>1, <1>4 DEF PendingAfter, FlipBit
<1>6. pageBuffer \in [Chunks -> Payloads] /\ msg.payload \in Payloads
  BY <1>1, PayloadFacts DEF DeviceType
<1>7. /\ BufferAfter(msg) \in [Chunks -> Payloads]
      /\ BufferAfter(msg)[k] = Bytes(i, page, k)
      /\ \A c \in Chunks : c # k => BufferAfter(msg)[c] = pageBuffer[c]
  BY <1>1, <1>6 DEF BufferAfter
<1>8. CASE chunksPending = Chunks
  <2>1. HasChunks(i, page, BufferAfter(msg), PendingAfter(msg))
    BY <1>1, <1>3, <1>5, <1>7, <1>8 DEF HasChunks
  <2> QED
    BY <1>1, <1>7, <2>1
<1>9. CASE chunksPending # Chunks
  <2>1. page = activePage
    BY <1>4, <1>9
  <2>2. PICK image \in Images : HasChunks(image, page, pageBuffer, chunksPending)
    BY <1>9, <2>1 DEF BufferInv
  <2>3. \A c \in 0 .. Count(image) - 1 : c \notin chunksPending =>
          \E source \in Images : BufferAfter(msg)[c] = Bytes(source, page, c)
    BY <1>3, <1>4, <1>7, <2>2 DEF HasChunks
  <2>4. CASE Count(image) <= Count(i)
    <3>1. PendingAfter(msg) \subseteq 0 .. Count(image) - 1
      BY <1>5, <2>2 DEF HasChunks
    <3>2. ASSUME NEW c \in 0 .. Count(image) - 1, c \notin PendingAfter(msg)
          PROVE  \E source \in Images : BufferAfter(msg)[c] = Bytes(source, page, c)
      <4>1. c \in 0 .. Count(i) - 1
        BY <1>3, <2>4
      <4>2. c = k \/ c \notin chunksPending
        BY <1>5, <3>2, <4>1
      <4> QED
        BY <1>7, <2>3, <4>2
    <3>3. HasChunks(image, page, BufferAfter(msg), PendingAfter(msg))
      BY <2>2, <3>1, <3>2 DEF HasChunks
    <3> QED
      BY <1>1, <1>7, <3>3
  <2>5. CASE Count(i) < Count(image)
    <3>1. PendingAfter(msg) \subseteq 0 .. Count(i) - 1
      BY <1>5
    <3>2. ASSUME NEW c \in 0 .. Count(i) - 1, c \notin PendingAfter(msg)
          PROVE  \E source \in Images : BufferAfter(msg)[c] = Bytes(source, page, c)
      <4>1. c \in 0 .. Count(image) - 1
        BY <1>3, <2>5
      <4>2. c = k \/ c \notin chunksPending
        BY <1>5, <3>2
      <4> QED
        BY <1>7, <2>3, <4>1, <4>2
    <3>3. HasChunks(i, page, BufferAfter(msg), PendingAfter(msg))
      BY <1>1, <3>1, <3>2 DEF HasChunks
    <3> QED
      BY <1>1, <1>7, <3>3
  <2> QED
    BY <1>3, <2>4, <2>5
<1> QED
  BY <1>8, <1>9

\* Whatever the message, the buffer agrees with the pending bits.
LEMMA BufferStep ==
  ASSUME DeviceType, BufferInv, NEW msg \in Msgs, HandleImageData(msg)
  PROVE  BufferInv'
<1>1. CASE PageComplete(msg) \/ RejectMsg
  BY <1>1 DEF PageComplete, RejectMsg, PrepForNewPage, NO_CHUNKS_PROCESSED, BufferInv
<1>2. CASE ImageDataMsgValid(msg) /\ PageIncomplete(msg)
  <2>1. /\ activePage' = msg.pageIndex /\ chunksPending' = PendingAfter(msg)
        /\ pageBuffer' = BufferAfter(msg)
    BY <1>2 DEF PageIncomplete, ProcessChunk
  <2>2. PICK image \in Images :
          HasChunks(image, msg.pageIndex, BufferAfter(msg), PendingAfter(msg))
    BY <1>2, BufferFills
  <2>3. HasChunks(image, activePage, pageBuffer, chunksPending)'
    BY <2>1, <2>2 DEF HasChunks
  <2> QED
    BY <2>3 DEF BufferInv
<1> QED
  BY <1>1, <1>2 DEF HandleImageData

\* A page that is completed is in flash with its chunks, and the others are as they were,
\* or erased.
LEMMA WrittenIsWhole ==
  ASSUME DeviceType, BufferInv, FlashPagesWhole,
         NEW msg \in Msgs, ImageDataMsgValid(msg), PendingAfter(msg) = {}, PageComplete(msg)
  PROVE  FlashPagesWhole'
<1>1. PICK image \in Images :
        HasChunks(image, msg.pageIndex, BufferAfter(msg), PendingAfter(msg))
  BY BufferFills
<1>2. msg.pageIndex \in Pages /\ BufferAfter(msg) \in [Chunks -> Payloads]
  BY BufferFills
<1>3. flash' = FlashWrite(flash, msg.pageIndex, BufferAfter(msg))
  BY DEF PageComplete, ProcessPage
<1>4. /\ flash'[msg.pageIndex] = BufferAfter(msg)
      /\ \A q \in Pages \ {msg.pageIndex} :
           flash'[q] = flash[q] \/ \A k \in Chunks : flash'[q][k] = Blank
  BY <1>2, <1>3, FlashWriteFacts DEF DeviceType
<1>5. ASSUME NEW page \in Pages
      PROVE  \/ \A k \in Chunks : flash'[page][k] = Blank
             \/ \E img \in Images :
                  /\ page < PageCountOf[img]
                  /\ \A k \in 0 .. ChunkCountOf(img, page) - 1 :
                       \E source \in Images : flash'[page][k] = Bytes(source, page, k)
  <2>1. CASE page = msg.pageIndex
    BY <1>1, <1>4, <2>1 DEF HasChunks
  <2>2. CASE page # msg.pageIndex /\ flash'[page] = flash[page]
    BY <2>2 DEF FlashPagesWhole
  <2> QED
    BY <1>4, <2>1, <2>2
<1> QED
  BY <1>5 DEF FlashPagesWhole

LEMMA WholeStep == TypeInv /\ WholeInv /\ [Next]_vars => WholeInv'
<1> SUFFICES ASSUME TypeInv, WholeInv, [Next]_vars PROVE WholeInv'
  OBVIOUS
<1>0. DeviceType /\ UiType /\ BufferInv /\ FlashPagesWhole
  BY DEF TypeInv, WholeInv
<1>1. CASE DeliverChunk
  <2>1. PICK msg \in Msgs : HandleImageData(msg)
    BY <1>0, <1>1, Oldest DEF UiType, DeliverChunk
  <2>2. BufferInv'
    BY <1>0, <2>1, BufferStep
  <2>3. CASE ImageDataMsgValid(msg) /\ PendingAfter(msg) = {} /\ PageComplete(msg)
    BY <1>0, <2>1, <2>2, <2>3, WrittenIsWhole DEF WholeInv
  <2>4. CASE flash' = flash
    BY <1>0, <2>2, <2>4 DEF WholeInv, FlashPagesWhole
  <2> QED
    BY <2>1, <2>3, <2>4 DEF HandleImageData, PageIncomplete, RejectMsg
<1>2. CASE ResetDevice
  BY <1>0, <1>2
  DEF ResetDevice, DeviceReset, NO_CHUNKS_PROCESSED, WholeInv, BufferInv, FlashPagesWhole
<1>3. CASE UNCHANGED deviceVars
  BY <1>0, <1>3 DEF deviceVars, WholeInv, BufferInv, FlashPagesWhole
<1> QED
  BY <1>1, <1>2, <1>3
  DEF Next, Submit, Timeout, LoseChunk, DeliverStatus, DuplicateStatus, LoseStatus, vars

LEMMA WholeInvariant == Spec => []WholeInv
<1>1. Init => WholeInv
  BY DEF Init, DeviceInit, WholeInv, BufferInv, FlashPagesWhole, NO_CHUNKS_PROCESSED
<1> QED
  BY <1>1, WholeStep, TypeInvariant, PTL DEF Spec

\* For any images, partitions and erase blocks, sent again and again over the remains of
\* attempts that failed: no page reaches flash with a chunk missing, stale or of another
\* page.  The inductive invariant ties the pending bits to the buffer: either all are set,
\* or every chunk of the page under way whose bit is clear is in its place.
THEOREM PagesAreWhole == Spec => []FlashPagesWhole
<1>1. WholeInv => FlashPagesWhole
  BY DEF WholeInv
<1> QED
  BY <1>1, WholeInvariant, PTL
=============================================================================
