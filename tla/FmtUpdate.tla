------------------------------ MODULE FmtUpdate ------------------------------
(***************************************************************************)
(* firmware/fmt_update.c: the device side of a firmware update.  An image  *)
(* arrives as pages, a page as chunks; a page goes to flash when none of   *)
(* its chunks is pending.  fmt_handleRx calls handleImageData from the     *)
(* periodic task only, so a call is one step.                              *)
(***************************************************************************)
EXTENDS FlashPort, Sequences

CONSTANTS
  ChunksPerPageMax,  \* CHUNKS_PER_PAGE_MAX
  PagesCountMax      \* PAGES_COUNT_MAX

ASSUME PartitionAssumption ==
  ChunksPerPageMax \in Nat \ {0} /\ PagesCountMax \in Nat \ {0}

Chunks == 0 .. ChunksPerPageMax - 1
Pages == 0 .. PagesCountMax - 1

VARIABLES
  chunksPending,  \* the indexes whose bit is set
  activePage,
  pageBuffer,
  flash,          \* the download partition, page by page
  startCalls,     \* the callback of the first page has run
  finishCalls,    \* the callback of a saved image has run
  uplink          \* the statuses on their way to the web UI, oldest first

deviceVars == <<chunksPending, activePage, pageBuffer, flash, startCalls, finishCalls>>

NO_CHUNKS_PROCESSED == Chunks

PageStatus(index, outcome) == [pageIndex |-> index, status |-> outcome]

DeviceInit ==
  /\ chunksPending = NO_CHUNKS_PROCESSED
  /\ activePage = 0
  /\ pageBuffer = [k \in Chunks |-> Blank]
  /\ flash = [p \in Pages |-> pageBuffer]
  /\ startCalls = FALSE
  /\ finishCalls = FALSE
  /\ uplink = <<>>

-----------------------------------------------------------------------------
\* A slip, for checking that the properties notice: no check that the page under
\* way is finished.
AnyPageAnyTime(msg) ==
  /\ msg.chunkIndex < ChunksPerPageMax
  /\ msg.chunkIndex \in chunksPending
  /\ ~(msg.size = "short" /\ msg.chunkIndex + 1 # msg.chunkCountInPage)
  /\ msg.size # "over"
  /\ msg.pageIndex < PagesCountMax

\* The size of a payload is "full", "short" or "over" DATA_MSG_PAYLOAD_SIZE_MAX.
ImageDataMsgValid(msg) ==
  /\ msg.chunkIndex < ChunksPerPageMax
  /\ msg.chunkIndex \in chunksPending
  /\ ~(msg.size = "short" /\ msg.chunkIndex + 1 # msg.chunkCountInPage)
  /\ msg.size # "over"
  /\ msg.pageIndex = activePage \/ chunksPending = NO_CHUNKS_PROCESSED
  /\ msg.pageIndex < PagesCountMax

\* processChunk flips the chunk's bit and masks the bits the page does not have.
FlipBit(bits, k) == IF k \in bits THEN bits \ {k} ELSE bits \cup {k}

PendingAfter(msg) ==
  FlipBit(chunksPending, msg.chunkIndex) \cap (0 .. msg.chunkCountInPage - 1)

BufferAfter(msg) == [pageBuffer EXCEPT ![msg.chunkIndex] = msg.payload]

\* A slip: the pending bits start over after a failure only.
ResetOnlyOnFail(page, outcome) ==
  /\ chunksPending' = IF outcome = "WRITE_FAIL" THEN NO_CHUNKS_PROCESSED ELSE {}
  /\ uplink' = Append(uplink, PageStatus(page, outcome))

PrepForNewPage(page, outcome) ==
  /\ chunksPending' = NO_CHUNKS_PROCESSED
  /\ uplink' = Append(uplink, PageStatus(page, outcome))

ProcessChunk(msg) ==
  /\ activePage' = msg.pageIndex
  /\ pageBuffer' = BufferAfter(msg)

\* A page is one write block, so fmt_flash_write takes it whole, and may erase the
\* pages that share its erase block.  Nothing looks at what it returns.
ProcessPage(msg) == flash' = FlashWrite(flash, msg.pageIndex, BufferAfter(msg))

\* A slip: the start callback runs with the finish callback.
LatePageComplete(msg) ==
  /\ ProcessChunk(msg)
  /\ startCalls' = (startCalls \/ msg.pageIndex = msg.pageCount - 1)
  /\ ProcessPage(msg)
  /\ PrepForNewPage(msg.pageIndex, "WRITE_SUCCESS")
  /\ finishCalls' = (finishCalls \/ msg.pageIndex = msg.pageCount - 1)

\* The chunk that was the last one pending: start callback, flash, status, finish
\* callback.
PageComplete(msg) ==
  /\ ProcessChunk(msg)
  /\ startCalls' = (startCalls \/ msg.pageIndex = 0)
  /\ ProcessPage(msg)
  /\ PrepForNewPage(msg.pageIndex, "WRITE_SUCCESS")
  /\ finishCalls' = (finishCalls \/ msg.pageIndex = msg.pageCount - 1)

PageIncomplete(msg) ==
  /\ ProcessChunk(msg)
  /\ chunksPending' = PendingAfter(msg)
  /\ UNCHANGED <<flash, startCalls, finishCalls, uplink>>

RejectMsg ==
  /\ PrepForNewPage(activePage, "WRITE_FAIL")
  /\ UNCHANGED <<activePage, pageBuffer, flash, startCalls, finishCalls>>

HandleImageData(msg) ==
  \/ ImageDataMsgValid(msg) /\ PendingAfter(msg) = {} /\ PageComplete(msg)
  \/ ImageDataMsgValid(msg) /\ PendingAfter(msg) # {} /\ PageIncomplete(msg)
  \/ ~ImageDataMsgValid(msg) /\ RejectMsg

\* A reset of the controller: RAM starts over, flash keeps what was written, and
\* so does whatever the callbacks have done outside RAM.
DeviceReset ==
  /\ chunksPending' = NO_CHUNKS_PROCESSED
  /\ activePage' = 0
  /\ pageBuffer' = [k \in Chunks |-> Blank]
  /\ UNCHANGED <<flash, startCalls, finishCalls, uplink>>
=============================================================================
