----------------------------- MODULE UpdateSystem -----------------------------
(***************************************************************************)
(* A firmware update from end to end: the widget of the web UI, the link   *)
(* through broker, ESP32 and transport that may lose any chunk and lose,   *)
(* delay or repeat any status, and the device.  A user who saw an upload   *)
(* fail, or is tired of waiting, submits again.                            *)
(***************************************************************************)
EXTENDS FmtUpdate, FWUpdate

CONSTANTS
  MaxSubmits,     \* bound: how often the user submits
  MaxDuplicates,  \* bound: how many statuses are delivered twice
  MaxResets       \* bound: how often the device restarts

\* Both sides are generated from the same UPDATE_PAGE_SIZE and PARTITION_SIZE.
ASSUME SharedConfiguration ==
  /\ FullChunkCount = ChunksPerPageMax
  /\ \A image \in Images : PageCountOf[image] <= PagesCountMax

\* A chunk that was written does not look erased.  (Flash has the pages that do.)
ASSUME BlankAssumption == Blank \notin Images \X Pages \X Chunks

ASSUME BoundAssumption ==
  MaxSubmits \in Nat /\ MaxDuplicates \in Nat /\ MaxResets \in Nat

VARIABLES
  submits, duplicates, resets,
  older,   \* history: how many chunks in downlink are of uploads before the last submit
  stale,   \* history: how many statuses in uplink answer such chunks
  misled,  \* history: the widget took a success that was not of the page it awaited
  mixed    \* history: a page was completed with chunks of more than one image

bounds == <<submits, duplicates, resets>>
history == <<older, stale, misled, mixed>>
vars == <<deviceVars, uplink, uiVars, downlink, bounds, history>>

Init ==
  /\ DeviceInit
  /\ UiInit
  /\ submits = 0 /\ duplicates = 0 /\ resets = 0
  /\ older = 0 /\ stale = 0 /\ misled = FALSE /\ mixed = FALSE

Submit(image) ==
  /\ submits < MaxSubmits
  /\ submits' = submits + 1
  /\ HandleSubmit(image)
  /\ older' = Len(downlink) /\ stale' = Len(uplink)
  /\ UNCHANGED <<deviceVars, uplink, duplicates, resets, misled, mixed>>

Timeout ==
  /\ HandleTimeout
  /\ UNCHANGED <<deviceVars, uplink, bounds, history>>

OneLess(n) == IF n = 0 THEN 0 ELSE n - 1

Completes(msg) == ImageDataMsgValid(msg) /\ PendingAfter(msg) = {}

\* The chunks that the page of msg then has, up to the last one, are of one image.
OfOneImage(msg) ==
  \E image \in Images : \A k \in 0 .. msg.chunkCountInPage - 1 :
    BufferAfter(msg)[k] = Bytes(image, msg.pageIndex, k)

\* fmt_handleRx hands the device its next message.
DeliverChunk ==
  /\ downlink # <<>>
  /\ HandleImageData(Head(downlink))
  /\ downlink' = Tail(downlink)
  /\ older' = OneLess(older)
  /\ stale' = IF older > 0 THEN Len(uplink') ELSE stale
  /\ mixed' = (mixed \/ (Completes(Head(downlink)) /\ ~OfOneImage(Head(downlink))))
  /\ UNCHANGED <<uiVars, bounds, misled>>

\* A full queue in the ESP32 or the device, a corrupted packet, a publication at
\* QoS 0 that the broker or the ESP32 was not there to take.
LoseChunk ==
  /\ downlink # <<>>
  /\ downlink' = Tail(downlink)
  /\ older' = OneLess(older)
  /\ UNCHANGED <<deviceVars, uplink, uiVars, bounds, stale, misled, mixed>>

\* The widget looks neither at the page of a success nor whether it answers the upload
\* under way.
MisledBy(status) ==
  /\ pages # NoImage
  /\ status.status = "WRITE_SUCCESS"
  /\ status.pageIndex # activePageIndex \/ stale > 0

DeliverStatus ==
  /\ uplink # <<>>
  /\ UpdateStatus(Head(uplink))
  /\ uplink' = Tail(uplink)
  /\ misled' = (misled \/ MisledBy(Head(uplink)))
  /\ stale' = OneLess(stale)
  /\ UNCHANGED <<deviceVars, bounds, older, mixed>>

\* The ESP32 publishes retained, at QoS 1: a message may come again.
DuplicateStatus ==
  /\ uplink # <<>>
  /\ duplicates < MaxDuplicates
  /\ duplicates' = duplicates + 1
  /\ UpdateStatus(Head(uplink))
  /\ misled' = (misled \/ MisledBy(Head(uplink)))
  /\ UNCHANGED <<deviceVars, uplink, submits, resets, older, stale, mixed>>

\* A full send queue, or a batch buffer of the ESP32 that is full.
LoseStatus ==
  /\ uplink # <<>>
  /\ uplink' = Tail(uplink)
  /\ stale' = OneLess(stale)
  /\ UNCHANGED <<deviceVars, uiVars, downlink, bounds, older, misled, mixed>>

ResetDevice ==
  /\ resets < MaxResets
  /\ resets' = resets + 1
  /\ DeviceReset
  /\ UNCHANGED <<uiVars, downlink, submits, duplicates, history>>

Next ==
  \/ \E image \in Images : Submit(image)
  \/ Timeout
  \/ DeliverChunk
  \/ LoseChunk
  \/ DeliverStatus
  \/ DuplicateStatus
  \/ LoseStatus
  \/ ResetDevice

\* A timer that is armed fires; a message is delivered or lost in the end.
Fairness ==
  /\ WF_vars(Timeout)
  /\ WF_vars(DeliverChunk \/ LoseChunk)
  /\ WF_vars(DeliverStatus \/ LoseStatus)

Spec == Init /\ [][Next]_vars /\ Fairness

-----------------------------------------------------------------------------
\* What a cell may hold: nothing, or the bytes of a chunk.
Payloads == {Blank} \cup (Images \X Pages \X Chunks)

StatusMsgs == [pageIndex : Pages, status : {"WRITE_SUCCESS", "WRITE_FAIL"}]

TypeOK ==
  /\ chunksPending \in (SUBSET Chunks) \ {{}}
  /\ activePage \in Pages
  /\ pageBuffer \in [Chunks -> Payloads]
  /\ flash \in [Pages -> [Chunks -> Payloads]]
  /\ startCalls \in BOOLEAN /\ finishCalls \in BOOLEAN
  /\ uplink \in Seq(StatusMsgs)
  /\ pages \in Images \cup {NoImage}
  /\ activePageIndex \in Nat
  /\ timeoutArmed \in BOOLEAN
  /\ progress \in {"No upload yet", "Upload in progress", "Upload complete",
                   "Failed: timeout", "Failed: bad message"}
  /\ older \in 0 .. Len(downlink) /\ stale \in 0 .. Len(uplink) /\ misled \in BOOLEAN
  /\ mixed \in BOOLEAN

\* A page of the partition is blank or holds a page of an image, every chunk of it.
HoldsPage(image, page) ==
  \A k \in 0 .. ChunkCountOf(image, page) - 1 : flash[page][k] = Bytes(image, page, k)

HoldsImage(image) == \A page \in 0 .. PageCountOf[image] - 1 : HoldsPage(image, page)

AnImageIsSaved == \E image \in Images : HoldsImage(image)

\* Whatever is lost, repeated or delayed, and however often images are sent over the
\* remains of attempts that failed: a page in flash has as many chunks as an image has
\* there, each in its place, and none is missing, stale or of another page.  A message
\* does not say of which image it is, so that chunks of several may meet on a page.
FlashPagesWhole ==
  \A page \in Pages :
    \/ \A k \in Chunks : flash[page][k] = Blank
    \/ \E image \in Images :
         /\ page < PageCountOf[image]
         /\ \A k \in 0 .. ChunkCountOf(image, page) - 1 :
              \E source \in Images : flash[page][k] = Bytes(source, page, k)

\* Of any images sent over the remains of one another: as long as every success the
\* widget took was of the page it awaited and of no earlier upload, and no page was
\* completed with a chunk left by another image, the pages it has counted are in flash,
\* and "Upload complete" means that a whole image is.  No chunk or status that was lost,
\* late or repeated, and no older upload, makes the device erase a page that was counted,
\* with the block it shares.
CompleteMeansSaved ==
  ~misled /\ ~mixed =>
    /\ pages # NoImage => \A page \in 0 .. activePageIndex - 1 : HoldsPage(pages, page)
    /\ progress = "Upload complete" => AnImageIsSaved

\* The start callback, which prepares the bootloader, comes before anything of an
\* image is in flash, and before the callback that tells it the image is there.
StartComesFirst ==
  finishCalls \/ (\E page \in Pages, k \in Chunks : flash[page][k] # Blank) => startCalls

\* No upload stays "in progress" for ever: whichever messages are lost, the timer
\* of the page it waits for runs.
EveryUploadEnds == (pages # NoImage) ~> (pages = NoImage)

\* fmt_update.in.h:28: the finish callback "executes once a new image is
\* successfully fully saved".
FinishMeansSaved ==
  [][~finishCalls /\ finishCalls' => AnImageIsSaved']_vars
=============================================================================
