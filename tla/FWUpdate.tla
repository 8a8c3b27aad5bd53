------------------------------- MODULE FWUpdate -------------------------------
(***************************************************************************)
(* web-ui/src/FWUpdate.tsx: the browser side of a firmware update.  The    *)
(* module-level variables of the widget are the state; the JavaScript      *)
(* event loop runs one handler at a time, so a handler is one step.        *)
(***************************************************************************)
EXTENDS Naturals, Sequences

CONSTANTS
  Images,          \* the files a user may choose
  PageCountOf,     \* how many pages each has
  FullChunkCount,  \* updatePageSize / dataMsgPayloadSizeMax
  LastChunkCount,  \* how many chunks the last page of each has
  NoImage          \* an empty "pages" array

ASSUME ImageAssumption ==
  /\ NoImage \notin Images
  /\ PageCountOf \in [Images -> Nat \ {0}]
  /\ FullChunkCount \in Nat \ {0}
  /\ LastChunkCount \in [Images -> 1 .. FullChunkCount]

VARIABLES
  pages,            \* the image being uploaded, or NoImage
  activePageIndex,
  timeoutArmed,     \* timeoutId is a pending timer
  progress,
  downlink          \* the ImageData messages on their way to the device

uiVars == <<pages, activePageIndex, timeoutArmed, progress>>

ChunkCountOf(image, page) ==
  IF page = PageCountOf[image] - 1 THEN LastChunkCount[image] ELSE FullChunkCount

\* Which bytes of which image a chunk carries.
Bytes(image, page, k) == <<image, page, k>>

ImageData(image, page, k) ==
  [pageIndex |-> page, pageCount |-> PageCountOf[image],
   chunkIndex |-> k, chunkCountInPage |-> ChunkCountOf(image, page),
   size |-> IF page = PageCountOf[image] - 1 /\ k + 1 = LastChunkCount[image]
              THEN "short" ELSE "full",
   payload |-> Bytes(image, page, k)]

ChunkMsgs(image, page) ==
  [i \in 1 .. ChunkCountOf(image, page) |-> ImageData(image, page, i - 1)]

UiInit ==
  /\ pages = NoImage
  /\ activePageIndex = 0
  /\ timeoutArmed = FALSE
  /\ progress = "No upload yet"
  /\ downlink = <<>>

\* A slip: the timer is cleared but not set again.
SendPageUntimed(image, page) ==
  /\ downlink' = downlink \o ChunkMsgs(image, page)
  /\ timeoutArmed' = FALSE

SendPage(image, page) ==
  /\ downlink' = downlink \o ChunkMsgs(image, page)
  /\ timeoutArmed' = TRUE

HandleSubmit(image) ==
  /\ pages' = image
  /\ activePageIndex' = 0
  /\ SendPage(image, 0)
  /\ progress' = "Upload in progress"

Forget(outcome) ==
  /\ pages' = NoImage
  /\ activePageIndex' = 0
  /\ timeoutArmed' = FALSE
  /\ progress' = outcome
  /\ UNCHANGED downlink

HandleTimeout ==
  /\ timeoutArmed
  /\ Forget("Failed: timeout")

\* "pages[activePageIndex]" is undefined past the last page: sendPage throws, and
\* the message loop of mqclient.tsx catches it.
NextPage(status) ==
  /\ activePageIndex' = activePageIndex + 1
  /\ IF activePageIndex + 1 < PageCountOf[pages]
       THEN SendPage(pages, activePageIndex + 1)
       ELSE UNCHANGED <<downlink, timeoutArmed>>
  /\ UNCHANGED <<pages, progress>>

\* A slip: the upload is over when as many statuses came as the image has pages.
CompleteAtCount(status) == activePageIndex + 2 >= PageCountOf[pages]

IsLastPage(status) == status.pageIndex = PageCountOf[pages] - 1

\* It does not compare the page of a success with the one it sent last.
UpdateStatus(status) ==
  \/ pages = NoImage /\ UNCHANGED <<uiVars, downlink>>
  \/ /\ pages # NoImage
     /\ status.status = "WRITE_SUCCESS"
     /\ IsLastPage(status)
     /\ Forget("Upload complete")
  \/ /\ pages # NoImage
     /\ status.status = "WRITE_SUCCESS"
     /\ ~IsLastPage(status)
     /\ NextPage(status)
  \/ /\ pages # NoImage
     /\ status.status = "WRITE_FAIL"
     /\ Forget("Failed: bad message")
=============================================================================
