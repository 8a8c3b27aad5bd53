-------------------------------- MODULE Flash --------------------------------
(***************************************************************************)
(* Uploads over fmt_flash_write, one step of the flash at a time: a page   *)
(* is erased with its erase block if it does not look erased, and then     *)
(* programmed double word by double word.  fmt_update.c writes whichever   *)
(* page completes, in any order and as often as it completes, and with     *)
(* chunks of whichever images: a page may be skipped or come twice.  The   *)
(* controller may reset between any two steps, and a user may start        *)
(* another upload between any two pages, over what the earlier ones left.  *)
(***************************************************************************)
EXTENDS FlashPort

CONSTANTS
  Contents,      \* what a double word may hold, Blank among it
  PageCount,     \* FMT_IMAGE_DOWNLOAD_PARTITION_SIZE / UPDATE_PAGE_SIZE
  CellsPerPage,  \* DOUBLEWORDS_PER_WRITE_BLOCK
  PageData       \* for each page, what the device may be sent for it

Pages == 0 .. PageCount - 1
Cells == 0 .. CellsPerPage - 1
BlankPage == [c \in Cells |-> Blank]

ASSUME SizeAssumption ==
  PageCount \in Nat \ {0} /\ CellsPerPage \in Nat \ {0} /\ Blank \in Contents

\* handleImageData turns a page away that is past the partition, and writes pages of
\* one size, UPDATE_PAGE_SIZE.
ASSUME DataAssumption == PageData \in [Pages -> SUBSET [Cells -> Contents]]

VARIABLES
  mem,      \* the download partition
  pc,       \* "idle", or fmt_flash_write is about to "program"
  page, data,  \* its arguments
  cursor,   \* i, the double word to program next
  saved,    \* the pages reported as saved since the upload began, and with what
  orderly   \* history: the upload found blocks filled from the start, and so far each
            \* block got its pages one after the other

writeVars == <<pc, page, data, cursor>>
vars == <<mem, writeVars, saved, orderly>>

FirstPage(p) == (p \div PagesPerEraseBlock) * PagesPerEraseBlock

\* An erase block whose first page looks erased is erased.
BlocksFillFromTheStart ==
  \A p \in Pages : mem[FirstPage(p)] = BlankPage => mem[p] = BlankPage

\* Page p is the next one of its block.
InOrder(p) ==
  /\ p \notin DOMAIN saved
  /\ p # FirstPage(p) => p - 1 \in DOMAIN saved

NothingSaved == [p \in {} |-> BlankPage]

Init ==
  /\ mem = [p \in Pages |-> BlankPage]
  /\ pc = "idle" /\ page = 0 /\ data = BlankPage /\ cursor = 0
  /\ saved = NothingSaved
  /\ orderly = TRUE

\* handleSubmit of the web UI.  The device is not told.
StartUpload ==
  /\ pc = "idle"
  /\ saved' = NothingSaved
  /\ orderly' = BlocksFillFromTheStart
  /\ UNCHANGED <<mem, writeVars>>

\* processPage calls fmt_flash_write, which looks at the page and erases.
BeginWrite(p) ==
  /\ pc = "idle"
  /\ pc' = "program"
  /\ page' = p
  /\ data' \in PageData[p]
  /\ mem' = PrepareToWrite(mem, p)
  /\ cursor' = 0
  /\ orderly' = (orderly /\ InOrder(p))
  /\ UNCHANGED saved

WriteEnds ==
  /\ pc' = "idle" /\ page' = 0 /\ data' = BlankPage /\ cursor' = 0

\* A slip: one double word more than the page has.
ProgramOneMore ==
  /\ pc = "program"
  /\ mem' = [mem EXCEPT ![page] =
       [c \in Cells |-> IF c = cursor THEN Programmed(@[c], data[c]) ELSE @[c]]]
  /\ \/ /\ cursor < CellsPerPage
        /\ cursor' = cursor + 1
        /\ UNCHANGED <<pc, page, data, saved>>
     \/ /\ cursor = CellsPerPage
        /\ WriteEnds
        /\ saved' = [p \in DOMAIN saved \cup {page} |-> IF p = page THEN data ELSE saved[p]]
  /\ UNCHANGED orderly

\* One HAL_FLASH_Program of its loop; after the last the page is reported as saved.
ProgramDoubleWord ==
  /\ pc = "program"
  /\ mem' = [mem EXCEPT ![page][cursor] = Programmed(@, data[cursor])]
  /\ \/ /\ cursor + 1 < CellsPerPage
        /\ cursor' = cursor + 1
        /\ UNCHANGED <<pc, page, data, saved>>
     \/ /\ cursor + 1 = CellsPerPage
        /\ WriteEnds
        /\ saved' = [p \in DOMAIN saved \cup {page} |-> IF p = page THEN data ELSE saved[p]]
  /\ UNCHANGED orderly

\* A reset in the middle of a write: no status follows, and the upload is over.
Reset ==
  /\ pc = "program"
  /\ WriteEnds
  /\ saved' = NothingSaved
  /\ orderly' = BlocksFillFromTheStart
  /\ UNCHANGED mem

Next ==
  \/ StartUpload
  \/ \E p \in Pages : BeginWrite(p)
  \/ ProgramDoubleWord
  \/ Reset

Spec == Init /\ [][Next]_vars

-----------------------------------------------------------------------------
TypeOK ==
  /\ mem \in [Pages -> [Cells -> Contents]]
  /\ pc \in {"idle", "program"}
  /\ page \in Pages
  /\ data \in [Cells -> Contents]
  /\ pc = "program" => data \in PageData[page]
  /\ cursor \in Cells
  /\ DOMAIN saved \subseteq Pages
  /\ \A p \in DOMAIN saved : saved[p] \in PageData[p]
  /\ orderly \in BOOLEAN

\* Whatever uploads in whatever order, skipped pages and resets left in flash, a write
\* finds erased what it programs, so that HAL_FLASH_Program, whose error nobody looks at,
\* has none to report: the page holds the first cells of its data, and nothing else.
WriteIsWhole ==
  pc = "program" =>
    \A c \in Cells : mem[page][c] = IF c < cursor THEN data[c] ELSE Blank

\* As long as an upload is orderly, each page of it that was reported as saved is in
\* flash as it was sent, those that look erased as well: no erase for a later page took
\* it away again, and nothing an earlier or an interrupted upload left shows through.
UploadIsKept == orderly => \A p \in DOMAIN saved : mem[p] = saved[p]

\* A constraint on the images, not on the program: no page of them that comes to be the
\* first of an erase block looks erased.  Others may.
NoBlankFirstPages == \A p \in Pages : BlankPage \notin PageData[FirstPage(p)]

\* The next upload finds what this one found: after an orderly upload of images without
\* blank first pages, and in the middle of one, an erase block whose first page looks
\* erased is erased, so that looking at one page is enough.
BlocksStayFilled == orderly => BlocksFillFromTheStart
=============================================================================
