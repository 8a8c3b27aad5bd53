------------------------------ MODULE FlashPort ------------------------------
(***************************************************************************)
(* fmt_flash_write of the two ports (port/stm32/fmt_flash_port.c and       *)
(* port/XMC4/fmt_flash_xmc4.c), as operators on a memory: a function from  *)
(* pages to functions from cells to contents.  A page is what one update   *)
(* message writes and one write block (256 bytes both); a cell is a double *)
(* word.  Erasing clears an erase block of several pages: eight of them on *)
(* the STM32, the whole download partition on the XMC4.                    *)
(***************************************************************************)
EXTENDS Naturals

CONSTANTS
  Blank,              \* ERASED_STATE
  PagesPerEraseBlock  \* an erase block of the controller over a write block

ASSUME EraseBlockAssumption == PagesPerEraseBlock \in Nat \ {0}

SameEraseBlock(p, q) == p \div PagesPerEraseBlock = q \div PagesPerEraseBlock

\* A slip: the first cell speaks for the page.
FirstCellIsErased(mem, page) == mem[page][0] = Blank

FlashIsErased(mem, page) == \A c \in DOMAIN mem[page] : mem[page][c] = Blank

\* A slip: the page alone is erased.
ErasePageOnly(mem, page) == [mem EXCEPT ![page] = [c \in DOMAIN mem[page] |-> Blank]]

FlashErase(mem, page) ==
  [q \in DOMAIN mem |->
     IF SameEraseBlock(page, q) THEN [c \in DOMAIN mem[q] |-> Blank] ELSE mem[q]]

\* The first step of fmt_flash_write: an erase, unless the page looks erased.
PrepareToWrite(mem, page) ==
  IF FlashIsErased(mem, page) THEN mem ELSE FlashErase(mem, page)

\* A cell takes a value only when it is erased: HAL_FLASH_Program answers an error,
\* which nobody looks at, and leaves another cell as it was.
Programmed(old, new) == IF old = Blank THEN new ELSE old

ProgramPage(mem, page, data) ==
  [mem EXCEPT ![page] = [c \in DOMAIN data |-> Programmed(@[c], data[c])]]

\* The whole call, for an address at the start of a page and the length of a page.
FlashWrite(mem, page, data) == ProgramPage(PrepareToWrite(mem, page), page, data)
=============================================================================
