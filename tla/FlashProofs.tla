----------------------------- MODULE FlashProofs -----------------------------
(***************************************************************************)
(* What an upload has saved stays saved as long as the upload is orderly,  *)
(* and every write is whole however disorderly uploads are, for every      *)
(* number of pages, size of an erase block and set of data.                *)
(***************************************************************************)
EXTENDS Flash, TLAPS

LEMMA DivBounds ==
  ASSUME NEW a \in Nat, NEW n \in Nat, n > 0
  PROVE  /\ a \div n \in Nat
         /\ (a \div n) * n <= a
         /\ a < (a \div n) * n + n
  BY SMT

LEMMA DivUnique ==
  ASSUME NEW a \in Nat, NEW n \in Nat, n > 0, NEW k \in Nat,
         k * n <= a, a < k * n + n
  PROVE  a \div n = k
  BY SMT

\* The first page of a page's erase block is in that block and not after the page,
\* and it is the first page of each page of the block.
LEMMA FirstPageFacts ==
  ASSUME NEW p \in Nat
  PROVE  /\ FirstPage(p) \in Nat /\ FirstPage(p) <= p
         /\ SameEraseBlock(FirstPage(p), p)
         /\ \A q \in Nat : SameEraseBlock(q, p) => FirstPage(q) = FirstPage(p)
<1> DEFINE N == PagesPerEraseBlock
           k == p \div N
<1>1. N \in Nat /\ N > 0
  BY EraseBlockAssumption
<1>2. k \in Nat /\ k * N <= p /\ p < k * N + N
  BY <1>1, DivBounds
<1>3. k * N \in Nat
  BY <1>1, <1>2
<1>4. (k * N) \div N = k
  BY <1>1, <1>2, <1>3, DivUnique
<1> QED
  BY <1>2, <1>3, <1>4 DEF FirstPage, SameEraseBlock

\* A page that is not the first of its block follows a page of the same block.
LEMMA PreviousPageFacts ==
  ASSUME NEW p \in Nat, p # FirstPage(p)
  PROVE  p - 1 \in Nat /\ SameEraseBlock(p - 1, p)
<1> DEFINE N == PagesPerEraseBlock
           k == p \div N
<1>1. N \in Nat /\ N > 0
  BY EraseBlockAssumption
<1>2. k \in Nat /\ k * N <= p /\ p < k * N + N
  BY <1>1, DivBounds
<1>3. k * N \in Nat /\ k * N < p
  BY <1>1, <1>2 DEF FirstPage
<1>4. p - 1 \in Nat /\ k * N <= p - 1 /\ p - 1 < k * N + N
  BY <1>1, <1>2, <1>3
<1>5. (p - 1) \div N = k
  BY <1>1, <1>2, <1>4, DivUnique
<1> QED
  BY <1>4, <1>5 DEF SameEraseBlock

-----------------------------------------------------------------------------
LEMMA Sizes ==
  /\ PageCount \in Nat \ {0} /\ CellsPerPage \in Nat \ {0} /\ Blank \in Contents
  /\ BlankPage \in [Cells -> Contents]
  /\ Pages \subseteq Nat /\ 0 \in Pages /\ 0 \in Cells
  /\ \A p \in Pages : PageData[p] \subseteq [Cells -> Contents]
BY SizeAssumption, DataAssumption DEF BlankPage, Cells, Pages

LEMMA FirstPageIsPage ==
  ASSUME NEW p \in Pages
  PROVE  FirstPage(p) \in Pages
BY Sizes, FirstPageFacts DEF Pages

\* Every variable keeps to its type.
LEMMA TypeStep ==
  ASSUME TypeOK, [Next]_vars
  PROVE  TypeOK'
<1>0. DOMAIN NothingSaved = {} /\ BlocksFillFromTheStart \in BOOLEAN
  BY Zenon DEF NothingSaved, BlocksFillFromTheStart
<1>1. CASE StartUpload
  BY <1>0, <1>1 DEF StartUpload, TypeOK, writeVars
<1>2. ASSUME NEW p \in Pages, BeginWrite(p) PROVE TypeOK'
  <2>1. mem' \in [Pages -> [Cells -> Contents]]
    BY <1>2, Sizes DEF BeginWrite, TypeOK, PrepareToWrite, FlashErase
  <2>2. data' \in PageData[p] /\ page' = p /\ data' \in [Cells -> Contents]
    BY <1>2, Sizes DEF BeginWrite
  <2>3. cursor' \in Cells /\ pc' = "program" /\ orderly' \in BOOLEAN /\ saved' = saved
    BY <1>2, Sizes DEF BeginWrite, TypeOK
  <2> QED
    BY <2>1, <2>2, <2>3 DEF TypeOK
<1>3. CASE ProgramDoubleWord
  <2>1. /\ mem \in [Pages -> [Cells -> Contents]] /\ page \in Pages /\ cursor \in Cells
        /\ data \in [Cells -> Contents] /\ data \in PageData[page] /\ pc = "program"
    BY <1>3 DEF ProgramDoubleWord, TypeOK
  <2>2. Programmed(mem[page][cursor], data[cursor]) \in Contents
    BY <2>1 DEF Programmed
  <2>3. mem' \in [Pages -> [Cells -> Contents]]
    BY <1>3, <2>1, <2>2 DEF ProgramDoubleWord
  <2>4. CASE cursor + 1 < CellsPerPage
    <3>1. cursor' \in Cells /\ UNCHANGED <<pc, page, data, saved, orderly>>
      BY <1>3, <2>1, <2>4, Sizes DEF ProgramDoubleWord, Cells
    <3> QED
      BY <2>3, <3>1 DEF TypeOK
  <2>5. CASE ~(cursor + 1 < CellsPerPage)
    <3>1. /\ pc' = "idle" /\ page' \in Pages /\ data' \in [Cells -> Contents]
          /\ cursor' \in Cells /\ orderly' = orderly
      BY <1>3, <2>5, Sizes DEF ProgramDoubleWord, WriteEnds
    <3>2. saved' = [p \in DOMAIN saved \cup {page} |-> IF p = page THEN data ELSE saved[p]]
      BY <1>3, <2>5 DEF ProgramDoubleWord
    <3> QED
      BY <2>1, <2>3, <3>1, <3>2 DEF TypeOK
  <2> QED
    BY <2>4, <2>5
<1>4. CASE Reset
  BY <1>0, <1>4, Sizes DEF Reset, WriteEnds, TypeOK
<1>5. CASE UNCHANGED vars
  BY <1>5 DEF vars, writeVars, TypeOK
<1> QED
  BY <1>1, <1>2, <1>3, <1>4, <1>5 DEF Next

LEMMA TypeInit == Init => TypeOK
BY Sizes DEF Init, TypeOK, NothingSaved

\* fmt_flash_write (stm32/fmt_flash_port.c:43-103): neither the index of a page nor that
\* of a double word leaves the partition, and only what an image or an erase may hold
\* gets into flash.
THEOREM FlashTypeCorrect == Spec => []TypeOK
<1>1. TypeOK /\ [Next]_vars => TypeOK'
  BY TypeStep
<1> QED
  BY TypeInit, <1>1, PTL DEF Spec

-----------------------------------------------------------------------------
(* The write under way.                                                    *)

\* After the look and the erase, the page is blank.
LEMMA PreparedPage ==
  ASSUME TypeOK, NEW p \in Pages
  PROVE  /\ PrepareToWrite(mem, p) \in [Pages -> [Cells -> Contents]]
         /\ PrepareToWrite(mem, p)[p] = BlankPage
         /\ mem[p] = BlankPage => PrepareToWrite(mem, p) = mem
         /\ mem[p] # BlankPage => \A q \in Pages :
              PrepareToWrite(mem, p)[q] = IF SameEraseBlock(p, q) THEN BlankPage ELSE mem[q]
<1>1. mem \in [Pages -> [Cells -> Contents]]
  BY DEF TypeOK
<1>2. FlashIsErased(mem, p) <=> mem[p] = BlankPage
  BY <1>1 DEF FlashIsErased, BlankPage
<1>3. CASE FlashIsErased(mem, p)
  BY <1>1, <1>2, <1>3 DEF PrepareToWrite
<1>4. CASE ~FlashIsErased(mem, p)
  <2>1. PrepareToWrite(mem, p)
          = [q \in Pages |-> IF SameEraseBlock(p, q) THEN BlankPage ELSE mem[q]]
    BY <1>1, <1>4 DEF PrepareToWrite, FlashErase, BlankPage
  <2>2. SameEraseBlock(p, p)
    BY DEF SameEraseBlock
  <2> QED
    BY <1>1, <1>2, <1>4, <2>1, <2>2, Sizes
<1> QED
  BY <1>3, <1>4

\* A double word changes one cell, from blank.
LEMMA ProgrammedPage ==
  ASSUME TypeOK, WriteIsWhole, ProgramDoubleWord
  PROVE  /\ \A p \in Pages : p # page => mem'[p] = mem[p]
         /\ \A c \in Cells : mem'[page][c] = IF c < cursor + 1 THEN data[c] ELSE Blank
         /\ cursor + 1 = CellsPerPage => mem'[page] = data
<1>1. /\ mem \in [Pages -> [Cells -> Contents]] /\ page \in Pages /\ cursor \in Cells
      /\ data \in [Cells -> Contents]
      /\ \A c \in Cells : mem[page][c] = IF c < cursor THEN data[c] ELSE Blank
  BY DEF ProgramDoubleWord, TypeOK, WriteIsWhole
<1>2. mem[page][cursor] = Blank
  BY <1>1 DEF Cells
<1>3. mem' = [mem EXCEPT ![page] = [mem[page] EXCEPT ![cursor] = data[cursor]]]
  BY <1>1, <1>2 DEF ProgramDoubleWord, Programmed
<1>4. mem' \in [Pages -> [Cells -> Contents]]
  BY <1>1, <1>3
<1>5. \A c \in Cells : mem'[page][c] = IF c < cursor + 1 THEN data[c] ELSE Blank
  <2>1. \A c \in Cells : mem'[page][c] = IF c = cursor THEN data[c] ELSE mem[page][c]
    BY <1>1, <1>3
  <2>2. \A c \in Cells : c < cursor + 1 <=> c = cursor \/ c < cursor
    BY <1>1, Sizes DEF Cells
  <2> QED
    BY <1>1, <2>1, <2>2
<1>6. ASSUME cursor + 1 = CellsPerPage PROVE mem'[page] = data
  <2>1. \A c \in Cells : mem'[page][c] = data[c]
    BY <1>1, <1>5, <1>6, Sizes DEF Cells
  <2> QED
    BY <1>1, <1>4, <2>1
<1> QED
  BY <1>1, <1>3, <1>5, <1>6

LEMMA WholeStep ==
  ASSUME TypeOK, WriteIsWhole, [Next]_vars
  PROVE  WriteIsWhole'
<1>1. CASE StartUpload
  BY <1>1 DEF StartUpload, writeVars, WriteIsWhole
<1>2. ASSUME NEW p \in Pages, BeginWrite(p) PROVE WriteIsWhole'
  <2>1. page' = p /\ cursor' = 0 /\ mem' = PrepareToWrite(mem, p)
    BY <1>2 DEF BeginWrite
  <2>2. \A c \in Cells : mem'[page'][c] = Blank
    BY <2>1, PreparedPage DEF BlankPage
  <2>3. \A c \in Cells : ~(c < cursor')
    BY <2>1, Sizes DEF Cells
  <2> QED
    BY <2>2, <2>3 DEF WriteIsWhole
<1>3. CASE ProgramDoubleWord
  BY <1>3, ProgrammedPage DEF ProgramDoubleWord, WriteEnds, WriteIsWhole
<1>4. CASE Reset
  BY <1>4 DEF Reset, WriteEnds, WriteIsWhole
<1>5. CASE UNCHANGED vars
  BY <1>5 DEF vars, writeVars, WriteIsWhole
<1> QED
  BY <1>1, <1>2, <1>3, <1>4, <1>5 DEF Next

\* The write under way finds erased what it programs, for any data, in any order of
\* pages, skipped and repeated ones included, and after resets anywhere.
THEOREM WritesAreWhole == Spec => []WriteIsWhole
<1>1. Init => WriteIsWhole
  BY DEF Init, WriteIsWhole
<1>2. TypeOK /\ WriteIsWhole /\ [Next]_vars => WriteIsWhole'
  BY WholeStep
<1> QED
  BY <1>1, <1>2, FlashTypeCorrect, PTL DEF Spec

-----------------------------------------------------------------------------
(* What an orderly upload has saved.                                       *)

Writing(p) == pc = "program" /\ page = p

\* The upload has begun with the block of page p.
Touched(p) ==
  \E q \in Pages : SameEraseBlock(q, p) /\ (q \in DOMAIN saved \/ Writing(q))

\* The pages of a block before one that is saved, or being written, are saved.
BlocksInOrder ==
  /\ pc = "program" => page \notin DOMAIN saved
  /\ \A p, q \in Pages :
       SameEraseBlock(q, p) /\ q < p /\ (p \in DOMAIN saved \/ Writing(p)) => q \in DOMAIN saved

\* What is neither saved nor being written, in a block the upload has begun with, is
\* blank; a block it has not begun with fills from the start.
RestIsBlank ==
  \A p \in Pages :
    p \notin DOMAIN saved /\ ~Writing(p) =>
      /\ Touched(p) => mem[p] = BlankPage
      /\ ~Touched(p) => (mem[FirstPage(p)] = BlankPage => mem[p] = BlankPage)

SavedIsKept == \A p \in DOMAIN saved : mem[p] = saved[p]

OrderInv == orderly => SavedIsKept /\ BlocksInOrder /\ RestIsBlank

LEMMA BlockFacts ==
  /\ \A p, q \in Pages : SameEraseBlock(q, p) => FirstPage(q) = FirstPage(p)
  /\ \A p \in Pages : /\ FirstPage(p) \in Pages /\ FirstPage(p) <= p
                      /\ SameEraseBlock(FirstPage(p), p)
  /\ \A p \in Pages : p # FirstPage(p) => p - 1 \in Pages /\ SameEraseBlock(p - 1, p)
  /\ \A p, q \in Pages : SameEraseBlock(q, p) => SameEraseBlock(p, q)
  /\ \A p, q, r \in Pages :
       SameEraseBlock(q, p) /\ SameEraseBlock(r, q) => SameEraseBlock(r, p)
  /\ \A p \in Pages : SameEraseBlock(p, p)
<1>1. \A p \in Pages : p # FirstPage(p) => p - 1 \in Pages /\ SameEraseBlock(p - 1, p)
  BY Sizes, PreviousPageFacts DEF Pages
<1>2. \A p, q \in Pages : SameEraseBlock(q, p) => FirstPage(q) = FirstPage(p)
  BY Sizes, FirstPageFacts
<1>3. \A p \in Pages : /\ FirstPage(p) \in Pages /\ FirstPage(p) <= p
                       /\ SameEraseBlock(FirstPage(p), p)
  BY Sizes, FirstPageFacts, FirstPageIsPage
<1>4. /\ \A p, q \in Pages : SameEraseBlock(q, p) => SameEraseBlock(p, q)
      /\ \A p, q, r \in Pages :
           SameEraseBlock(q, p) /\ SameEraseBlock(r, q) => SameEraseBlock(r, p)
      /\ \A p \in Pages : SameEraseBlock(p, p)
  BY DEF SameEraseBlock
<1> QED
  BY <1>1, <1>2, <1>3, <1>4

\* In order, no page of a block that is erased is saved: its first page is the one that
\* comes.  A later page finds itself blank.
LEMMA BeginWriteOrder ==
  ASSUME TypeOK, SavedIsKept, BlocksInOrder, RestIsBlank,
         NEW p \in Pages, BeginWrite(p), InOrder(p)
  PROVE  SavedIsKept' /\ BlocksInOrder' /\ RestIsBlank'
<1>1. /\ pc = "idle" /\ pc' = "program" /\ page' = p /\ saved' = saved
      /\ mem' = PrepareToWrite(mem, p)
      /\ p \notin DOMAIN saved /\ (p # FirstPage(p) => p - 1 \in DOMAIN saved)
      /\ DOMAIN saved \subseteq Pages
  BY DEF BeginWrite, InOrder, TypeOK
<1>2. \A q \in Pages : ~Writing(q) /\ (Writing(q)' <=> q = p)
  BY <1>1 DEF Writing
<1>3. \A q \in Pages : SameEraseBlock(q, p) /\ q < p => q \in DOMAIN saved
  <2> SUFFICES ASSUME NEW q \in Pages, SameEraseBlock(q, p), q < p
               PROVE  q \in DOMAIN saved
    OBVIOUS
  <2>1. p # FirstPage(p)
    <3>1. FirstPage(q) = FirstPage(p) /\ FirstPage(q) <= q
      BY BlockFacts
    <3>2. FirstPage(q) \in Nat /\ q \in Nat /\ p \in Nat
      BY BlockFacts, Sizes
    <3> QED
      BY <3>1, <3>2
  <2>2. p - 1 \in DOMAIN saved /\ p - 1 \in Pages /\ SameEraseBlock(p - 1, p)
    BY <1>1, <2>1, BlockFacts
  <2>3. q = p - 1 \/ q < p - 1
    BY Sizes
  <2>4. SameEraseBlock(q, p - 1)
    BY <2>2, BlockFacts
  <2> QED
    BY <2>2, <2>3, <2>4 DEF BlocksInOrder
<1>4. BlocksInOrder'
  <2> SUFFICES ASSUME NEW r \in Pages, NEW q \in Pages,
                      SameEraseBlock(q, r), q < r, r \in DOMAIN saved \/ r = p
               PROVE  q \in DOMAIN saved
    BY <1>1, <1>2 DEF BlocksInOrder
  <2> QED
    BY <1>3 DEF BlocksInOrder
<1>5. \A q \in Pages : SameEraseBlock(q, p) /\ q \in DOMAIN saved => mem[p] = BlankPage
  BY <1>1, <1>2 DEF RestIsBlank, Touched
<1>6. \A q \in Pages : SameEraseBlock(q, p) /\ q \notin DOMAIN saved => mem'[q] = BlankPage
  <2> SUFFICES ASSUME NEW q \in Pages, SameEraseBlock(q, p), q \notin DOMAIN saved
               PROVE  mem'[q] = BlankPage
    OBVIOUS
  <2>1. CASE mem[p] # BlankPage
    BY <1>1, <2>1, PreparedPage, BlockFacts
  <2>2. CASE mem[p] = BlankPage
    <3>1. mem' = mem
      BY <1>1, <2>2, PreparedPage
    <3>2. CASE Touched(p)
      BY <1>2, <3>1, <3>2, BlockFacts DEF RestIsBlank, Touched
    <3>3. CASE ~Touched(p)
      <4>1. p = FirstPage(p)
        BY <1>1, <3>3, BlockFacts DEF Touched
      <4>2. FirstPage(q) = p
        BY <4>1, BlockFacts
      <4> QED
        BY <1>2, <2>2, <3>1, <4>2 DEF RestIsBlank
    <3> QED
      BY <3>2, <3>3
  <2> QED
    BY <2>1, <2>2
<1>7. \A q \in Pages : ~SameEraseBlock(p, q) => mem'[q] = mem[q]
  BY <1>1, PreparedPage
<1>8. SavedIsKept'
  <2> SUFFICES ASSUME NEW q \in DOMAIN saved PROVE mem'[q] = saved[q]
    BY <1>1 DEF SavedIsKept
  <2>1. q \in Pages /\ (SameEraseBlock(p, q) => mem[p] = BlankPage)
    BY <1>1, <1>5, BlockFacts
  <2>2. mem'[q] = mem[q]
    BY <1>1, <2>1, PreparedPage
  <2> QED
    BY <2>2 DEF SavedIsKept
<1>9. RestIsBlank'
  <2> SUFFICES ASSUME NEW q \in Pages, q \notin DOMAIN saved, q # p
               PROVE  /\ Touched(q)' => mem'[q] = BlankPage
                      /\ ~Touched(q)' => (mem'[FirstPage(q)] = BlankPage => mem'[q] = BlankPage)
    BY <1>1, <1>2 DEF RestIsBlank
  <2>1. CASE SameEraseBlock(q, p)
    BY <1>6, <2>1
  <2>2. CASE ~SameEraseBlock(q, p)
    <3>1. ~SameEraseBlock(p, q) /\ ~SameEraseBlock(p, FirstPage(q)) /\ FirstPage(q) \in Pages
      BY <2>2, BlockFacts
    <3>2. mem'[q] = mem[q] /\ mem'[FirstPage(q)] = mem[FirstPage(q)]
      BY <1>7, <3>1
    <3>3. Touched(q)' <=> Touched(q)
      BY <1>1, <1>2, <3>1 DEF Touched
    <3> QED
      BY <1>2, <3>2, <3>3 DEF RestIsBlank
  <2> QED
    BY <2>1, <2>2
<1> QED
  BY <1>4, <1>8, <1>9

\* The page that is programmed is saved with its last double word, as it was sent; to the
\* others nothing happens.
LEMMA ProgramOrder ==
  ASSUME TypeOK, WriteIsWhole, SavedIsKept, BlocksInOrder, RestIsBlank, ProgramDoubleWord
  PROVE  SavedIsKept' /\ BlocksInOrder' /\ RestIsBlank'
<1>1. /\ pc = "program" /\ page \in Pages /\ page \notin DOMAIN saved
      /\ DOMAIN saved \subseteq Pages /\ cursor \in Cells
  BY DEF ProgramDoubleWord, TypeOK, BlocksInOrder
<1>2. \A q \in Pages : q # page => mem'[q] = mem[q]
  BY ProgrammedPage
<1>3. \A q \in Pages : ~Touched(q) => q # page /\ FirstPage(q) # page /\ FirstPage(q) \in Pages
  BY <1>1, BlockFacts DEF Touched, Writing
<1>4. CASE cursor + 1 < CellsPerPage
  <2>1. UNCHANGED <<pc, page, saved>>
    BY <1>1, <1>4, Sizes DEF ProgramDoubleWord, Cells
  <2>2. SavedIsKept' /\ BlocksInOrder'
    BY <1>1, <1>2, <2>1 DEF SavedIsKept, BlocksInOrder, Writing
  <2>3. RestIsBlank'
    BY <1>1, <1>2, <1>3, <2>1 DEF RestIsBlank, Writing, Touched
  <2> QED
    BY <2>2, <2>3
<1>5. CASE ~(cursor + 1 < CellsPerPage)
  <2>1. /\ pc' = "idle" /\ cursor + 1 = CellsPerPage
        /\ saved' = [p \in DOMAIN saved \cup {page} |-> IF p = page THEN data ELSE saved[p]]
    BY <1>1, <1>5, Sizes DEF ProgramDoubleWord, WriteEnds
  <2>2. DOMAIN saved' = DOMAIN saved \cup {page}
    BY <2>1
  <2>3. mem'[page] = data
    BY <2>1, ProgrammedPage
  <2>4. SavedIsKept'
    BY <1>1, <1>2, <2>1, <2>2, <2>3 DEF SavedIsKept
  <2>5. BlocksInOrder'
    BY <1>1, <2>1, <2>2 DEF BlocksInOrder, Writing
  <2>6. \A q \in Pages : Touched(q)' <=> Touched(q)
    BY <1>1, <2>1, <2>2 DEF Touched, Writing
  <2>7. RestIsBlank'
    BY <1>1, <1>2, <1>3, <2>1, <2>2, <2>6 DEF RestIsBlank, Writing
  <2> QED
    BY <2>4, <2>5, <2>7
<1> QED
  BY <1>4, <1>5

LEMMA OrderStep ==
  ASSUME TypeOK, WriteIsWhole, OrderInv, [Next]_vars
  PROVE  OrderInv'
<1>0. DOMAIN NothingSaved = {}
  BY Zenon DEF NothingSaved
<1>1. CASE StartUpload
  <2>1. /\ pc' = "idle" /\ DOMAIN saved' = {}
        /\ orderly' = BlocksFillFromTheStart /\ mem' = mem
    BY <1>0, <1>1 DEF StartUpload, writeVars
  <2> SUFFICES ASSUME orderly' PROVE OrderInv'
    BY DEF OrderInv
  <2>2. BlocksFillFromTheStart'
    BY <2>1 DEF BlocksFillFromTheStart
  <2> QED
    BY <2>1, <2>2 DEF OrderInv, SavedIsKept, BlocksInOrder, RestIsBlank, Writing, Touched,
                      BlocksFillFromTheStart
<1>2. ASSUME NEW p \in Pages, BeginWrite(p) PROVE OrderInv'
  <2>1. orderly' = (orderly /\ InOrder(p))
    BY <1>2 DEF BeginWrite
  <2>2. CASE orderly /\ InOrder(p)
    BY <1>2, <2>2, BeginWriteOrder DEF OrderInv
  <2>3. CASE ~(orderly /\ InOrder(p))
    BY <2>1, <2>3 DEF OrderInv
  <2> QED
    BY <2>2, <2>3
<1>3. CASE ProgramDoubleWord
  <2>1. orderly' = orderly
    BY <1>3 DEF ProgramDoubleWord
  <2>2. CASE orderly
    BY <1>3, <2>2, ProgramOrder DEF OrderInv
  <2> QED
    BY <2>1, <2>2 DEF OrderInv
<1>4. CASE Reset
  <2>1. /\ pc' = "idle" /\ DOMAIN saved' = {}
        /\ orderly' = BlocksFillFromTheStart /\ mem' = mem
    BY <1>0, <1>4 DEF Reset, WriteEnds
  <2> SUFFICES ASSUME orderly' PROVE OrderInv'
    BY DEF OrderInv
  <2>2. BlocksFillFromTheStart'
    BY <2>1 DEF BlocksFillFromTheStart
  <2> QED
    BY <2>1, <2>2 DEF OrderInv, SavedIsKept, BlocksInOrder, RestIsBlank, Writing, Touched,
                      BlocksFillFromTheStart
<1>5. CASE UNCHANGED vars
  BY <1>5 DEF vars, writeVars, OrderInv, SavedIsKept, BlocksInOrder, RestIsBlank, Writing, Touched
<1> QED
  BY <1>1, <1>2, <1>3, <1>4, <1>5 DEF Next

LEMMA OrderInit == Init => OrderInv
<1> SUFFICES ASSUME Init PROVE OrderInv
  OBVIOUS
<1>1. DOMAIN saved = {}
  BY Zenon DEF Init, NothingSaved
<1> QED
  BY <1>1, Sizes, FirstPageIsPage
  DEF Init, OrderInv, SavedIsKept, BlocksInOrder, RestIsBlank, Writing, Touched

\* What is saved and blank in its blocks, in every state of an upload that is orderly.
LEMMA OrderInvariance == Spec => []OrderInv
<1>1. TypeOK /\ WriteIsWhole /\ OrderInv /\ [Next]_vars => OrderInv'
  BY OrderStep
<1> QED
  BY OrderInit, <1>1, FlashTypeCorrect, WritesAreWhole, PTL DEF Spec

\* The pages an orderly upload has saved stay as they were sent until another one begins,
\* for any data: pages that look erased are kept as well.
THEOREM UploadsAreKept == Spec => []UploadIsKept
<1>1. OrderInv => UploadIsKept
  BY DEF OrderInv, SavedIsKept, UploadIsKept
<1> QED
  BY <1>1, OrderInvariance, PTL

\* If no first page of a block looks erased, an orderly upload leaves blocks that fill
\* from the start, at whatever page it stops, so that the next one finds what it needs.
THEOREM BlocksFill == NoBlankFirstPages => (Spec => []BlocksStayFilled)
<1> SUFFICES ASSUME NoBlankFirstPages PROVE Spec => []BlocksStayFilled
  OBVIOUS
<1>1. TypeOK /\ OrderInv => BlocksStayFilled
  <2> SUFFICES ASSUME TypeOK, OrderInv, orderly,
                      NEW p \in Pages, mem[FirstPage(p)] = BlankPage
               PROVE  mem[p] = BlankPage
    BY DEF BlocksStayFilled, BlocksFillFromTheStart
  <2> USE DEF OrderInv
  <2>1. /\ FirstPage(p) \in Pages /\ SameEraseBlock(FirstPage(p), p) /\ FirstPage(p) <= p
        /\ FirstPage(FirstPage(p)) = FirstPage(p) /\ DOMAIN saved \subseteq Pages
    BY BlockFacts DEF TypeOK
  <2>2. FirstPage(p) \notin DOMAIN saved
    BY <2>1 DEF TypeOK, SavedIsKept, NoBlankFirstPages
  <2>3. p # FirstPage(p) => p \notin DOMAIN saved /\ ~Writing(p)
    <3>1. p # FirstPage(p) => FirstPage(p) < p
      <4>1. \A m, n \in Nat : m <= n /\ n # m => m < n
        OBVIOUS
      <4> QED
        BY <2>1, <4>1, Sizes
    <3> QED
      BY <2>1, <2>2, <3>1 DEF BlocksInOrder
  <2> QED
    BY <2>1, <2>2, <2>3 DEF RestIsBlank
<1> QED
  BY <1>1, FlashTypeCorrect, OrderInvariance, PTL

=============================================================================
