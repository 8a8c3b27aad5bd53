SPECIFICATION Spec
CONSTANTS
  Blank = "blank"
  PagesPerEraseBlock = 3
  Contents <- MCContents
  PageCount = 6
  CellsPerPage = 2
  PageData <- MCPageData
INVARIANTS
  TypeOK
  WriteIsWhole
  UploadIsKept
  BlocksStayFilled
