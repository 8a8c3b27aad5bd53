SPECIFICATION Spec
CONSTANTS
  ChunksPerPageMax = 2
  PagesCountMax = 3
  FullChunkCount = 2
  Long = long
  Short = short
  Images = {long, short}
  PageCountOf <- MCPageCountOf
  LastChunkCount <- MCLastChunkCount
  NoImage = NoImage
  Blank = Blank
  PagesPerEraseBlock = 2
  MaxSubmits = 3
  MaxDuplicates = 2
  MaxResets = 1
INVARIANTS
  TypeOK
  FlashPagesWhole
  CompleteMeansSaved
  StartComesFirst
PROPERTIES
  EveryUploadEnds
CHECK_DEADLOCK FALSE
