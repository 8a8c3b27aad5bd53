SPECIFICATION Spec
CONSTANTS
  ChunksPerPageMax = 2
  PagesCountMax = 3
  FullChunkCount = 2
  Long = long
  Short = short
  Images = {long}
  PageCountOf <- MCPageCountOf
  LastChunkCount <- MCLastChunkCount
  NoImage = NoImage
  Blank = Blank
  PagesPerEraseBlock = 2
  MaxSubmits = 2
  MaxDuplicates = 0
  MaxResets = 0
PROPERTIES
  FinishMeansSaved
CHECK_DEADLOCK FALSE
