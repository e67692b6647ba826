\* Chunks of three with an overlap of one, or three and so two, batches of two, lines of at most four.
SPECIFICATION Spec
CONSTANTS
  Texts <- SomeTexts
  Wide = {"w"}
  ChunkSize = 3
  Overlaps = {1, 3}
  MinChunkSize = 2
  EmbedBatch = 2
  MaxPartial = 4
  MaxUnit = 5
INVARIANTS
  MemoryIsBounded
  LinesAreJudgedWhole
  RowsAreTheStream
  StoredIsPrefix
CHECK_DEADLOCK FALSE
