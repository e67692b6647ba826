\* The same stream of two words, cut anywhere.
SPECIFICATION Spec
CONSTANTS
  Texts <- TwoWords
  Wide = {"w"}
  ChunkSize = 3
  Overlaps = {1}
  MinChunkSize = 2
  EmbedBatch = 2
  MaxPartial = 4
  MaxUnit = 3
INVARIANT SameTextAsPipeline
CHECK_DEADLOCK FALSE
