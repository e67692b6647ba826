\* Chunks of at most six characters, an overlap of two, and at least three;
\* a model that reads eight characters or two pages, and at least three.
SPECIFICATION FairDocumentSpec
CONSTANTS
  Documents <- SomeDocuments
  ChunkSize = 6
  ChunkOverlap = 2
  MinChunkSize = 3
  MaxUnits = 4
  Lengths = {0, 1, 2, 4, 7}
  MaxText = 20
  Files <- SomeFiles
  Fields <- SomeFields
  KeyOf <- SomeKeys
  NormalOf <- SomeNormals
  NoLetters = "none"
  CharsOf <- SomeLengths
  Personal = {"acme", "seal"}
  Marker = "marker"
  Redacted = "redacted"
  MinTextChars = 3
  MaxChars = 8
  StreamCap = 9
  MaxPages = 2
  PageLimit = 2
INVARIANTS
  PackingIsTight
  TextIsCovered
  RowTellsTheTruth
  FindingsAreKept
  OneRowPerDocument
  ChunksAreRedacted
PROPERTY DocumentEnds
CHECK_DEADLOCK FALSE
