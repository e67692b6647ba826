\* Two jobs in two processes, re-ingesting one document, with edits, deletions,
\* cancellations and crashes.
SPECIFICATION Spec
CONSTANTS
  a = a
  b = b
  d1 = d1
  d2 = d2
  v1 = v1
  v2 = v2
  e1 = e1
  none = none
  Jobs = {a, b}
  Docs = {d1, d2}
  Versions = {v1, v2}
  Remote = {d2}
  DocsOf <- TwoJobs
  ChunksOf <- Sizes
  Extracting = {a, b}
  WithRowsUrl = {a}
  Edits = {e1}
  ChunkOf <- EditedChunks
  MaxChunks = 3
  BatchSize = 2
  RowBatch = 1
  Attempts = 2
  NoRow = none
INVARIANTS
  VectorMatchesText
  ProcessedIsStored
PROPERTIES
  OnlyIngestionAddsRows
  DeliveredOrLost
CHECK_DEADLOCK FALSE
