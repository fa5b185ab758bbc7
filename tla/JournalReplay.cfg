\* An interrupted append makes the journal unreadable for good.
SPECIFICATION Spec
CONSTANTS
  w1 = w1
  w2 = w2
  w3 = w3
  r1 = r1
  r2 = r2
  r3 = r3
  Writers <- ThreeWriters
  Records <- ThreeRecords
  Size <- Sizes
  NoRecord = NoRecord
  Capacity = 2
  MaxBytes = 4
  Id <- Ids
  Embedding <- Embeddings
  PointTags <- Tags
  MaxFloat = 50
  Queries <- AllQueries
  MaxCrashes = 1
  MaxOwner = 1
INVARIANT
  ReplayAfterRestart
