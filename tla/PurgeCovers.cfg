\* Shots come and go, and everything may fail, while a job goes through them
\* under fair scheduling.
SPECIFICATION FairSpec
CONSTANTS
  Ids = {1, 2, 3}
  LastTime = 2
  BatchSize = 2
  Disturbances = {"upload", "bulk_delete", "store_error", "row_error", "raise", "crash", "no_task"}
  Nil = Nil
INVARIANTS
  CountsAgree
  CompletedCovers
  OneBatchMessage
  RowsMatchObjects
PROPERTIES
  PurgeSweeps
  PurgeEnds
