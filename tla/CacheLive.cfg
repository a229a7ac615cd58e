\* A task and a request under fair scheduling.
SPECIFICATION FairSpec
CONSTANTS
  Tasks = {t1}
  Readers = {r1}
  TTL = 1
  LockTTL = 2
  MaxRun = 1
  MaxLate = 4
  MaxOverruns = 1
  MaxMail = 1
  Disturbances = {"bulk_delete", "lost_publication", "failed_query"}
  Nil = Nil
INVARIANTS
  TypeOK
PROPERTIES
  EventuallyFresh
