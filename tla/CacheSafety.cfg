\* Two tasks; locks expire under them, are leaked and are released by others;
\* changes may stay unknown to the listener.
SPECIFICATION Spec
CONSTANTS
  Tasks = {t1, t2}
  Readers = {}
  TTL = 2
  LockTTL = 1
  MaxRun = 1
  MaxLate = 6
  MaxOverruns = 1
  MaxMail = 1
  Disturbances = {"purge", "bulk_delete", "failed_task", "listener_restart"}
  Nil = Nil
SYMMETRY Symmetry
INVARIANTS
  LatestBounded
  BytesBounded
  WarmsBounded
