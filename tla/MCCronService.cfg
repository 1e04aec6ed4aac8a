SPECIFICATION FairSpec
CONSTANTS
  once = once
  often = often
  m1 = m1
  m2 = m2
  Jobs <- MCJobs
  OneShot = {once}
  DeleteAfterRun = {once}
  Services <- MCServices
  Manuals <- MCManuals
  Environments <- MCEnvironments
  Every = 2
  Backoff = 1
  Timeout = 2
  Concurrency = 1
  MaxImmediate = 1
INVARIANTS
  TypeOK
  NoOverlap
  MarkStands
  CopyInSync
PROPERTIES
  NoSlotSkipped
  EditsStand
  DueJobsRun
CHECK_DEADLOCK FALSE
