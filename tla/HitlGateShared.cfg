CONSTANTS
  a = a
  b = b
  NoJob = NoJob
  Jobs <- TwoJobs
  Keys <- TableKeys
  Uuid <- SharedUuid
  JobKey <- PageKey
  Timeout = 2
  MaxRounds = 2
SPECIFICATION Spec
INVARIANTS RowStaysWhilePolling
CHECK_DEADLOCK FALSE
