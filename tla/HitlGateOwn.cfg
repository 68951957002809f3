CONSTANTS
  a = a
  b = b
  NoJob = NoJob
  Jobs <- TwoJobs
  Keys <- TableKeys
  Uuid <- OwnUuid
  JobKey <- MixedKey
  Timeout = 2
  MaxRounds = 2
SPECIFICATION FairSpec
INVARIANTS PollsOwnRow DecisionsComeByKey LeftoverOnlyIfCancelled TypeOK
PROPERTIES EveryRequestEnds
CHECK_DEADLOCK FALSE
