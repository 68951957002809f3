CONSTANTS
  a = a
  b = b
  c = c
  Jobs <- ThreeJobs
  Keys <- TwoDatasets
  Uuid <- DatasetOf
  MaxDamage = 1
SPECIFICATION FairSpec
INVARIANTS SavedRecordsStay LookupFailsOnlyOnDamage TmpOnlyWhileWriting TypeOK
PROPERTIES EveryLookupEnds
CHECK_DEADLOCK FALSE
