CONSTANTS
  a = a
  b = b
  c = c
  Jobs <- ThreeJobs
  Keys <- TwoDatasets
  Uuid <- DatasetOf
  MaxDamage = 1
SPECIFICATION Spec
PROPERTIES OnlyCorruptedIsPurged
CHECK_DEADLOCK FALSE
