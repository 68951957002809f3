CONSTANTS
  PoolSize = 3
  MaxReviews = 3
SPECIFICATION Spec
INVARIANTS EveryModelOncePerCall WinnerIsAskedFirst TypeOK
CHECK_DEADLOCK FALSE
