CONSTANTS
  Rows = 2000
  TokenBudget = 14
  Jobs <- FewJobs
  Budget = 70
  MaxColumns = 100
  MaxIterations = 3
SPECIFICATION Spec
INVARIANTS TargetNeverTransformed
CHECK_DEADLOCK FALSE
