CONSTANTS
  MaxIterations = 1
  MaxReviews = 2
  MaxWall = 2
  CanHit = FALSE
  RiskKey = "operation"
  Scores <- ThresholdScores
SPECIFICATION Spec
INVARIANTS HighRiskPlansHeld
CHECK_DEADLOCK FALSE
