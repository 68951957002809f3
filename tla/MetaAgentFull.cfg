CONSTANTS
  MaxIterations = 3
  MaxReviews = 3
  MaxWall = 4
  CanHit = TRUE
  RiskKey = "action_type"
  Scores <- ThresholdScores
SPECIFICATION FairSpec
INVARIANTS NoReviewAfterRefinement
  ExecutedPlanWasValidated StaleImpactOnlyAfterAnomaly IterationsBounded
  RecordImpliesArtifacts TypeOK
PROPERTIES Terminates
CHECK_DEADLOCK FALSE
