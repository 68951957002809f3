CONSTANTS
  Rows = 2000
  TokenBudget = 14
  Jobs <- AllJobs
  Budget = 70
  MaxColumns = 100
  MaxIterations = 3
SPECIFICATION Spec
INVARIANTS NoConflictingWork WorkSurvivesRefinement RefinementSettles SelectionIsMaximal
  MeanBeatsKnn SelectedWorkIsDone ModelingFailsOnGappyCategories ColumnsLostOnlyToNameClash
  TypeOK
PROPERTIES ImplementsMetaAgent
CHECK_DEADLOCK FALSE
