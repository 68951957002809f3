CONSTANTS
  Jobs = {j1, j2, j3}
  MaxConcurrent = 1
SYMMETRY JobSymmetry
SPECIFICATION Spec
INVARIANTS SlotsRespected TypeOK PermitsConserved NoIdleSlot OrphanOnlyIfCancelled
  SettledStatusTrue StopLeavesOnlyLateJobs
