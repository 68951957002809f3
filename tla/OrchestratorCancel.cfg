CONSTANTS
  Jobs = {j1, j2}
  MaxConcurrent = 1
SPECIFICATION Spec
PROPERTIES CancelledIsFinal
