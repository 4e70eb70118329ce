SPECIFICATION Spec
CHECK_DEADLOCK FALSE
CONSTANTS
  Lines = {0, 1}
  MaxBps = 1
  MaxDepth = 2
  Frames = 1
  MaxEvents = 3
  Budget = 1
  MaxRequests = 3
  Commands <- Everything
  Pipelines = FALSE
INVARIANTS CartRunsALiveState
