SPECIFICATION MCSpec
CONSTANTS
  NFRAMES = 5
  PendingMax = 1
  ShakeTrigger = 1
  ShakeFrames = 2
  SAVE_AT_S_CTR = 3
  ALLOC_FRAMES = 7
  GROW_EVERY = 2
  GROW_MAX = 2
  SAVE_BYTES = 5
  CHUNK = 2
  MAX_BOOTS = 3
CHECK_DEADLOCK FALSE
INVARIANTS ReplaySound BufferIsHostIndependent AllocSound
PROPERTIES RunsComplete
