SPECIFICATION MCSpec
CONSTANTS
  RegionDefs <- MCRegionDefs
  Builds <- MCBuilds
  Registry <- MCRegistry
  Values <- MCValues
  Zero = "zero"
  CartValues <- MCCartValues
  Canon <- MCCanon
  Accepts <- MCAccepts
  ScratchCap <- MCScratchCap
  BufCap <- MCBufCap
  Fnv <- MCFnv
  BadHash = BadHash
  None = None
  Handles = {h1, h2, h3, h4}
  PendingMax = 2
INVARIANTS AcceptedLoadIsWholeAndSameLayout GatesAreExact QueueSound
PROPERTIES CartNeverRunsOnAMixture EndReachesTheCart
