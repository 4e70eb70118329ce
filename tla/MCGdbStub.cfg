CONSTANTS
  Addrs <- MCAddrs
  Asked <- MCAsked
  MaxBreaks = 1
  MaxRequests = 2
  MaxSessions = 2
  MaxWire = 3
  Builds <- AllBuilds
  Scratch = 5
  MaxFrames = 2
SPECIFICATION MCSpec
INVARIANTS StubSound EditKeepsState
PROPERTIES DetachFreesTheCpu ShutdownEnds
