SPECIFICATION Spec
CONSTANTS
  Builds <- LuaBuilds
  Scratch = 5
  MaxFrames = 4
INVARIANTS DescribedEditPasses
