CONSTANTS
  NSlots = 3
  Scripts <- MCScripts
  MaxSteps = 1
  BYTE = 16
  LTF_MAX_FIELDS = 2
  LTF_MAX_KEY_LEN = 2
  CANONICAL_QNAN = 12
  NaNs = {12, 13}
  Tables <- MCTables
  Caps = {5, 12, 15, 40}
SPECIFICATION MCScriptSpec
INVARIANTS SlotsAreStable
