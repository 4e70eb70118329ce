CONSTANTS
    o1 = o1
    o2 = o2
    o3 = o3
    v1 = v1
    v2 = v2
    HEAP_SIZE = 10
    ALIGN = 2
    HDR = 1
    SIZE_MOD = 64
    MAX_REQUEST = 31
    Objs = {o1, o2, o3}
    Requests = {1, 2, 4, 31}
    Values = {v1, v2}
    Zero = zero
    Link = link
    Unset = unset
    NoObj = noObj
    LONG_BITS = 5
    DIV_BITS = 6
    STDIO_BUF = 4
    FRAC = 8
    MEM = 6
    Strings <- MCStrings
    Arrays <- MCArrays
    Formats <- MCFormatsUsed
    Meters = {"budget", "stub", "fire", "delay", "debt"}
    QUANTUM = 4
    DELAY = 3
    BUDGET = 6
    HOOK_COUNT = 2
    TICS = 2
    MICRO = 2
    Epochs = {4, 5, 6, 7}
    Costs = {0, 1, 5}
    Pauses = {0, 7}
    MAX_EVENTS = 4
    NSlots = 2
    Scripts = {"cs", "ai"}
    MaxSteps = 1
    BYTE = 16
    LTF_MAX_FIELDS = 2
    LTF_MAX_KEY_LEN = 2
    CANONICAL_QNAN = 12
    NaNs = {12, 13}
    Tables <- MCTables
    Caps = {5, 12, 15, 40}
SPECIFICATION MCSpec
SYMMETRY Symmetry
INVARIANTS HeapSound LibraryAsSpecified MetersExact CtxSound FlattenSound
PROPERTIES RestoredInOrder
