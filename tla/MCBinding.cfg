SPECIFICATION BindingSpec
CONSTANTS
    Libs <- MCLibs
    LIB_MAX = 3
    SYM_MAX = 2
    PAGE = 4
    LIB_LOAD_ADDR = 8
    MEM_SIZE = 40
    MAX_LOADS = 4
    Worlds <- MCWorlds
    ConsoleLib = "A"
    HookName = "f"
    Starts <- MCStarts
    FRAMES = 2
    MAX_TRAMPOLINES = 4
    TRAMP_FNS = 3
    WORD = 32
    MAX_CALLS = 2
    Carts <- MCCarts
    NativeCarts <- MCNativeCarts
    CallArgs <- MCCallArgs
CHECK_DEADLOCK FALSE
INVARIANTS LoaderSound CallsAnswered HookFollowsTheCart
PROPERTIES BindingEnds
