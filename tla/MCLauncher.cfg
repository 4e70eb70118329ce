SPECIFICATION MCSpec
CONSTANTS
    JF_MAX = 11
    MAX_INSNS = 512
    MAX_FAULTS = 1
    CartCodes = {1, 124, 159}
    SingleCases <- MCSingleCases
    BuildLists <- MCBuildLists
    BufSizes = {7, 12, 13, 20, 40}
    p1 = p1
    c1 = c1
    c2 = c2
    bad = bad
    none = none
    noEntry = noEntry
    zeros = zeros
    h1 = h1
    h2 = h2
    h3 = h3
    Paths = {p1}
    Contents = {c1, c2, bad}
    Broken = {bad}
    Bytes <- MCBytes
    Digest <- MCDigest
    Zeros = zeros
    NoFile = none
    NoEntry = noEntry
    MaxClock = 2
    TickNs = 2
    Deltas <- MCDeltas
    Rate = 5
    Fps = 3
    MaxBatch = 2
    Schedule <- MCSchedule
    EndFrame = 3
    QCap = 2
    XMax = 6
    Masks <- MCMasks
    Buffers = {b1}
    MaxRuns = 3
    MaxTicks = 4
CHECK_DEADLOCK FALSE
INVARIANTS LaunchSafe ReportsMeanWhatTheySay FilterMeaning  ClocksAgree VoiceEndsOnce RewindIsExact
