SPECIFICATION PartsSpec
CONSTANTS
    Threads = {t1, t2, t3, t4}
    LongWait = 1
    MayCancel = TRUE
SYMMETRY Symmetry
INVARIANTS MutualExclusion QueueKept NotificationsKept
