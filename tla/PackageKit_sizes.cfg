CONSTANTS
    PkUpdates = {p1, p2}
    PkThreads = {t1}
    NoFile = nofile
    MaxPkEvents = 2
SPECIFICATION PkSpec
CHECK_DEADLOCK FALSE
INVARIANT PreparedHasZeroSize
