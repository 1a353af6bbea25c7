CONSTANTS
    t1 = t1
    t2 = t2
    t3 = t3
    Tasks = {t1, t2, t3}
    ShutdownTask = shutdown
    Callers = {main, pool1, pool2}
    Main = main
    Calls = {s1, s2}
    NoTask = none
    Priority <- MCPriority
    a = a
    b = b
    r = r
    w = w
    x = x
    None = none
    NPlugins = 2
    Apps <- MCApps
    Wildcards = {w}
    Resolved <- MCResolved
    Parts <- MCParts
    Addon = b
    Adopted = {a, x}
    Valid = {a, x}
    Lists <- MCLists
    FlagSets <- MCFlagSets
    Compatible = {a, b, r}
    Rank <- MCRank
    MaxResults = 1
    HasExternal = TRUE
SPECIFICATION BothSpec
CHECK_DEADLOCK FALSE
INVARIANTS
    NoTaskLost InOrder ShutdownIsSafe
    EverybodyRefined FrozenWhileRefined JobIsSound
PROPERTIES EverybodyReturns ImplementsExecutor JobSettles
