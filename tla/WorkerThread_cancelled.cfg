CONSTANTS
    t1 = t1
    t2 = t2
    t3 = t3
    Tasks = {t1, t2, t3}
    ShutdownTask = shutdown
    Callers = {main, pool1, pool2}
    Main = main
    Calls = {s1, s2}
    NoTask = none
    Priority <- MCPriority
SPECIFICATION SafeSpec
CHECK_DEADLOCK FALSE
PROPERTIES RemainingAreCancelled
