CONSTANTS
    Apps = {a}
    Jobs = {j1, j2}
    Main = main
    NoApp = none
    MaxSignals = 1
    MaxCrashes = 0
SPECIFICATION SafeSpec
CHECK_DEADLOCK FALSE
SYMMETRY JobSymmetry
INVARIANTS NotLeftInHelper QueueIsQueued NoStuckAction
