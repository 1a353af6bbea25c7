CONSTANTS
    Apps = {a}
    Jobs = {j1}
    Main = main
    NoApp = none
    MaxSignals = 0
    MaxCrashes = 0
SPECIFICATION SafeSpec
CHECK_DEADLOCK FALSE
INVARIANT SuccessIsInstalledOrQueued
