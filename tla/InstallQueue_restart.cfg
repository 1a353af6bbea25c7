CONSTANTS
    Apps = {a}
    Jobs = {j1}
    Main = main
    NoApp = none
    MaxSignals = 2
    MaxCrashes = 2
SPECIFICATION Spec
CHECK_DEADLOCK FALSE
PROPERTY QueueSurvives
