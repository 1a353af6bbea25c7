CONSTANTS
    N = 3
    MaxPasses = 20
    RuleSets <- MCRuleSets
    SetsUp = {1, 2}
    ShutsDown = {1, 2}
    HasWorker = {1}
    Jobs = {j}
    Refine = refine
    MaxRounds = 2
    Workers = {w1, w2}
    Main = main
    LateCount = TRUE
    MaxReports = 3
    MaxJobs = 3
SPECIFICATION BothSpec
CHECK_DEADLOCK FALSE
INVARIANTS JobsAfterSetup WaitsForAnswers OrderIsRight IdIsAttached NotForgotten
PROPERTIES SetupEnds ReportIsEmitted
