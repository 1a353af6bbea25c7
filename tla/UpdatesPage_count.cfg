CONSTANTS
    Workers = {}
    Main = main
    LateCount = FALSE
    MaxReports = 1
    MaxJobs = 0
    JobIds = {1, 2}
    MaxActions = 3
    MaxFailures = 1
SPECIFICATION SafeSpec
CHECK_DEADLOCK FALSE
INVARIANT CountIsJobs
