CONSTANTS
    Refs = {a, r, x}
    MainApps = {a}
    Runtime = r
    Extensions = {x}
    JobThreads = {t1, t2}
    NoRef = noref
    MaxActivities = 2
SPECIFICATION FlatpakSpec
CHECK_DEADLOCK FALSE
PROPERTY ListingLeavesInstalling
