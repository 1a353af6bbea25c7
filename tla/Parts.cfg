CONSTANTS
    Refs = {a, r, x}
    MainApps = {a}
    Runtime = r
    Extensions = {x}
    JobThreads = {t1, t2}
    NoRef = noref
    MaxActivities = 3
    SiloThreads = {t1, t2}
    NoSilo = nosilo
    MaxContent = 2
    MonitorApps = {u1, u2}
    LiveApps = {u1}
    CriticalApps = {u2}
    MonitorJobs = {1, 2}
    MaxHalfDays = 4
    MaxEvents = 2
    ReadyDays = 1
    WaitingDays = 2
    RefreshWhenMetered = FALSE
    PkUpdates = {p1}
    PkThreads = {t1, t2}
    NoFile = nofile
    MaxPkEvents = 3
SPECIFICATION PartsSpec
SYMMETRY ThreadSymmetry
CHECK_DEADLOCK FALSE
INVARIANTS FlatpakInv SiloInv MonitorInv PkInv
PROPERTY NotifiedOncePerDay
