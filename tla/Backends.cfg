CONSTANTS
    MetaApps = {m1, m2, m3}
    InSilo = {m1}
    WithPackage = {m1}
    WithContainer = {m1}
    PoolThreads = {t1, t2}
    Nobody = nobody
    MaxChanges = 2
    MaxDisturbed = 1
    OstreeWorker = worker
    OstreePool = {p1}
    Client = client
    NoOne = noone
    OstreeOps = {"enable", "install", "remove", "update", "list updates"}
    MaxProxies = 2
    MaxOstreeJobs = 2
    MaxForeign = 1
    MaxVersion = 2
    MaxTime = 2
    Size = 2
    CacheAge = 1
    NoFile = NoFile
SPECIFICATION BackendsSpec
CHECK_DEADLOCK FALSE
INVARIANTS VanillaInv EosInv OstreeInv DownloadInv
PROPERTIES DownloadKeeps BackendsEnd
