SPECIFICATION FairSpec
CONSTANTS
    s1 = s1  s2 = s2  r = r  q = q  n = n  m = m  e = e
    None = None  Absent = Absent  Missed = Missed
    Zone = {r}
    Entry = {e}
    Label = {"org", "de", "sub", "dev", "www", "ftp"}
    Server = {s1}
    Slave = {}
    Transitive = {s1}
    Synced = {}
    Supervised = {}
    RootOf <- RootR
    Specs <- RestartSpecs
    Initial <- RestartInitial
    Ops <- RestartOps
    Limit <- RestartLimit
INVARIANTS TypeOK CopiesAreVersions CachesFollow ServedZonesSettle RootZonesSettle
PROPERTIES VerdictFitsSpec Calms WorkerReturns
CHECK_DEADLOCK FALSE
