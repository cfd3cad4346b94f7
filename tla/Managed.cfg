SPECIFICATION FairSpec
CONSTANTS
    s1 = s1  s2 = s2  r = r  q = q  n = n  m = m  e = e
    None = None  Absent = Absent  Missed = Missed
    Zone = {r, n}
    Entry = {e}
    Label = {"org", "de", "sub", "dev", "www", "ftp"}
    Server = {s1}
    Slave = {s1}
    Transitive = {}
    Synced = {s1}
    Supervised = {r, n, e}
    RootOf <- RootR
    Specs <- ManagedSpecs
    Initial <- ManagedInitial
    Ops <- ManagedOps
    Limit <- ManagedLimit
INVARIANTS SupervisedObjectsSettle ConditionsSettle
PROPERTIES Calms StoreSpec
CHECK_DEADLOCK FALSE
