SPECIFICATION Spec
CONSTANTS
    s1 = s1  s2 = s2  r = r  q = q  n = n  m = m  e = e
    None = None  Absent = Absent  Missed = Missed
    Zone = {r, n, m}
    Entry = {e}
    Label = {"org", "de", "sub", "dev", "www", "ftp"}
    Server = {s1}
    Slave = {}
    Transitive = {s1}
    Synced = {s1}
    Supervised = {}
    RootOf <- RootR
    Specs <- CascadeSpecs
    Initial <- CascadeInitial
    Ops <- CascadeOps
    Limit <- OneOperation
INVARIANTS OrphansSettle
CHECK_DEADLOCK FALSE
