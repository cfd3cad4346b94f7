SPECIFICATION Spec
CONSTANTS
    s1 = s1  s2 = s2  r = r  q = q  n = n  m = m  e = e
    None = None  Absent = Absent  Missed = Missed
    Zone = {r}
    Entry = {e}
    Label = {"org", "de", "sub", "dev", "www", "ftp"}
    Server = {s1}
    Slave = {}
    Transitive = {s1}
    Synced = {}
    Supervised = {}
    RootOf <- RootR
    Specs <- ColdSpecs
    Initial <- ColdInitial
    Ops <- NoOperations
    Limit <- NoActions
INVARIANTS ServedEntriesSettle
CHECK_DEADLOCK FALSE
