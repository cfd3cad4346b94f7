SPECIFICATION Spec
CONSTANTS
    s1 = s1  s2 = s2  r = r  q = q  n = n  m = m  e = e
    None = None  Absent = Absent  Missed = Missed
    Zone = {r, n}
    Entry = {e}
    Label = {"org", "de", "sub", "dev", "www", "ftp"}
    Server = {s1}
    Slave = {}
    Transitive = {s1}
    Synced = {s1}
    Supervised = {}
    RootOf <- RootR
    Specs <- SteadySpecs
    Initial <- SteadyInitial
    Ops <- SteadyOps
    Limit <- SteadyLimit
INVARIANTS VerdictsInFlight ServedZonesSettle ServedEntriesSettle OrphansSettle WrongEntriesSettle
PROPERTIES StoreSpec
CHECK_DEADLOCK FALSE
