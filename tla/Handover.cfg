SPECIFICATION Spec
CONSTANTS
    s1 = s1  s2 = s2  r = r  q = q  n = n  m = m  e = e
    None = None  Absent = Absent  Missed = Missed
    Zone = {r, q}
    Entry = {e}
    Label = {"org", "de", "sub", "dev", "www", "ftp"}
    Server = {s1, s2}
    Slave = {}
    Transitive = {s1, s2}
    Synced = {s1, s2}
    Supervised = {}
    RootOf <- RootsRQ
    Specs <- HandoverSpecs
    Initial <- HandoverInitial
    Ops <- HandoverOps
    Limit <- HandoverLimit
INVARIANTS CopiesAreVersions ServedEntriesSettle ForeignEntriesReleased LeftEntriesRelease
PROPERTIES OnlyOwnersRelease
CHECK_DEADLOCK FALSE
