SPECIFICATION Spec
CONSTANTS
    Word <- FileWords
    None = None
    BlockKeys <- Keys
    ZoneLists <- Lists
    Directive <- Lines
    Number <- Numbers
    Flag <- Flags
    Reverse = {"in-addr.arpa"}
    NoHost = {"bad"}
    Selector <- Selectors
    Directory = {"dir", "empty"}
    WithToken = {"dir"}
    WithCA = {"dir"}
    Readable = {"config", "token", "file", "ca.crt", "cert"}
    InCluster = TRUE
    MaxStanzas = 2
    MaxLines = 5
INVARIANTS TypeOK StartsAsPrimary 
CHECK_DEADLOCK FALSE
