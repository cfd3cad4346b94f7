SPECIFICATION Spec
CONSTANTS
    Word <- ExampleWords
    None = None
    BlockKeys <- Keys
    ZoneLists <- ExampleLists
    Directive <- ExampleLines
    Number <- Numbers
    Flag <- Flags
    Reverse = {"in-addr.arpa"}
    NoHost = {"bad"}
    Selector <- Selectors
    Directory = {"dir", "empty"}
    WithToken = {"dir"}
    WithCA = {"dir"}
    Readable = {"secret/kubeconfig", "config", "token", "file", "ca.crt", "cert"}
    InCluster = TRUE
    MaxStanzas = 1
    MaxLines = 4
INVARIANT SetupAnswers
CHECK_DEADLOCK FALSE
