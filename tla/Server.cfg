SPECIFICATION FairSpec
CONSTANTS
    r = r
    n = n
    e = e
    f = f
    Zone = {r, n}
    Entry = {e, f}
    Label <- Labels
    None = None
    Absent = Absent
    RootZone = r
    Bases <- RootBases
    Fall <- FallNames
    Queries <- AllQueries
    AddressOf <- Reverses
    Bare <- Stripped
    Initial <- Begin
    Choices <- AnyChoice
    Modes <- BothModes
    MaxChanges = 1
INVARIANTS TypeOK ReadyMeansListed PathsAreLinked   DelegationsAreDeclared ZonesAreNamed SteadyDenials
PROPERTIES ReadyForGood RequestsProgress EveryRequestIsAnswered ServingStarts
CHECK_DEADLOCK FALSE
