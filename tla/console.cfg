SPECIFICATION FairSpec
CONSTANTS
    Queries <- MCQueries
    Values <- MCValues
    NoData = NoData
    NoFetch = NoFetch
    Sent = Sent
    Refused = Refused
    Absent = Absent
    MayFail = TRUE
    Fulfilment = "pickup"
    MaxClicks = 1
    MaxAsks = 2
INVARIANTS
    ConsoleTypeOK
    RefusedWasOvertaken
    OwnChangeIsShown
    ListIsTheMenu
PROPERTIES
    QueueCatchesUp
    VisitsSettle
