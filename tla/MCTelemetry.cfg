SPECIFICATION FairSpec
CONSTANTS
    Margin = 3
    Timeout = 2
    Default = 7
    Lifetimes = {0, 2, 5}
    MaxClock = 8
    MaxLists = 2
    CanFail = {"mill", "yr", "db", "host"}
INVARIANTS WholeBatch TokenInTime
PROPERTIES PagesGetFresh
