SPECIFICATION FairSpec
CONSTANTS
    Heaters = {h1, h2}
    NoOne = NoOne
    MaxTime = 3
    PerHour = 2
    MaxRotations = 1
    MaxUpsets = 1
INVARIANTS OnlineIsBacked TablesAgree
PROPERTIES PresenceSettles
