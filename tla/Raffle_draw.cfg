CONSTANTS
    Players = {p1, p2}
    Rejecting = {}
    EntranceFee = 2
    Interval = 1
    Values = {1, 2, 3}
    MaxTime = 2
    MaxPlayers = 3
    MaxRequests = 2
    NoOne = NoOne
SPECIFICATION FairSpec
PROPERTY DrawCompletes
CHECK_DEADLOCK FALSE
