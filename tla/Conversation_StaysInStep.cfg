CHECK_DEADLOCK FALSE
SPECIFICATION Spec
CONSTANTS
    SomeRequests <- AllRequests
    SomeUpdates <- AllUpdates
    GameRequests <- InGame
    Broadcasts <- FromMatch
    MatchIds = {300}
    MaxClicks = 4
    MaxBroadcasts = 1
INVARIANTS
    StaysInStep
