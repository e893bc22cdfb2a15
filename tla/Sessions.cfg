SPECIFICATION Spec
SYMMETRY Symmetry
CONSTANTS
    Handlers = {h1, h2}
    Nicks = {ana, beto}
    MatchNames = {north}
    Capacities = {1, 2}
    MaxPlayerId = 2
    MaxMatches = 1
    MaxQueue = 1
INVARIANTS
    TypeOK
    NickRegistryExact
    ListsAreLive
    CountIsExact
PROPERTIES
    ImplementsRooms
