SPECIFICATION Spec
CONSTANTS
    Players = {1, 2}
    Npcs = {1000, 1001}
    Width = 3
    Height = 2
    Blocked <- MCBlocked
    City <- MCCity
    Priests <- MCPriests
    Staff <- MCPriests
    Haunts <- MCHaunts
    BaseSpawn <- MCBaseSpawn
    AttackRange = 3
    PopulationLimit = 1
    Nowhere = Nowhere
CONSTRAINT MCRaceEnds
INVARIANTS
    TypeOK
    WorldIsConsistent
PROPERTIES
    NoOtherJumps
    GhostsComeBack
