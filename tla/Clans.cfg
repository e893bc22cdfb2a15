SPECIFICATION Spec
CONSTANTS
    Players <- MCPlayers
    Nicks <- MCNicks
    Nick <- MCNick
    Names = {n1, n2}
    MaxMembers = 2
    MaxClans = 2
INVARIANTS
    TypeOK
    ClanIdHasMembership
    ClansAreConsistent
PROPERTY
    WaysIntoClans
