SPECIFICATION Spec
CONSTANTS
    Me = Me
    Others = {other}
    Npcs = {priest}
    NoNpc = NoNpc
    Potions = {potion}
    Gear = {sword}
    Nothing = Nothing
    Size = 2
    Interactions = {"RESURRECT", "BUY", "SELL", "HEAL", "LIST"}
    MaxCommands = 1
    MaxUpdates = 0
INVARIANTS
    TypeOK
    ViewIsExact
PROPERTY
    DepartedFade
