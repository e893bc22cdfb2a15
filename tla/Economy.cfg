SPECIFICATION Spec
CONSTANTS
    Players = {p1, p2}
    Potions = {potion}
    Gear = {sword}
    MagicWeapons = {}
    MaxItems = 2
    Cells = {city, wild}
    City = {city}
    MaxLevel = 2
    NpcGold = {1}
    MaxSafeGold = 1
    MaxSafeItems = 1
    NoItem = NoItem
    Nothing = Nothing
    p1 = p1
    p2 = p2
    potion = potion
    sword = sword
    city = city
    wild = wild
    WornAs <- MCWornAs
    Distance <- MCDistance
    Price <- MCPrice
    Saves <- MCSaves
    BuyFactor = 1
    MaxGold <- MCMaxGold
    Holdable <- MCHoldable
    MaxThings = 3
INVARIANTS
    TypeOK
    InventoriesOrderly
    GoodsConserved
    EveryChangeIsTold
    RestorationIsFaithful
PROPERTY
    GoldIsAccountedFor
SYMMETRY Symmetry
