SPECIFICATION Spec
CONSTANTS
    mage = mage
    warrior = warrior
    hands = hands
    staff = staff
    wand = wand
    city = city
    wild = wild
    Players = {mage, warrior}
    Casters = {mage}
    MaxLevel = 3
    Limit <- MCLimit
    MaxHp <- MCMaxHp
    MaxMana <- MCMaxMana
    Offset = 1
    NewbieMax = 1
    MaxDifference = 0
    LossDivisor = 2
    Weapons = {hands, staff, wand}
    NoWeapon = hands
    Healing = {wand}
    ManaCost <- MCManaCost
    Amounts = {1, 2}
    NpcLevels = {1}
    Clans = {1}
    Cells = {city, wild}
    City = {city}
    Reach <- MCReach
INVARIANTS
    TypeOK
    ExperienceMatchesLevel
PROPERTIES
    GhostsAreFrozen
    ManaIsPaidFor
