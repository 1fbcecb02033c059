SPECIFICATION Spec
CONSTANTS
    d1 = d1
    d2 = d2
    d3 = d3
    k1 = k1
    k2 = k2
    Downloads <- MCDownloads
    Deleters = {r1}
    Players = {p1}
    Cleaner = cleaner
    Paths <- MCDownloads
    Keys = {k1, k2}
    KeyOf <- MCKeyOf
    PathOf <- MCPathOf
    Expiring = TRUE
    MaxId = 3
    MaxCrashes = 0
    NoKey = NoKey
    NoRow = NoRow
PROPERTIES
    PlayedIsKept
CHECK_DEADLOCK FALSE
