SPECIFICATION FairCatalogSpec
CONSTANTS
    Names = {a, b}
    Sizes = {1, 2}
    Paths = {lower, upper}
    Callers = {watcher}
    Unstat = Unstat
    MaxChanges = 3
    MaxRemovals = 3
    MaxBlind = 1
    MaxBlips = 1
    MaxRestarts = 1
INVARIANTS
    
    EarlyOutSound
PROPERTIES
    CatalogConverges
    EveryFileGetsARow
