SPECIFICATION CatalogSpec
CONSTANTS
    Names = {a, b}
    Sizes = {1, 2}
    Paths = {lower}
    Callers = {watcher, poller}
    Unstat = Unstat
    MaxChanges = 2
    MaxRemovals = 2
    MaxBlind = 0
    MaxBlips = 0
    MaxRestarts = 0
SYMMETRY Symmetry
INVARIANT EarlyOutSound
