SPECIFICATION Spec
CONSTANTS
    Names = {a}
    Sizes = {1, 2}
    Paths = {lower, upper}
    Callers = {watcher}
    Unstat = Unstat
    MaxChanges = 2
    MaxRemovals = 1
    MaxBlind = 0
    MaxBlips = 1
    MaxRestarts = 1
    Runners = {r1, r2}
    p = p
    q = q
    s = s
    Contents <- MCContents
    ContentKey <- MCContentKey
SYMMETRY Symmetry
INVARIANTS
    IndexTypeOK
    
PROPERTY
    PruneSparesLive
