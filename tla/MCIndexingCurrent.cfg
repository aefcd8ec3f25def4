SPECIFICATION Spec
CONSTANTS
    Names = {a}
    Sizes = {1, 2}
    Paths = {lower}
    Callers = {watcher}
    Unstat = Unstat
    MaxChanges = 2
    MaxRemovals = 0
    MaxBlind = 0
    MaxBlips = 0
    MaxRestarts = 0
    Runners = {r1, r2}
    p = p
    q = q
    s = s
    Contents <- MCContents
    ContentKey <- MCContentKey
SYMMETRY Symmetry
INVARIANT ReadyIsCurrent
