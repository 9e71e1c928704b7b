SPECIFICATION Spec
CONSTANTS
    c1 = c1
    Clients = {c1}
    w1 = w1
    w2 = w2
    Workers = {w1, w2}
    k1 = k1
    k2 = k2
    k3 = k3
    Kicks = {k1, k2, k3}
    a1 = a1
    a2 = a2
    Asks = {a1, a2}
    Tasks = {}
    NoKick = NoKick
    MaxIterations = 2
    Mishaps = {"abort", "crash", "cancel", "error", "unreachable"}
    MaxMishaps = 1
SYMMETRY Symmetry
INVARIANT ClaimOnlyWhileRunning
INVARIANT NoOrphanTurn
INVARIANT IdleIsAnswered
INVARIANT OpenCallsOnRow
INVARIANT WaitsWhileAwaited
PROPERTY HistoryWhole
PROPERTY StoredNotRerun
PROPERTY StatusSteps
 
PROPERTY StopsOwnStint
PROPERTY KeepsContract
