SPECIFICATION Spec
CONSTANTS
    c1 = c1
    c2 = c2
    Clients = {c1, c2}
    w1 = w1
    w2 = w2
    Workers = {w1, w2}
    k1 = k1
    k2 = k2
    k3 = k3
    Kicks = {k1, k2, k3}
    a1 = a1
    Asks = {a1}
    Tasks = {}
    NoKick = NoKick
    MaxIterations = 2
    Mishaps = {}
    MaxMishaps = 1
SYMMETRY Symmetry
VIEW ClaimView
INVARIANT OneRunPerTurn
INVARIANT HolderHasClaim
INVARIANT ApprovedOnce
