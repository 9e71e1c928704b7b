SPECIFICATION Spec
CONSTANTS
    c1 = c1
    Clients = {c1}
    w1 = w1
    w2 = w2
    Workers = {w1, w2}
    k1 = k1
    k2 = k2
    Kicks = {k1, k2}
    a1 = a1
    Asks = {a1}
    Tasks = {}
    NoKick = NoKick
    MaxIterations = 1
    Mishaps = {}
    MaxMishaps = 1
SYMMETRY Symmetry
INVARIANT StopStands
