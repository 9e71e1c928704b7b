SPECIFICATION Spec
CONSTANTS
    c1 = c1
    Clients = {c1}
    w1 = w1
    w2 = w2
    Workers = {w1, w2}
    k1 = k1
    k2 = k2
    k3 = k3
    Kicks = {k1, k2, k3}
    i1 = i1
    i2 = i2
    Images = {i1, i2}
    Videos = {}
    NoKick = NoKick
    MaxIterations = 2
    IMAGES_PER_APPROVAL = 2
    Mishaps = {"abort", "lostkick", "crash", "shutdown", "error", "evict"}
    Budget = 3
SYMMETRY Symmetry
INVARIANT TypeOK
 
 
INVARIANT SpendsWhatWasApproved
 
INVARIANT NoOrphanTask
 
 
