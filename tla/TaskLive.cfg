SPECIFICATION FairSpec
CONSTANTS
    c1 = c1
    Clients = {c1}
    w1 = w1
    Workers = {w1}
    k1 = k1
    k2 = k2
    k3 = k3
    Kicks = {k1, k2, k3}
    Images = {}
    v1 = v1
    Videos = {v1}
    NoKick = NoKick
    MaxIterations = 2
    IMAGES_PER_APPROVAL = 2
    Mishaps = {"abort", "lostkick", "crash", "shutdown", "error", "evict"}
    Budget = 3
INVARIANT SpendsWhatWasApproved
PROPERTY RunningTaskEnds
