SPECIFICATION Spec
SYMMETRY HostSymmetry
INVARIANTS OneOwner StackIsStable 
CONSTANTS
    Hosts = {h1, h2}
    Ips = {1}
    Taken = {}
    ProbeNum = 3
    AnnounceNum = 2
    MaxConflicts = 1
    RateLimit = 3
    MaxLoss = 2
    MaxStarts = 3
