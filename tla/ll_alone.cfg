SPECIFICATION FairSpec
INVARIANT OneOwner
PROPERTIES AloneConfigured
CONSTANTS
    Hosts = {h1, h2}
    Ips = {1, 2}
    Taken = {2}
    ProbeNum = 3
    AnnounceNum = 2
    MaxConflicts = 1
    RateLimit = 3
    MaxLoss = 0
    MaxStarts = 2
