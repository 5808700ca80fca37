SPECIFICATION FairSpec
CONSTANTS
    s1 = s1
    b1 = b1
    b2 = b2
    r = r
    None = None
    Peers = {s1}
    Pool <- MCPool
    NumPeers = 1
    Buffers = {b1, b2, r}
    Raw = {r}
    Threads = {"rx", "host"}
    MaxQ = 3
INVARIANTS ElementLeft Accounted 
PROPERTY Dispatched
