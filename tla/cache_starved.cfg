SPECIFICATION FairSpec
CONSTANTS
    t1 = t1
    t2 = t2
    None = None
    Types = {t1, t2}
    Names = {n1, n2}
    TypeOf <- MCTypeOf
    Hosts = {h1, h2}
    Ips = {i1}
    Ports = {p1}
    Txts = {x1}
    Sinsts = {s1}
    Arecs = {a1}
    MaxMonitors = 1
INVARIANT ReportedAreCached
INVARIANT OnlyMonitored
PROPERTY SilentDisappear
