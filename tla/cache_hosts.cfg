SPECIFICATION Spec
CONSTANTS
    t1 = t1
    t2 = t2
    None = None
    Types = {t1}
    Names = {n1}
    TypeOf <- MCTypeOf
    Hosts = {h1, h2}
    Ips = {i1, i2}
    Ports = {p1}
    Txts = {x1, x2}
    Sinsts = {s1}
    Arecs = {a1, a2}
    MaxMonitors = 1
SYMMETRY Symmetry
INVARIANT TypeOK
INVARIANT XrefConsistent
INVARIANT AddressIsHosts
INVARIANT CompleteIsDiscovered
INVARIANT CleanIsReported
 
