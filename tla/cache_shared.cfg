SPECIFICATION Spec
CONSTANTS
    t1 = t1
    t2 = t2
    None = None
    Types = {t1, t2}
    Names = {n1, n2}
    TypeOf <- MCTypeOf
    Hosts = {h1}
    Ips = {i1, i2}
    Ports = {p1}
    Txts = {}
    Sinsts = {s1, s2}
    Arecs = {a1}
    MaxMonitors = 2
SYMMETRY Symmetry
INVARIANT XrefConsistent
INVARIANT NoDuplicates
PROPERTY ImplementsBrowseApi
