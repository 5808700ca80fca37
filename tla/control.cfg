\* Two launches, two clients and a signal or crash.  All come to an end.
SPECIFICATION Spec
CONSTANTS
    Launchers = {l1, l2}
    Hostname <- AllNamed
    Clients = {c1, c2}
    Types = {t1, t2}
    Commands <- Used
    MaxMonitors = 1
    MaxFaults = 1
    None = None
SYMMETRY Symmetry
INVARIANTS OneOfEach Admission HaltStops
CHECK_DEADLOCK FALSE
