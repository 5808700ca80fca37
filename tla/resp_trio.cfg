\* Three hosts that want a host name, and two names: one host runs out of names.
SPECIFICATION Spec
CONSTANTS
    Hosts <- Trio
    Offers = {}
    Port <- SamePort
    Txt <- NoTxt
    Originals <- OnlyFoo
    MaxSuffix = 2
    ProbeTicks = 2
    DelayTicks = 1
    BackoffTicks = 6
    ClientPorts = {"mdns"}
    MaxDisturbances = 0
    Bytes = {0, 1}
    MaxTxt = 2
    Values = {1, 2}
    MaxHalts = 0
INVARIANT UniqueNames
