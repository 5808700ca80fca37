\* Two responders that are both called foo, or both foo-9 (where the one that loses
\* backs off and tries again); a client's query or a lost packet, and a halt.
SPECIFICATION FairSpec
CONSTANTS
    Hosts <- Pair
    Offers <- Pair
    Port <- CrossedPort
    Txt <- NoTxt
    Originals <- FooOrLast
    MaxSuffix = 3
    ProbeTicks = 2
    DelayTicks = 1
    BackoffTicks = 3
    ClientPorts = {"mdns"}
    MaxDisturbances = 1
    Bytes = {0, 1}
    MaxTxt = 2
    Values = {1, 2}
    MaxHalts = 1
INVARIANTS UniqueNames SomeoneYields OneYields
PROPERTIES ImplementsNameClaims EventuallyClaims AloneClaims 
