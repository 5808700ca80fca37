SPECIFICATION Spec
CONSTANTS
    Second = 20
    TopPeriod = 80
    Width = 12
    Ttls = {2, 3}
    Naps = {4}
    None = None
INVARIANTS   SilentGivenUp 
