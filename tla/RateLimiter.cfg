SPECIFICATION LimiterSpec
CONSTANTS
    Clients = {"c1"}
    Handlers = {r1, r2}
    Admins = {1}
    Bodies <- MCBodies
    Limit0 = 1
    Window0 = 2
    MaxClock = 4
SYMMETRY MCSymmetry
CHECK_DEADLOCK FALSE
INVARIANTS
    BurstBound
