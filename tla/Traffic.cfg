SPECIFICATION Spec
CONSTANTS
    Guests = {"g1"}
    Activities = {"surf", "yoga"}
    NoId = NoId
    Lanes = {a, b}
    MaxMounts = 2
    MaxReservations = 3
    MaxUnderWay = 2
SYMMETRY Symmetry
INVARIANTS
    StageAgrees
    LoopsKept
