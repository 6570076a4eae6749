SPECIFICATION Spec
CONSTANTS
    Rooms = {1, 2}
    Type <- MCType
    Capacity <- MCCapacity
    Guests = {"g1", "g2"}
    Travellers = {"g2"}
    Bodies <- MCBodies
    Days = {0, 1, 2, 3}
    Calls = {c1, c2}
    MaxReservations = 2
SYMMETRY MCSymmetry
CHECK_DEADLOCK FALSE
INVARIANTS
    SharedRoomBound
    FullIsTrue
    PartyHasCleared
    CancelledEvents
