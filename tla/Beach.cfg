SPECIFICATION FairSpec
CONSTANTS
    Activities = {"surf", "yoga", "tour"}
    Capacity <- MCCapacity
    Visitors = {"v1", "v2"}
    NoId = "none"
    Inputs <- MCInputs
    Calls = {1, 2}
    MaxAttempts = 2
INVARIANTS
    OverbookingBound
    BookingsPerVisitor
    LeftoverBookings
    SuccessIsTrue
PROPERTY
    EveryCallAnswered
