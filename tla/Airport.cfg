SPECIFICATION FairSpec
CONSTANTS
    EU_GATES = 1
    ALL_GATES = 1
    Guests <- MCGuests
    Inputs <- MCInputs
    Threads = 2
    MaxArrivals = 3
    MaxCrashes = 1
    MaxDbErrors = 1
CHECK_DEADLOCK FALSE
INVARIANTS
    NoArrivalLost
    InOnePlace
    AnnouncedOnce
    RankOrder
PROPERTIES
    ImplementsPassportControl
    EveryArrivalServed
