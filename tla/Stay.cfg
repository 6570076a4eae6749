SPECIFICATION FairSpec
CONSTANTS
    Activities = {"surf", "yoga", "dive"}
    Reservations = {"r1", "r2"}
    NoId = "none"
    Cost <- MCCost
    Rooms = {"STANDARD", "SUITE"}
    Rate <- MCRate
    Package <- MCPackage
    BookedElsewhere = {"surf"}
    Calls = {1, 2}
    MaxCalls = 4
    MaxSlips = 1
    MaxSync = 1
CHECK_DEADLOCK FALSE
INVARIANTS
    ExactWallet
    ViewsAgree
    Ledger
    MintBound
PROPERTIES
    LandingShown
