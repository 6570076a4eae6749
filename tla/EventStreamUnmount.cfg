SPECIFICATION Spec
CONSTANTS
    Streams = {1, 2, 3, 4}
    Passes = {1, 2}
    Channels = {"airport", "broadcast", "resort-wide"}
    Services = {"airport"}
    GuestNames = {"guest"}
    BACKOFF_INITIAL_MS = 2
    BACKOFF_MAX_MS = 3
    MAX_EVENTS = 2
    MaxMounts = 2
    MaxPublished = 2
    MaxFaults = 1
CHECK_DEADLOCK FALSE
INVARIANT ClosedOnUnmount
