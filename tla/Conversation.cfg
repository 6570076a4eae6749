SPECIFICATION FairSpec
CONSTANTS
    Guests = {"g1", "g2"}
    NoGuest = "none"
    Bodies <- MCBodies
    MaxChats = 2
    MAX_TOOL_ROUNDS = 2
    max_messages = 3
    ttl = 1
    max_conversations = 1
    MaxCalls = 2
    MaxTime = 2
CHECK_DEADLOCK FALSE
INVARIANTS
    WholeTurns
PROPERTIES
    KeptUnderChat
    EveryChatEnds
