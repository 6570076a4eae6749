SPECIFICATION FairChatSpec
CONSTANTS
    Posts = {1, 2}
    MaxSends = 3
    MaxFaults = 2
    MaxOverlaps = 2
    MaxTurns = 2
    NoText = NoText
INVARIANTS
    ViewAgrees
PROPERTIES
    ThinkingEnds
