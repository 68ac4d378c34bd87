SPECIFICATION Spec
CHECK_DEADLOCK FALSE
CONSTANTS
    s1 = s1
    Source = {s1}
    Windows = {1, 2}
    MaxTime = 2
    MaxPieces = 2
    MaxBuffer = 2
    BatchSize = 2
    MaxSessions = 1
    MaxLostPosts = 0
    MaxWindowChanges = 0
    MaxWaits = 1
INVARIANTS
    ResultFollowsReceipt
