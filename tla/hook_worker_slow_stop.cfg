SPECIFICATION Spec
CONSTANTS
    MaxSessions = 2
    MaxRequests = 2
    MaxTexts = 1
    MaxLostPosts = 1
    BatchSize = 2
    PipeCapacity = 1
    Frozen <- NoSession
    JoinMayTimeOut = TRUE
INVARIANTS
    AtMostOneSession
