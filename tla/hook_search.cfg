SPECIFICATION Spec
CONSTANTS
    Address = {1, 2}
    Thread = {"s"}
    SavedHook = 3
    MaxSessions = 1
    MaxSearches = 2
    MaxInstalls = 0
    MaxTexts = 0
    MaxCloses = 1
    MaxBoxes = 1
    MaxCounted = 3
    MaxCandidates = 2
    MaxStreams = 1
    ActsWhileBusy = TRUE
CHECK_DEADLOCK FALSE
INVARIANTS
    NoResultOfEarlierSearch
