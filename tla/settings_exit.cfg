SPECIFICATION Spec
CONSTANTS
    Looks = {1, 2}
    Hotkeys = {1}
    BatchSize = 2
    MaxEdits = 3
    MaxOutside = 0
    MaxLostPosts = 0
CHECK_DEADLOCK FALSE
INVARIANTS
    OnlyAppliedIsSaved
