SPECIFICATION Spec
CONSTANTS
    Process = {"window"}
    CommandLine = {}
    MaxContents = 1
    MaxStarts = 1
    MaxFaults = 1
CHECK_DEADLOCK FALSE
INVARIANTS
    UnreadableIsKept
