SPECIFICATION Spec
CONSTANTS
    Window = window
    Dialogs = {translate}
    MaxTexts = 2
    MaxRequests = 1
    MaxQueued = 1
    MaxAttaches = 1
    MaxCommands = 0
    MaxActions = 0
    MaxFailures = 1
PROPERTIES
    OnlyGameTextWhileHooked
CHECK_DEADLOCK FALSE
