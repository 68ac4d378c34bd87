SPECIFICATION UiSpec
CONSTANTS
    Window = window
    Dialogs = {"translate", "file"}
    MaxTexts = 1
    MaxRequests = 1
    MaxQueued = 1
    MaxAttaches = 1
    MaxCommands = 3
    MaxActions = 2
    MaxFailures = 1
INVARIANTS
    CaptureFollows
    TranslationFitsOriginal
PROPERTIES
    SentenceNotReplaced
    QueuedTextsMove
CHECK_DEADLOCK FALSE
