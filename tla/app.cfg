SPECIFICATION AppSpec
CHECK_DEADLOCK FALSE
CONSTANTS
    MaxCommands = 6
    MaxLostPosts = 1
    MaxFaults = 1
    Chunks = 1
    SettingsLooks = {1, 2}
    SettingsHotkeys = {1, 2}
    SettingsBatch = 2
    SettingsEdits = 4
    SettingsChanges = 1
INVARIANTS
    UpdateIsSafe
PROPERTIES
    OperationsEnd
    FrameSettles
    ConfigAgrees
    LastConfigSaved
    CancelledJobsEnd
