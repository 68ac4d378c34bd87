SPECIFICATION Spec
CONSTANTS
    Dictionary = {"d1", "d2"}
    Ends <- MCEnds
    DeepLKey = {"x", "y:fx"}
    FreeKeys = {"y:fx"}
    CustomApis <- MCApis
    EnginesUsed = {"eztrans", "deepl", "llm", "custom"}
    LanguagesUsed = {"ja", "ko"}
    ProvidersUsed = {"openai", "gemini"}
    MaxJobs = 2
    MaxAddress = 3
    MaxEdits = 2
    MaxRequests = 1
CHECK_DEADLOCK FALSE
INVARIANTS
    CacheKeyTellsServices
