SPECIFICATION SafetySpec
CHECK_DEADLOCK FALSE
CONSTANTS
    s1 = s1
    s2 = s2
    MaxSessions = 2
    MaxRequests = 4
    MaxTexts = 1
    MaxLostPosts = 1
    BatchSize = 2
    PipeCapacity = 1
    Frozen <- NoSession
    JoinMayTimeOut = FALSE
    TextSource = {s1, s2}
    TextWindows = {1, 2}
    TextTime = 1
    TextPieces = 3
    TextBuffer = 2
    TextBatch = 1
    TextSessions = 2
    TextPostsLost = 1
    TextChanges = 1
    TextWaits = 1
    FileProcess = {"window", "command"}
    FileCommandLine = {"command"}
    FileContents = 2
    FileStarts = 3
    FileFaults = 1
    MagnetTarget = {"w1", "w2"}
    MagnetPlaces = {1, 3}
    MagnetEvents = 3
    MagnetRequests = 4
    MagnetFaults = 1
    DialogText = {"", "a", "b"}
    DialogRoute = {"eztrans", "llm"}
    SlowRoutes = {"llm"}
    DialogSteps = 5
    DialogFaults = 1
    TransJobs = {1, 2}
    TransEngines = {"http", "eztrans"}
    TransEnds <- TwoFiles
    TransBlank <- SecondLine
    TransBatch = 2
    TransPermits = 1
    TransInterval = 2
    TransBudget = 4
    TransFaults = 1
    Dictionaries = {"d1", "d2", "d3"}
    DictionaryEnds <- TwoAlike
    DeepLKeys = {"x", "y:fx"}
    FreeDeepLKeys = {"y:fx"}
    Apis <- TwoApis
    EngineChoices = {"eztrans", "deepl", "llm", "custom"}
    LanguageChoices = {"ja", "ko", "en"}
    ProviderChoices = {"openai", "gemini"}
    KeptJobs = 2
    Addresses = 3
    Edits = 3
    Lookups = 3
    LogSizes = {1, 2}
    LogLineEnds = {0, 2}
    LogEntries = 2
    LogBytes = 3
    LogTexts = 5
    LogSteps = 5
    LogFaults = 1
    FindAddress = {1, 2}
    FindThread = {s1}
    FindSavedHook = 3
    FindSessions = 3
    FindSearches = 2
    FindInstalls = 2
    FindTexts = 1
    FindCloses = 1
    FindBoxes = 1
    FindCounted = 3
    FindCandidates = 1
    FindStreams = 1
    FindActsWhileBusy = FALSE
INVARIANTS
    SessionsContained
    EventsReachUi
    SentencesWhole
    CandidatesOfThisSearch
    WindowFollowsSessions
    DialogTranslates
    FilesFinishWhole
    SettingsFit
    FileIsWhole
    RulesHold
    MagnetHolds
    BacklogComplete
PROPERTIES
    ReplacedOnlyWhenRead
