SPECIFICATION DispatchSpec
CONSTANTS
    t1 = t1
    t2 = t2
    None = None
    Target <- MCTarget
    Hung <- MCHung
    LocalEngine <- NoLocalEngine
    MaxRequests = 3
    MaxResponses = 2
    HttpPermits = 2
INVARIANTS
    TypeOK
    StoredForCurrentRegistration
    WakeupForEveryResponse
PROPERTIES
    NotifyOnlyRegistered
    ImplementsLatestRequest
    HealthyTargetsLeave
