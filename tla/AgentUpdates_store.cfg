SPECIFICATION FairSpec
CONSTANTS
    Versions = {1, 2, 3}
    RecoveryVersion = 1
    Installers = {i1}
    BootableVersions = {1, 2, 3}
    HealthyVersions = {1, 2}
    AuthEnabled = FALSE
    Faulty = TRUE
    MaxAttempts = 3
    MaxAge = 3
    Window = 2
INVARIANTS
    LinksResolve
PROPERTIES
    PendingResolves
    
    
    ImplementsReleaseContract
