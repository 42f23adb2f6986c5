SPECIFICATION FairSpec
CONSTANTS
    Sessions = {s1, s2}
    Nobody = Nobody
    Torn = Torn
    NoCert = NoCert
    MaxTries = 3
    Environments <- PromiseEnvironments
PROPERTIES
    ImplementsContract
    AdoptionCompletes
CHECK_DEADLOCK FALSE
