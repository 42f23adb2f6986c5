SPECIFICATION Spec
CONSTANTS
    Sessions = {s1, s2}
    Nobody = Nobody
    Torn = Torn
    NoCert = NoCert
    MaxTries = 3
    Environments <- SafetyEnvironments
SYMMETRY SessionSymmetry
INVARIANTS
    OneOwner
    TrustMatchesNode
    
    FirstCallServesController
CHECK_DEADLOCK FALSE
