SPECIFICATION Spec
CONSTANTS
    Handlers = {h1, h2}
    Passwords = {p1, p2}
    NoPassword = NoPassword
    NoRecord = NoRecord
    MaxKey = 2
    Environments <- SafetyEnvironments
SYMMETRY HandlerSymmetry
INVARIANTS
    
    SSHMatchesRecord
PROPERTIES
    SerialKeyNeverComesBack
    
    ResetSticks
