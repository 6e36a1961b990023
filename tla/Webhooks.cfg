SPECIFICATION Spec
CONSTANTS
    ApiKeys = {"operator", "viewer"}
    Roles <- MCRoles
    Required = TRUE
    Clients = {"c"}
    Limit = 2
    Window = 2
    MaxTime = 3
    Requests = {q1, q2}
    Triggers <- MCTriggers
    Invalid = {"bad"}
    Signatures = {None, "s"}
    Keys = {None, "k"}
    Callers <- MCCallers
    Busy <- MCBusy
    Backends = {"memory", "database"}
    None = None
SYMMETRY Symmetry
INVARIANTS
    LimiterSound
    FiredFromRegistration
    KeysSound
PROPERTIES
    LoneRegistrationStored
CHECK_DEADLOCK FALSE
