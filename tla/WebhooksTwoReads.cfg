SPECIFICATION Spec
CONSTANTS
    ApiKeys = {"operator", "viewer"}
    Roles <- MCRoles
    Required = TRUE
    Clients = {"c"}
    Limit = 2
    Window = 2
    MaxTime = 0
    Requests = {q1, q2}
    Triggers <- MCTriggers
    Invalid = {"bad"}
    Signatures = {None, "s"}
    Keys = {None, "k"}
    Callers <- MCBusy
    Busy = {}
    Backends = {"memory"}
    None = None
INVARIANT
    OneRegistrationFires
CHECK_DEADLOCK FALSE
