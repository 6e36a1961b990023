SPECIFICATION Spec
CONSTANTS
    Api = api
    Workers = {w1}
    Runs = {r1}
    r1 = r1
    accepted = accepted
    raising = raising
    Definitions = {accepted, raising}
    Refused = {}
    Raising = {raising}
    Asked <- MCAsked
    Deployments = {"base", "0001"}
    MaxRetries = 1
    MaxOutages = 0
    MaxDeaths = 0
    None = None
INVARIANTS
    UpgradeSucceeds
CHECK_DEADLOCK FALSE
