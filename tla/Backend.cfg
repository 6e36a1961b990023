SPECIFICATION FairSpec
CONSTANTS
    Api = api
    Workers = {w1}
    Runs = {r1, r2}
    r1 = r1
    accepted = accepted
    raising = raising
    Definitions = {accepted, raising}
    Refused = {}
    Raising = {raising}
    Asked <- MCAsked
    Deployments = {"base", "0001", "0002"}
    MaxRetries = 1
    MaxOutages = 2
    MaxDeaths = 1
    None = None
INVARIANTS
    TypeOK
    ProbeSound
    StoresShared
    GivenUpByOutages
PROPERTIES
    UpgradeReversible
    TasksSettle
CHECK_DEADLOCK FALSE
