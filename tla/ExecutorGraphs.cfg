SPECIFICATION FairSpec
CONSTANTS
    NumSteps = 3
    a = a
    b = b
    Values = {a, b}
    NoResult = NoResult
    Tasks <- MCTasks
    Registry <- MCRegistry
    Configs <- ThreeSteps
    Limits = {0, 2}
    FloatExponent = 1024
INVARIANTS
    DependencyOrder
    ConditionDecides
    ContextHasNeeds
    RunsResolve
    ReportsSound
PROPERTIES
    ImplementsLifecycle
    Terminates
