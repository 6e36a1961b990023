SPECIFICATION Spec
CONSTANTS
    NumSteps = 4
    a = a
    b = b
    Values = {a, b}
    NoResult = NoResult
    Tasks <- MCTasks
    Registry <- MCRegistry
    Configs <- Diamond
    Limits = {0, 2}
    FloatExponent = 1024
INVARIANTS
    FailureStopsDependents
