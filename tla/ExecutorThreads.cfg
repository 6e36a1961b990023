SPECIFICATION Spec
CONSTANTS
    NumSteps = 4
    a = a
    b = b
    Values = {a, b}
    NoResult = NoResult
    Tasks <- MCTasks
    Registry <- MCRegistry
    Configs <- FourSteps
    Limits = {0, 2, 3}
    FloatExponent = 2
INVARIANTS
    TraceSound
    DeadLettersExact
