SPECIFICATION FairSpec
CONSTANTS
    NumSteps = 3
    Values = {v}
    NoResult = NoResult
    Tasks = {}
    Definitions <- MCDefinitions
INVARIANTS
    TypeOK
    VerdictCorrect
    SearchSound
PROPERTIES
    Decides
