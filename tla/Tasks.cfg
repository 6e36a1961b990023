SPECIFICATION Spec
CONSTANTS
    Texts <- MCTexts
    Calls <- MCCalls
    MaxChunks = 12
    Alphabet <- MCAlphabet
    LabelLists <- MCLabelLists
    OtherText = "other"
    MaxHits = 2
    None = "None"
INVARIANTS
    TypeOK
    ChunksSound
    SimulatedBest
PROPERTIES
    Finishes
CHECK_DEADLOCK FALSE
