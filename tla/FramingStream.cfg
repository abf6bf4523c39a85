\* Basic, dynamic and colour requests, corrupted ones and noise, in every chunking.
CONSTANTS
    Bytes <- MCBytes
    Exclusive <- XorBytes
    Magic = 1
    DynamicCommands = {2}
    VariableCommands = {3}
    BasicSize = 7
    ColourMin = 6
    ColourMax = 9
    None = None
    Items <- MCItems
    MaxItems = 3
SPECIFICATION Spec
INVARIANTS ChunksIrrelevant RequestsTaken Answered
CHECK_DEADLOCK FALSE
