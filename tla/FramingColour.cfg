\* Colour requests, among them some with a shorter prefix that validates.
CONSTANTS
    Bytes <- MCBytes
    Exclusive <- XorBytes
    Magic = 1
    DynamicCommands = {2}
    VariableCommands = {3}
    BasicSize = 7
    ColourMin = 6
    ColourMax = 9
    None = None
    Items <- MCColour
    MaxItems = 3
SPECIFICATION Spec
INVARIANT RequestsTaken
CHECK_DEADLOCK FALSE
