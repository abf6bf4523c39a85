\* Every order of adds and clears over three entries of two addresses and two
\* kinds, with filtering on and off.
CONSTANTS
    Addresses = {gear, device}
    AnyAddress = AnyAddress
    Instances = {i0}
    AnyInstance = AnyInstance
    NoInstance = NoInstance
    Kinds = {level, button}
    Masks <- OneKind
    Modes <- TwoModes
    StartMode <- FilteringMode
    MaxFilters = 3
SPECIFICATION Spec
INVARIANT ListOK
PROPERTIES ImplementsRules ClearedEventsFlow
VIEW Present
CHECK_DEADLOCK FALSE
