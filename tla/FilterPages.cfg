\* A listing of up to three entries, one entry to a page, while filters come and go.
CONSTANTS
    Addresses = {device}
    AnyAddress = AnyAddress
    Instances = {i0}
    AnyInstance = AnyInstance
    NoInstance = NoInstance
    Kinds = {button}
    Masks <- OneKind
    Modes = {}
    StartMode <- FilteringMode
    MaxFilters = 3
    PageSize = 1
SPECIFICATION ListingSpec
PROPERTIES ListingComplete
VIEW ListingView
CHECK_DEADLOCK FALSE
