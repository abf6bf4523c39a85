\* Replies to one client, delayed or not, two-bit variables, and a day of two instants,
\* while another client scans for the variables.
CONSTANTS
    Variables <- MCVariables
    Named <- MCVariables
    LastId = 4
    GiveUp = 2
    GapLimit = 2
    Profile = Profile
    Half = 2
    Sent = {1, 3}
    Loaded <- MCLoaded
    Simulated = {0}
    Daylight <- MCDaylight
    Day = 2
    Profiles = {1, 2}
    Scheduled = 2
    LoadedProfile = 0
    Clients = {client}
    Unknown = Unknown
    MaxFlight = 2
SPECIFICATION ScanSpec
INVARIANTS CopiesCurrent GapsAreWarned FoundWithoutWarning
PROPERTIES StaysAnswerable ProfileStaysListed
