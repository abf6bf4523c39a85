\* Two clients and one slot, two requests on a connection, up to two lines typed ahead
\* and two Ctrl-C's.
CONSTANTS
    c1 = c1
    c2 = c2
    Clients <- TwoClients
    MAX_TCP_SESSIONS = 1
    MaxRequests = 2
    MaxLines = 2
    MaxInterrupts = 2
SPECIFICATION LifeFairSpec
INVARIANTS LifeTypeOK SessionsCounted RepliesInOrder ConsoleEndsFirst
PROPERTIES SlotReturned EveryRequestAnswered StopEnds EveryWayStops SecondInterruptEnds
CHECK_DEADLOCK FALSE
