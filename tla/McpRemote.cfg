SPECIFICATION RemoteSpec
CONSTANTS
    Requests = {r1}
    Opener = opener
    Listener = listener
    Canceller = canceller
    MaxSessions = 3
    MaxFaults = 2
    NoTask = NoTask
INVARIANTS
    RemoteIsSound
PROPERTIES
    SessionRecovers
CHECK_DEADLOCK FALSE
