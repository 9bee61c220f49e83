SPECIFICATION RemoteSpec
CONSTANTS
    Requests = {r1}
    Opener = opener
    Listener = listener
    Canceller = canceller
    MaxSessions = 3
    MaxFaults = 1
    NoTask = NoTask
PROPERTIES
    OpeningRecovers
CHECK_DEADLOCK FALSE
