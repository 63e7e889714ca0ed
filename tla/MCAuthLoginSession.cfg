\* A login that answers 200, and the session it leaves.
CONSTANTS
    Users = {"u1"}
    Devices = {d1}
    Requests = {r1, r2}
    PushTokens = {"", "t"}
    MaxTokens = 4
    MaxSessions = 3
    NoRequest = NoRequest
SPECIFICATION Spec
PROPERTIES LoginLeavesSession
CHECK_DEADLOCK FALSE
