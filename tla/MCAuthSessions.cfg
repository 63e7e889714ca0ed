\* One account, one device, two concurrent requests.
CONSTANTS
    Users = {"u1"}
    Devices = {d1}
    Requests = {r1, r2}
    PushTokens = {"", "t"}
    MaxTokens = 4
    MaxSessions = 3
    NoRequest = NoRequest
SPECIFICATION Spec
SYMMETRY RequestSymmetry
INVARIANTS SessionsInv RevokedIsFinal RegistrationAllOrNothing
PROPERTIES TokenExchangedOnce LoginWithoutSessionExplained
CHECK_DEADLOCK FALSE
