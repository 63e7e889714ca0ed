\* One login, two other sessions, two push messages, one worker, one delivery taken
\* back, one crash.
CONSTANTS
    s0 = s0
    Logins = {l1}
    p2 = p2
    Pushes = {p1, p2}
    Messages = {l1, p1, p2}
    Sessions = {s0, s1, s2}
    NewSession <- MCNewSession
    Workers = {w1}
    MaxRows = 2
    MaxRedeliveries = 1
    MaxCrashes = 1
    NoMessage = NoMessage
    NoWorker = NoWorker
    NoAlert = NoAlert
    NoRow = NoRow
SPECIFICATION Spec
SYMMETRY OtherSessions
INVARIANTS AlertsIInv AlertsComplete CompletedPushSent AlertAccountedFor
CHECK_DEADLOCK FALSE

CONSTRAINT RepublishAlone
