\* One user with three streams on one instance, or two on two, under fairness.
CONSTANTS
    s1 = s1
    s2 = s2
    s3 = s3
    t1 = t1
    t2 = t2
    t3 = t3
    i1 = i1
    i2 = i2
    Users = {u1}
    Instances = {i1, i2}
    Streams = {s1, s2, s3}
    Tickets = {t1, t2, t3}
    Placements <- MCPlacements
    Shows <- MCShows
    BufferSize = 1
    MaxNotices = 1
    NoUser = NoUser
    NoStream = NoStream
    NoInstance = NoInstance
SPECIFICATION FairSpec
INVARIANTS HubInv SilencedOnlyByOlder
PROPERTIES CrashNeedsReplacement OnlineKeyRestored
CHECK_DEADLOCK FALSE
