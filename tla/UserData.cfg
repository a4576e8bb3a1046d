\* Two polls, one job with a crash and a purge around it, a purge between two
\* polls of one window, and two overlapping sweeps for one purge request.
CONSTANTS
    p1 = p1
    Polls = {p1, p2}
    Intents <- AllIntents
    Weekly = FALSE
    Day = 4
    DaysPerWeek = 2
    Shift = 1
    CatchUp = 2
    Retention = 3
    Firing <- FiringTimes
    MaxStalls = 1
    MaxCrashes = 1
    Horizon = 3
    Requests = {r1}
    Sweeps = {w1, w2}
    Services = {"scheduler", "delivery"}
    NoRequest = NoRequest
    MaxRetries = 2
    MaxFaults = 1
SPECIFICATION LiveSpec
INVARIANTS
    UserDataTypeOK QueuedOnce CatchUpAccounted SentWasAnswered DigestsBounded
    SkippedWasMissed RetriesBounded CompletedWasAsked
PROPERTIES RemindersEnd PurgesEnd
CHECK_DEADLOCK FALSE
