\* The default budget of three attempts, no crash.
CONSTANTS
    k1 = k1
    u1 = u1
    r1 = r1
    r2 = r2
    q1 = q1
    Keys = {k1}
    Users = {u1}
    Requests = {q1}
    NoRequest = NoRequest
    KeyOf <- OneKey
    Owner <- OneOwner
    Sync <- SyncRequests
    MaxRetries = 3
    MaxStalledCount = 1
    Concurrency = 1
    MaxCrashes = 0
SPECIFICATION FairSpec
CHECK_DEADLOCK FALSE
PROPERTIES FailedJobsDeadLettered
