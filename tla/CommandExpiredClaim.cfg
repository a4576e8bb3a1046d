\* The default budget of three attempts; a claim outlives its holder.
CONSTANTS
    k1 = k1
    u1 = u1
    r1 = r1
    r2 = r2
    q1 = q1
    Keys = {k1}
    Users = {u1}
    Requests = {r1, r2}
    NoRequest = NoRequest
    KeyOf <- OneKey
    Owner <- OneOwner
    Sync <- SyncRequests
    MaxRetries = 3
    MaxStalledCount = 1
    Concurrency = 1
    MaxCrashes = 1
SPECIFICATION Spec
CHECK_DEADLOCK FALSE
PROPERTIES ExpiredClaimsYield
