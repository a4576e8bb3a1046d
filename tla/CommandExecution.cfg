\* Safety, refinements and liveness: a dead-letter budget of one attempt, so that
\* dead-lettering is reached; two crashes in all.
CONSTANTS
    k1 = k1
    c1 = c1
    u1 = u1
    u2 = u2
    r1 = r1
    q1 = q1
    h1 = h1
    h2 = h2
    h3 = h3
    Keys = {k1, c1}
    Users = {u1, u2}
    Requests <- AllRequests
    NoRequest = NoRequest
    KeyOf <- SomeKeys
    Owner <- SomeOwners
    Sync <- SomeSync
    Commands = {c1}
    Handlers = {h1, h2, h3}
    MaxConcurrent = 2
    MaxRetries = 1
    MaxStalledCount = 1
    Concurrency = 1
    MaxCrashes = 2
SPECIFICATION LiveSpec
CHECK_DEADLOCK FALSE
INVARIANTS TypeOK AtMostOnce
PROPERTIES ImplementsLedger WorkSettles FollowsLoop
