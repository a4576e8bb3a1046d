CONSTANTS
    Callers = {d1, d2}
    Services = {"ai", "voice"}
    Cost <- MCCost
    BudgetLimit = 3
    MaxConcurrency = 1
    RateLimit = 1
    MaxMonths = 2
    MaxFailures = 2
    Updates = {"text", "voice", "command"}
    KindOf <- MCKindOf
    NoUpdate = NoUpdate
SPECIFICATION IntakeLiveSpec
INVARIANTS IntakeTypeOK AdmittedWithinBudget HandledOnce
PROPERTY UpdatesEnd
CHECK_DEADLOCK FALSE
