\* A weekly reminder and two polls, at any times: the second one finds the
\* window of a week in which the first one succeeded within the catch-up hours.
CONSTANTS
    Polls = {p1, p2}
    Intents <- AllIntents
    Weekly = TRUE
    Day = 4
    DaysPerWeek = 2
    Shift = 1
    CatchUp = 2
    Retention = 8
    Firing <- FiringTimes
    MaxStalls = 1
    MaxCrashes = 0
    Horizon = 10
SPECIFICATION Spec
INVARIANT SkippedWasMissed
CHECK_DEADLOCK FALSE
