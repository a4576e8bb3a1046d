\* Two requests of any kinds with two attempts for each write.
CONSTANTS
    c1 = c1
    c2 = c2
    Requests = {r1, r2}
    Operations <- SomeOperations
    Account <- TwoContacts
    NoOperation = NoOperation
    Absent = Absent
    Initial = Initial
    Unknown = Unknown
    MaxRetries = 1
    PageSize = 1
    MaxPages = 2
SPECIFICATION MonicaSpec
INVARIANTS MonicaTypeOK AnswersTruthful LostOnlyToOverlap ListingsComplete
PROPERTY KeepsLedger
CHECK_DEADLOCK FALSE
