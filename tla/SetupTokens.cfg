\* Two links of one user and three requests, from the beginning, and after the
\* account was connected while a second link is being issued: then a disconnect
\* and the consumption of that link can wait for each other.
CONSTANTS
    Tokens = {t1, t2}
    Transactions = {x1, x2, x3}
    None = None
    connected = t1
    issuing = x1
SPECIFICATION LiveSpec
INVARIANTS
    TypeOK
    AtMostOneActive
    CredentialsFromConsumedToken
    DisconnectRevokes
PROPERTIES
    LinksTakeEffectAtOnce
    TransactionsEnd
CHECK_DEADLOCK FALSE
