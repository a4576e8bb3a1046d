\* One link, issued and submitted with a URL that only normalizeMonicaUrl refuses.
CONSTANTS
    Tokens = {t1, t2}
    Transactions = {x1, x2}
    None = None
    connected = t1
    issuing = x1
SPECIFICATION Spec
INVARIANT RefusedKeepsToken
CHECK_DEADLOCK FALSE
