----------------------------- MODULE SetupTokens -----------------------------
(***************************************************************************)
(* Setup links and connection of one Telegram user (user-management): the  *)
(* rows of setup_tokens, the user's row with its Monica credentials, and   *)
(* the PostgreSQL transactions that issue, consume and cancel tokens and   *)
(* disconnect the account. Rows of other users are never touched.          *)
(*                                                                         *)
(* Transactions run at READ COMMITTED: a statement sees what is committed, *)
(* waits for rows another transaction has changed, and then looks at them  *)
(* again; the partial unique index makes an insert wait in the same way.   *)
(***************************************************************************)
EXTENDS FiniteSets

CONSTANTS
    Tokens,         \* token ids, one per POST /internal/setup-tokens
    Transactions,   \* requests to user-management, each one transaction
    None

ASSUME TokensAssumption ==
    /\ None \notin Tokens \cup Transactions
    /\ Tokens \cap {"absent", "revoked"} = {}

VARIABLES
    status,       \* setup_tokens.status, as committed
    expired,      \* tokens past expires_at
    credentials,  \* users row: absent, revoked, or set with a token's submission
    at,           \* the next statement of a transaction, or how it ended
    kind, token,  \* what the request asks for
    seen,         \* tokens in the snapshot of the statement it is in
    holder,       \* the transaction that has changed a token's row
    staged,       \* the status that row will have
    userHolder,   \* the transaction that has changed the users row
    stagedUser    \* the credentials that row will have

committed == <<status, expired, credentials>>
request   == <<kind, token>>
locks     == <<holder, staged, userHolder, stagedUser>>
vars == <<status, expired, credentials, at, kind, token, seen,
          holder, staged, userHolder, stagedUser>>

-----------------------------------------------------------------------------
Terminal    == {"superseded", "consumed", "cancelled", "invalidated"}
Status      == {"unissued", "active"} \cup Terminal
Credentials == Tokens \cup {"absent", "revoked"}
Kind        == {"none", "issue", "consume", "cancel", "disconnect"}
Statement   == {"scan", "update", "insert", "user", "commit", "commit_invalid"}
Ended       == {"ok", "refused", "invalid_url", "error"}

TypeOK ==
    /\ status \in [Tokens -> Status]
    /\ expired \subseteq Tokens
    /\ credentials \in Credentials
    /\ at \in [Transactions -> {"idle"} \cup Statement \cup Ended]
    /\ kind \in [Transactions -> Kind]
    /\ token \in [Transactions -> Tokens \cup {None}]
    /\ seen \in [Transactions -> SUBSET Tokens]
    /\ holder \in [Tokens -> Transactions \cup {None}]
    /\ staged \in [Tokens -> Status]
    /\ userHolder \in Transactions \cup {None}
    /\ stagedUser \in Credentials

Init ==
    /\ status = [t \in Tokens |-> "unissued"]
    /\ expired = {}
    /\ credentials = "absent"
    /\ at = [x \in Transactions |-> "idle"]
    /\ kind = [x \in Transactions |-> "none"]
    /\ token = [x \in Transactions |-> None]
    /\ seen = [x \in Transactions |-> {}]
    /\ holder = [t \in Tokens |-> None]
    /\ staged = [t \in Tokens |-> "unissued"]
    /\ userHolder = None
    /\ stagedUser = "absent"

-----------------------------------------------------------------------------
\* Requests

Start(x, k, t, p) ==
    /\ at[x] = "idle"
    /\ at' = [at EXCEPT ![x] = p]
    /\ kind' = [kind EXCEPT ![x] = k]
    /\ token' = [token EXCEPT ![x] = t]
    /\ UNCHANGED <<committed, seen, locks>>

\* /start finds no user and asks for a token, under a new id.
StartIssue(x) ==
    /\ credentials = "absent"
    /\ \E t \in Tokens :
          /\ status[t] = "unissued"
          /\ \A y \in Transactions : token[y] # t
          /\ Start(x, "issue", t, "scan")

\* The submitted form of an existing token: consumeTokenInner first reads it,
\* and goes on with an active token that has not expired.
StartConsume(x) ==
    \E t \in Tokens :
        /\ status[t] # "unissued"
        /\ Start(x, "consume", t,
                 IF status[t] = "active" /\ t \notin expired THEN "update" ELSE "refused")

\* Cancellation names a token but cancels whatever token of the user is active.
StartCancel(x) ==
    \E t \in Tokens :
        /\ status[t] # "unissued"
        /\ Start(x, "cancel", t, "scan")

\* /disconnect of a user whose row exists.
StartDisconnect(x) ==
    /\ credentials # "absent"
    /\ Start(x, "disconnect", None, "user")

-----------------------------------------------------------------------------
\* Statements

Goes(x, from, to) ==
    /\ at[x] = from
    /\ at' = [at EXCEPT ![x] = to]

\* UPDATE setup_tokens ... WHERE status = 'active': the rows it starts from.
Scan(x) ==
    /\ Goes(x, "scan", "update")
    /\ seen' = [seen EXCEPT ![x] = {t \in Tokens : status[t] # "unissued"}]
    /\ UNCHANGED <<committed, request, locks>>

\* The rows an UPDATE of x looks at: by token id, or what its snapshot holds.
Candidates(x) == IF kind[x] = "consume" THEN {token[x]} ELSE seen[x]

\* Faulty variant: consuming writes a status that the schema does not know.
MisspeltOutcome == [issue |-> "superseded", consume |-> "used",
                    cancel |-> "cancelled", disconnect |-> "invalidated"]

Outcome == [issue |-> "superseded", consume |-> "consumed",
            cancel |-> "cancelled", disconnect |-> "invalidated"]

\* A row changed by another transaction is waited for.
LockedTokens(x) ==
    {t \in Candidates(x) : status[t] = "active" /\ holder[t] \notin {None, x}}

\* x changes the rows of T, which are its own until it ends.
Change(x, T, s) ==
    /\ holder' = [t \in Tokens |-> IF t \in T THEN x ELSE holder[t]]
    /\ staged' = [t \in Tokens |-> IF t \in T THEN s ELSE staged[t]]

AfterUpdate == [issue |-> "insert", consume |-> "user",
                cancel |-> "commit", disconnect |-> "commit"]

\* Faulty variant: the UPDATE does not ask for status = 'active'.
UpdateAnyStatus(x) ==
    /\ LockedTokens(x) = {}
    /\ Goes(x, "update", AfterUpdate[kind[x]])
    /\ Change(x, Candidates(x), Outcome[kind[x]])
    /\ UNCHANGED <<committed, request, seen, userHolder, stagedUser>>

\* The UPDATE takes the rows that are still active. Consuming a token that is
\* not is refused ("race_condition"); cancelling none is an answer, too.
Update(x) ==
    LET hit == {t \in Candidates(x) : status[t] = "active"} IN
    /\ LockedTokens(x) = {}
    /\ Goes(x, "update", IF kind[x] = "consume" /\ hit = {} THEN "refused" ELSE AfterUpdate[kind[x]])
    /\ Change(x, hit, Outcome[kind[x]])
    /\ UNCHANGED <<committed, request, seen, userHolder, stagedUser>>

\* Entries of idx_setup_tokens_active_user that another transaction is adding
\* or removing are waited for; a committed one that x has not removed is an error.
Contended(x) ==
    {t \in Tokens : holder[t] \notin {None, x} /\ "active" \in {status[t], staged[t]}}

Duplicate(x) ==
    \E t \in Tokens : status[t] = "active" /\ holder[t] = None

\* Faulty variant: there is no unique index.
InsertUnchecked(x) ==
    /\ Goes(x, "insert", "commit")
    /\ Change(x, {token[x]}, "active")
    /\ UNCHANGED <<committed, request, seen, userHolder, stagedUser>>

Insert(x) ==
    /\ Contended(x) = {}
    /\ ~Duplicate(x)
    /\ Goes(x, "insert", "commit")
    /\ Change(x, {token[x]}, "active")
    /\ UNCHANGED <<committed, request, seen, userHolder, stagedUser>>

\* x writes credentials c into the users row, once nobody else is writing it.
WriteUser(x, c) ==
    /\ userHolder \in {None, x}
    /\ userHolder' = x
    /\ stagedUser' = c

\* Faulty variant: the user is written through db instead of tx, at once.
CreateUserOutsideTransaction(x) ==
    /\ kind[x] = "consume"
    /\ Goes(x, "user", "commit")
    /\ userHolder \in {None, x}
    /\ credentials' = token[x]
    /\ UNCHANGED <<status, expired, request, seen, locks>>

\* createOrUpdateUserFromOnboarding, in the transaction that consumes the token.
CreateOrUpdateUser(x) ==
    /\ kind[x] = "consume"
    /\ Goes(x, "user", "commit")
    /\ WriteUser(x, token[x])
    /\ UNCHANGED <<committed, request, seen, holder, staged>>

\* Faulty variant: a hand-made transaction that the early return leaves open.
InvalidUrlLeftOpen(x) ==
    /\ kind[x] = "consume"
    /\ Goes(x, "user", "open")
    /\ UNCHANGED <<committed, request, seen, locks>>

\* normalizeMonicaUrl throws: the transaction is left by an ordinary return.
InvalidUrl(x) ==
    /\ kind[x] = "consume"
    /\ Goes(x, "user", "commit_invalid")
    /\ UNCHANGED <<committed, request, seen, locks>>

\* A body with a signature only consumes the token and touches no user.
SignatureOnly(x) ==
    /\ kind[x] = "consume"
    /\ Goes(x, "user", "commit")
    /\ UNCHANGED <<committed, request, seen, locks>>

\* Faulty variant: the credentials are revoked through db, not in the transaction.
RevokeOutsideTransaction(x) ==
    /\ kind[x] = "disconnect"
    /\ Goes(x, "user", "scan")
    /\ userHolder \in {None, x}
    /\ credentials' = "revoked"
    /\ UNCHANGED <<status, expired, request, seen, locks>>

\* disconnectUser revokes the credentials before it invalidates tokens.
Revoke(x) ==
    /\ kind[x] = "disconnect"
    /\ Goes(x, "user", "scan")
    /\ WriteUser(x, "revoked")
    /\ UNCHANGED <<committed, request, seen, holder, staged>>

-----------------------------------------------------------------------------
\* Ends of transactions

Release(x) ==
    /\ holder' = [t \in Tokens |-> IF holder[t] = x THEN None ELSE holder[t]]
    /\ userHolder' = IF userHolder = x THEN None ELSE userHolder
    /\ UNCHANGED <<staged, stagedUser>>

Commit(x) ==
    /\ \/ Goes(x, "commit", "ok")
       \/ Goes(x, "commit_invalid", "invalid_url")
    /\ status' = [t \in Tokens |-> IF holder[t] = x THEN staged[t] ELSE status[t]]
    /\ credentials' = IF userHolder = x THEN stagedUser ELSE credentials
    /\ Release(x)
    /\ UNCHANGED <<expired, request, seen>>

Rollback(x) ==
    /\ at[x] \in Statement
    /\ at' = [at EXCEPT ![x] = "error"]
    /\ Release(x)
    /\ UNCHANGED <<committed, request, seen>>

\* The unique index refuses a second active token.
UniqueViolation(x) ==
    /\ at[x] = "insert"
    /\ Contended(x) = {}
    /\ Duplicate(x)
    /\ Rollback(x)

\* The connection breaks or the process dies.
ConnectionLost(x) == Rollback(x)

\* x waits for y.
WaitsFor(x, y) ==
    \/ at[x] = "update" /\ \E t \in LockedTokens(x) : holder[t] = y
    \/ at[x] = "insert" /\ \E t \in Contended(x) : holder[t] = y
    \/ at[x] = "user" /\ userHolder = y /\ y # x

\* Two transactions wait for each other: PostgreSQL fails one of them.
DeadlockDetected(x) ==
    /\ \E y \in Transactions : WaitsFor(x, y) /\ WaitsFor(y, x)
    /\ Rollback(x)

Expire(t) ==
    /\ status[t] # "unissued"
    /\ t \notin expired
    /\ expired' = expired \cup {t}
    /\ UNCHANGED <<status, credentials, at, request, seen, locks>>

-----------------------------------------------------------------------------
Step(x) ==
    \/ Scan(x) \/ Update(x) \/ Insert(x) \/ UniqueViolation(x)
    \/ CreateOrUpdateUser(x) \/ InvalidUrl(x) \/ SignatureOnly(x) \/ Revoke(x)
    \/ Commit(x)

Next ==
    \/ \E x \in Transactions :
          \/ StartIssue(x) \/ StartConsume(x) \/ StartCancel(x) \/ StartDisconnect(x)
          \/ Step(x) \/ ConnectionLost(x) \/ DeadlockDetected(x)
    \/ \E t \in Tokens : Expire(t)

Spec == Init /\ [][Next]_vars

\* Statements that need not wait are executed, and PostgreSQL's deadlock
\* detector (deadlock_timeout) keeps running.
Fairness ==
    \A x \in Transactions : WF_vars(Step(x)) /\ WF_vars(DeadlockDetected(x))

FairSpec == Spec /\ Fairness

-----------------------------------------------------------------------------
(* What is promised. *)

\* However issues, consumptions, cancellations and disconnections overlap, the
\* user never has two setup links that work: the supersede-then-insert of
\* issueToken and idx_setup_tokens_active_user keep it so together.
AtMostOneActive ==
    \A t, u \in Tokens : status[t] = "active" /\ status[u] = "active" => t = u

\* A link that was used, replaced, cancelled or invalidated never works again,
\* and keeps the status it ended with: every UPDATE rechecks status = 'active'.
TerminalStates ==
    [][\A t \in Tokens : status[t] \in Terminal => status'[t] = status[t]]_vars

\* Credentials and token belong together: the account is connected with the
\* submission of a token only if exactly that token is consumed (one
\* transaction does both, or neither when it fails anywhere).
CredentialsFromConsumedToken ==
    credentials \in Tokens => status[credentials] = "consumed"

\* /disconnect is final for the links that existed: none of them works once it
\* has committed, and no form submitted through them, not even one in flight,
\* puts credentials back afterwards.
DisconnectRevokes ==
    \A x \in Transactions :
        kind[x] = "disconnect" /\ at[x] = "ok" =>
            /\ credentials \notin seen[x]
            /\ \A t \in seen[x] : status[t] # "active"

\* To whoever only sees committed rows and answers, each request takes effect at
\* one instant, wholly or not at all: the transactions, the rechecked condition
\* of the UPDATE and the unique index leave nothing else to be seen.
answered == [x \in Transactions |-> IF at[x] \in Statement THEN "open" ELSE at[x]]

Links == INSTANCE SetupLinks WITH Requests <- Transactions, answer <- answered

LinksTakeEffectAtOnce == [][Links!LinksNext]_(Links!linkVars)

\* Every transaction ends. consume takes the token's row and then the user's,
\* disconnectUser the user's and then the token's; only the database's deadlock
\* detector gets the two of them out of a deadly embrace.
TransactionsEnd ==
    \A x \in Transactions : at[x] \in Statement ~> at[x] \in Ended

\* The comment in web-ui's submit handler on an answer "consumed: false":
\* "Token not consumed". After invalid_url the link should thus not be used up.
RefusedKeepsToken ==
    \A x \in Transactions :
        at[x] = "invalid_url" => status[token[x]] # "consumed"

=============================================================================
