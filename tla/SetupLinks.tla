------------------------------ MODULE SetupLinks ------------------------------
(***************************************************************************)
(* What user-management promises about setup links and the connection of   *)
(* an account: a request takes effect at one instant, as a whole, or not   *)
(* at all, and what it answers is what became of it. Nothing of            *)
(* transactions, rows or locks shows here.                                 *)
(***************************************************************************)
CONSTANTS Tokens, Requests, None

VARIABLES
    status, expired,    \* of the links
    credentials,        \* absent, revoked, or given with a link
    kind, token,        \* what a request asks for
    seen,               \* the links a request has found
    answer              \* idle, open, or what was answered

linkVars == <<status, expired, credentials, kind, token, seen, answer>>

LinksInit ==
    /\ status = [t \in Tokens |-> "unissued"]
    /\ expired = {}
    /\ credentials = "absent"
    /\ kind = [x \in Requests |-> "none"]
    /\ token = [x \in Requests |-> None]
    /\ seen = [x \in Requests |-> {}]
    /\ answer = [x \in Requests |-> "idle"]

Issued == {t \in Tokens : status[t] # "unissued"}
Active == {t \in Tokens : status[t] = "active"}

-----------------------------------------------------------------------------
\* A request arrives, for link t if it is about one.
Asks(x, k, t, a) ==
    /\ answer[x] = "idle"
    /\ answer' = [answer EXCEPT ![x] = a]
    /\ kind' = [kind EXCEPT ![x] = k]
    /\ token' = [token EXCEPT ![x] = t]
    /\ UNCHANGED <<status, expired, credentials, seen>>

\* A new link for somebody unknown, the form of a link, the end of the links, or
\* of the connection. A link that has ended or expired is refused at once.
Ask(x) ==
    \/ \E t \in Tokens \ Issued :
          /\ credentials = "absent"
          /\ \A y \in Requests : token[y] # t
          /\ Asks(x, "issue", t, "open")
    \/ \E t \in Active \ expired : Asks(x, "consume", t, "open")
    \/ \E t \in Issued : t \notin Active \ expired /\ Asks(x, "consume", t, "refused")
    \/ \E t \in Issued : Asks(x, "cancel", t, "open")
    \/ credentials # "absent" /\ Asks(x, "disconnect", None, "open")

\* A request finds the links there are.
Find(x) ==
    /\ answer[x] = "open"
    /\ seen' = [seen EXCEPT ![x] = Issued]
    /\ UNCHANGED <<status, expired, credentials, kind, token, answer>>

-----------------------------------------------------------------------------
\* A request k is answered a, and what it changes of the links and the account
\* is changed at that instant.
Answers(x, k, a) ==
    /\ kind[x] = k /\ answer[x] = "open"
    /\ answer' = [answer EXCEPT ![x] = a]
    /\ UNCHANGED <<expired, kind, token, seen>>

Become(T, s) == [t \in Tokens |-> IF t \in T THEN s ELSE status[t]]

\* The new link replaces whatever link works.
Issue(x) ==
    /\ Answers(x, "issue", "ok")
    /\ token[x] \in Tokens \ Issued
    /\ status' = [Become(Active, "superseded") EXCEPT ![token[x]] = "active"]
    /\ UNCHANGED credentials

\* A link is used up by the form that connects the account, that only asks for
\* its signature to be checked, or that has an invalid URL.
Consume(x) ==
    /\ token[x] \in Active
    /\ status' = Become({token[x]}, "consumed")
    /\ \/ Answers(x, "consume", "ok") /\ credentials' \in {credentials, token[x]}
       \/ Answers(x, "consume", "invalid_url") /\ UNCHANGED credentials

Refuse(x) ==
    /\ Answers(x, "consume", "refused")
    /\ token[x] \notin Active
    /\ UNCHANGED <<status, credentials>>

\* The links the request has found end, if they still work.
Cancel(x) ==
    /\ Answers(x, "cancel", "ok")
    /\ status' = Become(seen[x] \cap Active, "cancelled")
    /\ UNCHANGED credentials

Disconnect(x) ==
    /\ Answers(x, "disconnect", "ok")
    /\ credentials # "absent"
    /\ status' = Become(seen[x] \cap Active, "invalidated")
    /\ credentials' = "revoked"

\* A request that fails has changed nothing.
Fail(x) ==
    /\ \E k \in {"issue", "consume", "cancel", "disconnect"} : Answers(x, k, "error")
    /\ UNCHANGED <<status, credentials>>

Expire(t) ==
    /\ t \in Issued \ expired
    /\ expired' = expired \cup {t}
    /\ UNCHANGED <<status, credentials, kind, token, seen, answer>>

LinksNext ==
    \/ \E x \in Requests :
          \/ Ask(x) \/ Find(x) \/ Issue(x) \/ Consume(x) \/ Refuse(x) \/ Cancel(x)
          \/ Disconnect(x) \/ Fail(x)
    \/ \E t \in Tokens : Expire(t)

LinksSpec == LinksInit /\ [][LinksNext]_linkVars

=============================================================================
