---------------------------- MODULE CommandLedger ----------------------------
(***************************************************************************)
(* What the scheduler promises about confirmed commands, without its       *)
(* idempotency keys, queue, workers or crashes: a request spends a record  *)
(* of its key, a record is open for one request at a time, the number of   *)
(* calls to monica-integration a record stands for is bounded, and a client is told  *)
(* "completed" only about a command that was applied.                      *)
(***************************************************************************)
EXTENDS Integers

CONSTANTS
    Keys,       \* idempotency keys
    Requests,   \* POST /internal/execute requests, retries included
    NoRequest,  \* "no execution record"
    KeyOf,      \* the idempotency key a request carries
    Budget      \* calls to monica-integration that one request's record may cause

VARIABLES
    record,     \* the request whose execution record is stored for a key
    opened,     \* requests that have ever opened a record
    effects,    \* calls to monica-integration that may have taken effect, per request
    told        \* requests answered "completed"

ledgerVars == <<record, opened, effects, told>>

Init ==
    /\ record = [k \in Keys |-> NoRequest]
    /\ opened = {}
    /\ effects = [r \in Requests |-> 0]
    /\ told = {}

\* A request opens the record of its key, once, while none is open.
Open(r) ==
    /\ record[KeyOf[r]] = NoRequest
    /\ r \notin opened
    /\ record' = [record EXCEPT ![KeyOf[r]] = r]
    /\ opened' = opened \cup {r}
    /\ UNCHANGED <<effects, told>>

\* Only an opened record reaches MonicaHQ, and no more often than its budget.
Apply(r) ==
    /\ r \in opened
    /\ effects[r] < Budget[r]
    /\ effects' = [effects EXCEPT ![r] = @ + 1]
    /\ UNCHANGED <<record, opened, told>>

\* "Completed" is said only of a command that took effect.
Tell(r) ==
    /\ \E s \in Requests : KeyOf[s] = KeyOf[r] /\ effects[s] > 0
    /\ told' = told \cup {r}
    /\ UNCHANGED <<record, opened, effects>>

\* Retention and user purges close records.
Erase(K) ==
    /\ record' = [k \in Keys |-> IF k \in K THEN NoRequest ELSE record[k]]
    /\ UNCHANGED <<opened, effects, told>>

Next ==
    \/ \E r \in Requests : Open(r) \/ Apply(r) \/ Tell(r)
    \/ \E K \in SUBSET Keys : Erase(K)

Spec == Init /\ [][Next]_ledgerVars

=============================================================================
