--------------------------- MODULE MonicaOperations ---------------------------
(***************************************************************************)
(* The routes of monica-integration and the MonicaHQ client below them     *)
(* (monica-api-lib), with the account of one user in MonicaHQ.             *)
(*                                                                         *)
(* MonicaHQ has no partial update: an update reads the contact and writes  *)
(* all of it back. withRetry repeats any call whose answer did not come or *)
(* asks for it, POST included, and an attempt that was given up may still  *)
(* reach MonicaHQ, whenever it likes. Repeating a GET changes nothing, so  *)
(* a read is one action, at the time of its last attempt.                  *)
(***************************************************************************)
EXTENDS Integers, SequencesExt

CONSTANTS
    Requests,      \* requests to monica-integration, each used once
    Operations,    \* what they ask for
    Account,       \* contacts of the account in the beginning, as listed
    NoOperation,
    Absent,        \* a contact that is not (or no longer) there
    Initial,       \* what its fields were
    Unknown,       \* no birthdate
    MaxRetries,
    PageSize,
    MaxPages

Existing == ToSet(Account)
Fields   == {"name", "nickname", "birthdate"}
Kinds    == {"create", "add", "update", "nickname", "delete", "read", "list"}
Contacts == Existing \cup (Requests \X (0 .. MaxRetries))   \* a POST may make one
Values   == Requests \cup {Initial, Unknown}
Record   == [Fields -> Values]

ASSUME MonicaAssumption ==
    /\ Account \in Seq(Existing) /\ IsInjective(Account)
    /\ Operations \subseteq [kind : Kinds, contact : Existing, named : SUBSET Fields]
    /\ NoOperation \notin Operations \cup Requests
    /\ Absent \notin Record
    /\ Existing \cap (Requests \X (0 .. MaxRetries)) = {}
    /\ Initial \notin Requests /\ Unknown \notin Requests
    /\ MaxRetries \in Nat
    /\ PageSize \in Nat \ {0} /\ MaxPages \in Nat \ {0}

VARIABLES
    phase,     \* the request's next await, or its answer
    op,
    seen,      \* the contact as an update has read it
    attempt,   \* number of the current attempt of its write
    reply,     \* MonicaHQ's reply to that attempt
    wire,      \* attempts that may still reach MonicaHQ
    contact,   \* contacts in MonicaHQ
    order,     \* their order in a listing
    carried,   \* attempts that MonicaHQ has carried out
    page,      \* the page a listing fetches next
    last,      \* last_page of its first page
    got,       \* contacts it has collected
    there,     \* contacts that were there when it began
    events     \* what happened to the set of contacts since then

requestVars == <<phase, op>>
writeVars   == <<seen, attempt, reply, wire>>
accountVars == <<contact, order, carried>>
listVars    == <<page, last, got, there, events>>
vars == <<requestVars, writeVars, accountVars, listVars>>

-----------------------------------------------------------------------------
Awaits  == {"credentials", "read", "write", "page"}
Answers == {"ok", "refused", "failed"}    \* 2xx, 4xx, 5xx
Replied == {"none", "ok", "refused", "again", "limited"}    \* again: 5xx, limited: 429

MonicaTypeOK ==
    /\ phase \in [Requests -> {"idle"} \cup Awaits \cup Answers]
    /\ op \in [Requests -> Operations \cup {NoOperation}]
    /\ seen \in [Requests -> Record \cup {Absent}]
    /\ attempt \in [Requests -> 0 .. MaxRetries]
    /\ reply \in [Requests -> Replied]
    /\ wire \subseteq Requests \X (0 .. MaxRetries)
    /\ contact \in [Contacts -> Record \cup {Absent}]
    /\ order \in Seq(Contacts)
    /\ carried \subseteq Requests \X (0 .. MaxRetries)
    /\ page \in [Requests -> Nat \ {0}]
    /\ last \in [Requests -> Nat]
    /\ got \in [Requests -> Seq(Contacts)]
    /\ there \in [Requests -> SUBSET Contacts]
    /\ events \in [Requests -> SUBSET {"created", "deleted"}]

MonicaInit ==
    /\ phase = [r \in Requests |-> "idle"]
    /\ op = [r \in Requests |-> NoOperation]
    /\ seen = [r \in Requests |-> Absent]
    /\ attempt = [r \in Requests |-> 0]
    /\ reply = [r \in Requests |-> "none"]
    /\ wire = {}
    /\ contact = [c \in Contacts |->
                     IF c \in Existing THEN [f \in Fields |-> Initial] ELSE Absent]
    /\ order = Account
    /\ carried = {}
    /\ page = [r \in Requests |-> 1]
    /\ last = [r \in Requests |-> 1]
    /\ got = [r \in Requests |-> << >>]
    /\ there = [r \in Requests |-> {}]
    /\ events = [r \in Requests |-> {}]

-----------------------------------------------------------------------------
Kind(r)   == IF op[r] = NoOperation THEN "none" ELSE op[r].kind
Target(r) == op[r].contact
Rewrites  == {"update", "nickname"}
Writes    == {"create", "add", "delete"} \cup Rewrites

Goes(r, from, to) ==
    /\ phase[r] = from
    /\ phase' = [phase EXCEPT ![r] = to]

\* handleMonicaError, for an error before anything was written.
GivesUp(r, from) ==
    /\ Goes(r, from, "refused") \/ Goes(r, from, "failed")
    /\ UNCHANGED <<op, writeVars, accountVars, listVars>>

Start(r, o) ==
    /\ Goes(r, "idle", "credentials")
    /\ op' = [op EXCEPT ![r] = o]
    /\ UNCHANGED <<writeVars, accountVars, listVars>>

Send(r, n) ==
    /\ attempt' = [attempt EXCEPT ![r] = n]
    /\ reply' = [reply EXCEPT ![r] = "none"]
    /\ wire' = wire \cup {<<r, n>>}

\* CredentialResolutionError, or a base URL that is not allowed.
NoCredentials(r) == GivesUp(r, "credentials")

\* createMonicaClient asks user-management for the user's credentials.
Resolve(r) ==
    \/ /\ Kind(r) \in Rewrites \cup {"read"}
       /\ Goes(r, "credentials", "read")
       /\ UNCHANGED <<op, writeVars, accountVars, listVars>>
    \/ /\ Kind(r) \in Writes \ Rewrites
       /\ Goes(r, "credentials", "write")
       /\ Send(r, 0)
       /\ UNCHANGED <<op, seen, accountVars, listVars>>
    \/ /\ Kind(r) = "list"
       /\ Goes(r, "credentials", "page")
       /\ UNCHANGED <<op, writeVars, accountVars, listVars>>
    \/ NoCredentials(r)

\* A read-only request: nothing but its answer.
Read(r) ==
    /\ Kind(r) = "read"
    /\ \/ Goes(r, "read", "ok") /\ UNCHANGED <<op, writeVars, accountVars, listVars>>
       \/ GivesUp(r, "read")

\* An update reads the contact and the genders, and then sends its PUT.
Fetch(r) ==
    /\ Kind(r) \in Rewrites
    /\ \/ /\ contact[Target(r)] # Absent
          /\ Goes(r, "read", "write")
          /\ seen' = [seen EXCEPT ![r] = contact[Target(r)]]
          /\ Send(r, 0)
          /\ UNCHANGED <<op, accountVars, listVars>>
       \/ GivesUp(r, "read")

-----------------------------------------------------------------------------
\* MonicaHQ

\* What a birthdate is after a PUT without one: a nickname's says that there is
\* none, an update's that there is one, and MonicaHQ makes of that what it wants.
Birthdates(r) ==
    IF "birthdate" \in op[r].named THEN {r}
    ELSE IF Kind(r) = "nickname" THEN {Unknown}
    ELSE {Unknown, seen[r]["birthdate"]}

\* Faulty variant: what the request does not name is left out of the PUT.
RewrittenAlone(r, b) ==
    [f \in Fields |-> IF f = "birthdate" THEN b
                      ELSE IF f \in op[r].named THEN r ELSE Unknown]

Rewritten(r, b) ==
    [f \in Fields |-> IF f = "birthdate" THEN b
                      ELSE IF f \in op[r].named THEN r ELSE seen[r][f]]

Happens(e) ==
    events' = [r \in Requests |->
                  IF phase[r] = "page" /\ page[r] > 1 THEN events[r] \cup {e} ELSE events[r]]

CarryOut(r, n) ==
    /\ carried' = carried \cup {<<r, n>>}
    /\ \/ /\ Kind(r) = "create"
          /\ contact' = [contact EXCEPT ![<<r, n>>] = [f \in Fields |-> r]]
          \* Where it appears in listings is up to MonicaHQ.
          /\ \E i \in 1 .. Len(order) + 1 : order' = InsertAt(order, i, <<r, n>>)
          /\ Happens("created")
       \/ /\ Kind(r) \in {"add"} \cup Rewrites
          /\ contact[Target(r)] # Absent
          /\ IF Kind(r) = "add" THEN UNCHANGED contact
             ELSE \E b \in Birthdates(r) :
                     contact' = [contact EXCEPT ![Target(r)] = Rewritten(r, b)]
          /\ UNCHANGED <<order, events>>
       \/ /\ Kind(r) = "delete"
          /\ contact[Target(r)] # Absent
          /\ contact' = [contact EXCEPT ![Target(r)] = Absent]
          /\ \E i \in DOMAIN order :
                order[i] = Target(r) /\ order' = RemoveAt(order, i)
          /\ Happens("deleted")

\* A reply is heard if its attempt is still being waited for.
Replies(r, n, answers) ==
    IF phase[r] = "write" /\ attempt[r] = n /\ reply[r] = "none"
    THEN \E a \in answers : reply' = [reply EXCEPT ![r] = a]
    ELSE UNCHANGED reply

\* An attempt reaches MonicaHQ: carried out, with or without success in saying
\* so, or not (validation, no such contact, limits, errors).
Reach(r, n) ==
    /\ <<r, n>> \in wire
    /\ wire' = wire \ {<<r, n>>}
    /\ \/ CarryOut(r, n) /\ Replies(r, n, {"ok", "again"})
       \/ Replies(r, n, {"refused", "again", "limited"}) /\ UNCHANGED <<accountVars, events>>
    /\ UNCHANGED <<requestVars, seen, attempt, page, last, got, there>>

-----------------------------------------------------------------------------
\* withRetry and withTimeout

\* Faulty variant: one retry too many.
AgainOnceMore(r) ==
    /\ phase[r] = "write"
    /\ IF attempt[r] <= MaxRetries
       THEN Send(r, attempt[r] + 1) /\ UNCHANGED phase
       ELSE /\ Goes(r, "write", IF reply[r] = "limited" THEN "refused" ELSE "failed")
            /\ UNCHANGED <<attempt, reply, wire>>
    /\ UNCHANGED <<op, seen, accountVars, listVars>>

\* 429, 5xx, a timeout or a broken connection: the call is made again. When that
\* was the last attempt, handleMonicaError answers 429 as it is and 5xx as 502.
Again(r) ==
    /\ phase[r] = "write"
    /\ IF attempt[r] < MaxRetries
       THEN Send(r, attempt[r] + 1) /\ UNCHANGED phase
       ELSE /\ Goes(r, "write", IF reply[r] = "limited" THEN "refused" ELSE "failed")
            /\ UNCHANGED <<attempt, reply, wire>>
    /\ UNCHANGED <<op, seen, accountVars, listVars>>

\* Faulty variant: a write that was not answered is taken for a done one.
TimeOutIsDone(r) ==
    /\ reply[r] = "none"
    /\ Goes(r, "write", "ok")
    /\ UNCHANGED <<op, writeVars, accountVars, listVars>>

TimeOut(r) == reply[r] = "none" /\ Again(r)

\* Faulty variant: a refusal of a repeated attempt counts as done.
HearRefusedAsDone(r) ==
    \/ /\ \/ reply[r] = "ok" /\ (Goes(r, "write", "ok") \/ Goes(r, "write", "failed"))
          \/ reply[r] = "refused" /\ Goes(r, "write", IF attempt[r] > 0 THEN "ok" ELSE "refused")
       /\ UNCHANGED <<op, writeVars, accountVars, listVars>>
    \/ reply[r] \in {"again", "limited"} /\ Again(r)

\* A 2xx whose body cannot be read or does not fit its schema is a failure; so is
\* a redirect.
Hear(r) ==
    \/ /\ \/ reply[r] = "ok" /\ (Goes(r, "write", "ok") \/ Goes(r, "write", "failed"))
          \/ reply[r] = "refused" /\ (Goes(r, "write", "refused") \/ Goes(r, "write", "failed"))
       /\ UNCHANGED <<op, writeVars, accountVars, listVars>>
    \/ reply[r] \in {"again", "limited"} /\ Again(r)

-----------------------------------------------------------------------------
\* paginateAll

Pages == IF order = << >> THEN 1 ELSE (Len(order) + PageSize - 1) \div PageSize

PageItems(n) ==
    SubSeq(order, (n - 1) * PageSize + 1,
           IF n * PageSize < Len(order) THEN n * PageSize ELSE Len(order))

\* Faulty variant: the last page is left out.
PageBeforeLast(r) ==
    /\ phase[r] = "page"
    /\ \/ LET pages == IF page[r] = 1 THEN Pages ELSE last[r]
          IN  /\ last' = [last EXCEPT ![r] = pages]
              /\ there' = [there EXCEPT ![r] =
                              IF page[r] = 1 THEN ToSet(order) ELSE @]
              /\ IF pages > MaxPages
                 THEN Goes(r, "page", "failed") /\ UNCHANGED <<page, got>>
                 ELSE /\ got' = [got EXCEPT ![r] = @ \o PageItems(page[r])]
                      /\ page' = [page EXCEPT ![r] = @ + 1]
                      /\ Goes(r, "page", IF page[r] + 1 < pages THEN "page" ELSE "ok")
              /\ UNCHANGED <<op, writeVars, accountVars, events>>
       \/ GivesUp(r, "page")

\* last_page is taken from the first page, and so is the decision to give up.
FetchPage(r) ==
    /\ phase[r] = "page"
    /\ \/ LET pages == IF page[r] = 1 THEN Pages ELSE last[r]
          IN  /\ last' = [last EXCEPT ![r] = pages]
              /\ there' = [there EXCEPT ![r] =
                              IF page[r] = 1 THEN ToSet(order) ELSE @]
              /\ IF pages > MaxPages
                 THEN Goes(r, "page", "failed") /\ UNCHANGED <<page, got>>
                 ELSE /\ got' = [got EXCEPT ![r] = @ \o PageItems(page[r])]
                      /\ page' = [page EXCEPT ![r] = @ + 1]
                      /\ Goes(r, "page", IF page[r] < pages THEN "page" ELSE "ok")
              /\ UNCHANGED <<op, writeVars, accountVars, events>>
       \/ GivesUp(r, "page")

-----------------------------------------------------------------------------
MonicaNext ==
    \E r \in Requests :
        \/ \E o \in Operations : Start(r, o)
        \/ Resolve(r) \/ Read(r) \/ Fetch(r)
        \/ \E n \in 0 .. MaxRetries : Reach(r, n)
        \/ TimeOut(r) \/ Hear(r)
        \/ FetchPage(r)

MonicaSpec == MonicaInit /\ [][MonicaNext]_vars

-----------------------------------------------------------------------------
\* A 2xx means that the request was carried out, a 4xx that it was not; the
\* latter only if there was no retry. Nothing is done more often than attempted.
AnswersTruthful ==
    \A r \in Requests :
        /\ phase[r] = "ok" /\ Kind(r) \in Writes => \E n \in 0 .. attempt[r] : <<r, n>> \in carried
        /\ phase[r] = "refused" /\ attempt[r] = 0 => <<r, 0>> \notin carried
        /\ \A n \in 0 .. MaxRetries : <<r, n>> \in carried => n <= attempt[r]

\* A field that a request was told it has set is still so, unless another update
\* of the contact was carried out that sets it too, that had read the contact
\* before, or that lost the birthdate.
LostOnlyToOverlap ==
    \A r \in Requests :
        phase[r] = "ok" /\ Kind(r) \in Rewrites /\ contact[Target(r)] # Absent =>
            \A f \in op[r].named :
                \/ contact[Target(r)][f] = r
                \/ \E q \in Requests \ {r}, n \in 0 .. MaxRetries :
                      /\ <<q, n>> \in carried
                      /\ Kind(q) \in Rewrites /\ Target(q) = Target(r)
                      /\ f \in op[q].named \cup {"birthdate"} \/ seen[q][f] # r

\* A listing holds every contact that was there all the time, once; it may miss
\* one only when contacts were created or deleted between two pages, and hold one
\* twice only when one was created.
ListingsComplete ==
    \A r \in Requests :
        Kind(r) = "list" /\ phase[r] = "ok" =>
            /\ \A c \in there[r] :
                  contact[c] # Absent => events[r] # {} \/ c \in ToSet(got[r])
            /\ \A i, j \in DOMAIN got[r] :
                  got[r][i] = got[r][j] => i = j \/ "created" \in events[r]

\* What the ledger of a scheduler would know of a request: it is a key of its own,
\* it applies what its attempts carried out, and it is told when a write gets 2xx.
CarriedOf(r) == {n \in 0 .. MaxRetries : <<r, n>> \in carried}

recorded == [r \in Requests |-> IF phase[r] = "idle" THEN NoOperation ELSE r]
begun    == {r \in Requests : phase[r] # "idle"}
applied  == [r \in Requests |-> Cardinality(CarriedOf(r))]
assured  == {r \in Requests : phase[r] = "ok" /\ Kind(r) \in Writes}

Ledger == INSTANCE CommandLedger WITH
    Keys      <- Requests,
    NoRequest <- NoOperation,
    KeyOf     <- [r \in Requests |-> r],
    Budget    <- [r \in Requests |-> MaxRetries + 1],
    record    <- recorded,
    opened    <- begun,
    effects   <- applied,
    told      <- assured

\* A request changes the account only after it came and at most once per attempt
\* that withRetry allows, though late ones change it after the answer; and a 2xx
\* to a write stands for a change that was made.
KeepsLedger == Ledger!Spec

=============================================================================
