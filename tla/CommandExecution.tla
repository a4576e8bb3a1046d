--------------------------- MODULE CommandExecution ---------------------------
(***************************************************************************)
(* The scheduler's execution path for confirmed commands: the idempotency  *)
(* store (packages/idempotency), POST /internal/execute, the synchronous   *)
(* and the BullMQ way of running processCommandJob, dead-lettering,        *)
(* retention and the purge of a user's data.                               *)
(*                                                                         *)
(* Every database or network round trip is a step of its own, so handlers, *)
(* workers, purges and crashes interleave at every await of the code.      *)
(***************************************************************************)
EXTENDS Integers, FiniteSets

CONSTANTS
    Keys,             \* idempotency keys (one per pending command)
    Requests,         \* POST /internal/execute requests, client retries included
    NoRequest,        \* "no execution record"
    KeyOf,            \* the key a request carries
    Sync,             \* requests with suppressDelivery: processed in the handler
    Users, Owner,     \* the user a key's command belongs to
    MaxRetries,       \* SCHEDULER_MAX_RETRIES: attempts before dead-lettering
    MaxStalledCount,  \* BullMQ: times a job of a dead worker is given back
    Concurrency,      \* jobs the command worker runs at a time
    MaxCrashes        \* bound on scheduler process crashes

ASSUME ConstantsAssumption ==
    /\ NoRequest \notin Requests
    /\ KeyOf \in [Requests -> Keys]
    /\ Sync \subseteq Requests
    /\ Owner \in [Keys -> Users]
    /\ MaxRetries \in Nat \ {0}
    /\ MaxStalledCount \in Nat
    /\ Concurrency \in Nat \ {0}
    /\ MaxCrashes \in Nat

VARIABLES
    keyRow,     \* row of idempotency_keys: absent, in_progress or completed
    keyAge,     \* its expires_at: ahead, passed, or passed by the retention period
    record,     \* row of command_executions: the request that inserted it
    deadLettered, \* records with status 'dead_lettered' (the others stay 'queued')
    forgotten,  \* records that retention or a user purge deleted
    handler,    \* where the request's HTTP handler is, or what it answered
    run,        \* where processCommandJob is for the request
    job,        \* BullMQ state of the request's job
    stalls,     \* times BullMQ found the job's worker dead
    attempts,   \* BullMQ attemptsMade
    effects,    \* calls to monica-integration that may have taken effect
    crashes

keyVars    == <<keyRow, keyAge>>
recordVars == <<record, deadLettered, forgotten>>
jobVars    == <<job, stalls, attempts>>
vars == <<keyRow, keyAge, record, deadLettered, forgotten, handler, run,
          job, stalls, attempts, effects, crashes>>

-----------------------------------------------------------------------------
\* Types

KeyRow   == {"absent", "in_progress", "completed"}
KeyAge   == {"live", "expired", "aged"}
Waiting  == {"check", "reclaim", "claim", "record", "enqueue", "process", "recheck"}
Answered == {"completed", "queued", "busy", "failed", "dead"}
Handler  == {"idle"} \cup Waiting \cup Answered
Run      == {"none", "call", "complete", "notify", "done", "failed", "deadletter"}
Job      == {"none", "waiting", "active", "completed", "failed"}

TypeOK ==
    /\ keyRow \in [Keys -> KeyRow]
    /\ keyAge \in [Keys -> KeyAge]
    /\ record \in [Keys -> Requests \cup {NoRequest}]
    /\ deadLettered \subseteq Requests
    /\ forgotten \subseteq Requests
    /\ handler \in [Requests -> Handler]
    /\ run \in [Requests -> Run]
    /\ job \in [Requests -> Job]
    /\ stalls \in [Requests -> Nat]
    /\ attempts \in [Requests -> Nat]
    /\ effects \in [Requests -> Nat]
    /\ crashes \in Nat

Init ==
    /\ keyRow = [k \in Keys |-> "absent"]
    /\ keyAge = [k \in Keys |-> "live"]
    /\ record = [k \in Keys |-> NoRequest]
    /\ deadLettered = {}
    /\ forgotten = {}
    /\ handler = [r \in Requests |-> "idle"]
    /\ run = [r \in Requests |-> "none"]
    /\ job = [r \in Requests |-> "none"]
    /\ stalls = [r \in Requests |-> 0]
    /\ attempts = [r \in Requests |-> 0]
    /\ effects = [r \in Requests |-> 0]
    /\ crashes = 0

-----------------------------------------------------------------------------
\* POST /internal/execute

\* The handler of r goes from one await to the next, or answers.
HandlerGoes(r, from, to) ==
    /\ handler[r] = from
    /\ handler' = [handler EXCEPT ![r] = to]

Arrive(r) ==
    /\ HandlerGoes(r, "idle", "check")
    /\ UNCHANGED <<keyVars, recordVars, run, jobVars, effects, crashes>>

\* idempotencyStore.check: the age of an in_progress row is not looked at.
Check(r) ==
    /\ \/ keyRow[KeyOf[r]] = "absent"      /\ HandlerGoes(r, "check", "reclaim")
       \/ keyRow[KeyOf[r]] = "completed"   /\ HandlerGoes(r, "check", "completed")
       \/ keyRow[KeyOf[r]] = "in_progress" /\ HandlerGoes(r, "check", "busy")
    /\ UNCHANGED <<keyVars, recordVars, run, jobVars, effects, crashes>>

Reclaimable(k) == keyRow[k] = "in_progress" /\ keyAge[k] # "live"

\* idempotencyStore.claim, first statement: take over an expired claim.
Reclaim(r) ==
    LET k == KeyOf[r] IN
    /\ HandlerGoes(r, "reclaim", IF Reclaimable(k) THEN "record" ELSE "claim")
    /\ keyAge' = IF Reclaimable(k) THEN [keyAge EXCEPT ![k] = "live"] ELSE keyAge
    /\ UNCHANGED <<keyRow, recordVars, run, jobVars, effects, crashes>>

\* idempotencyStore.claim, second statement: INSERT ... ON CONFLICT DO NOTHING.
Claim(r) ==
    LET k == KeyOf[r] IN
    /\ HandlerGoes(r, "claim", IF keyRow[k] = "absent" THEN "record" ELSE "busy")
    /\ IF keyRow[k] = "absent"
       THEN /\ keyRow' = [keyRow EXCEPT ![k] = "in_progress"]
            /\ keyAge' = [keyAge EXCEPT ![k] = "live"]
       ELSE UNCHANGED keyVars
    /\ UNCHANGED <<recordVars, run, jobVars, effects, crashes>>

\* Faulty variant: the column is not unique.
InsertSecondRecord(r) ==
    /\ HandlerGoes(r, "record", IF r \in Sync THEN "process" ELSE "enqueue")
    /\ record' = [record EXCEPT ![KeyOf[r]] = r]
    /\ run' = IF r \in Sync THEN [run EXCEPT ![r] = "call"] ELSE run
    /\ UNCHANGED <<keyVars, deadLettered, forgotten, jobVars, effects, crashes>>

\* INSERT INTO command_executions: idempotency_key is unique, so a second
\* record of a key is an error, answered 500 with the claim still held.
InsertRecord(r) ==
    LET k == KeyOf[r] IN
    /\ record[k] = NoRequest
    /\ HandlerGoes(r, "record", IF r \in Sync THEN "process" ELSE "enqueue")
    /\ record' = [record EXCEPT ![k] = r]
    /\ run' = IF r \in Sync THEN [run EXCEPT ![r] = "call"] ELSE run
    /\ UNCHANGED <<keyVars, deadLettered, forgotten, jobVars, effects, crashes>>

DuplicateRecord(r) ==
    /\ record[KeyOf[r]] # NoRequest
    /\ HandlerGoes(r, "record", "failed")
    /\ UNCHANGED <<keyVars, recordVars, run, jobVars, effects, crashes>>

\* commandQueue.add, then 202.
Enqueue(r) ==
    /\ HandlerGoes(r, "enqueue", "queued")
    /\ job' = [job EXCEPT ![r] = "waiting"]
    /\ UNCHANGED <<keyVars, recordVars, run, stalls, attempts, effects, crashes>>

\* processSync has returned, or thrown: 500, and the claim is not released.
SyncReturns(r) ==
    /\ \/ run[r] = "done" /\ HandlerGoes(r, "process", "recheck")
       \/ run[r] = "failed" /\ HandlerGoes(r, "process", "failed")
    /\ run' = [run EXCEPT ![r] = "none"]
    /\ UNCHANGED <<keyVars, recordVars, jobVars, effects, crashes>>

\* The second check only fetches the stored result; 200 whatever it finds.
Recheck(r) ==
    /\ HandlerGoes(r, "recheck", "completed")
    /\ UNCHANGED <<keyVars, recordVars, run, jobVars, effects, crashes>>

\* PostgreSQL or Redis refuses the statement the handler is waiting for: 500.
StoreFails(r) ==
    /\ handler[r] \in Waiting \ {"process"}
    /\ handler' = [handler EXCEPT ![r] = "failed"]
    /\ UNCHANGED <<keyVars, recordVars, run, jobVars, effects, crashes>>

-----------------------------------------------------------------------------
\* processCommandJob, in the handler or in the worker

\* The call to monica-integration was answered with success.
CallSucceeds(r) ==
    /\ run[r] = "call"
    /\ effects' = [effects EXCEPT ![r] = @ + 1]
    /\ run' = [run EXCEPT ![r] = "complete"]
    /\ UNCHANGED <<keyVars, recordVars, handler, jobVars, crashes>>

\* Faulty variant: a failed call is tried again at once.
CallRepeated(r) ==
    /\ run[r] = "call"
    /\ effects' \in {effects, [effects EXCEPT ![r] = @ + 1]}
    /\ UNCHANGED <<keyVars, recordVars, handler, run, jobVars, crashes>>

\* It was refused, failed or lost its answer: it may have taken effect or not.
CallFails(r) ==
    /\ run[r] = "call"
    /\ effects' \in {effects, [effects EXCEPT ![r] = @ + 1]}
    /\ run' = [run EXCEPT ![r] = "failed"]
    /\ UNCHANGED <<keyVars, recordVars, handler, jobVars, crashes>>

\* Faulty variant: a status the rest of the code does not know.
CompleteUnknownStatus(r) ==
    /\ run[r] = "complete"
    /\ keyRow' = [keyRow EXCEPT ![KeyOf[r]] = "done"]
    /\ run' = [run EXCEPT ![r] = IF r \in Sync THEN "done" ELSE "notify"]
    /\ UNCHANGED <<keyAge, recordVars, handler, jobVars, effects, crashes>>

\* idempotencyStore.complete touches an in_progress row only.
CompleteKey(r) ==
    LET k == KeyOf[r] IN
    /\ run[r] = "complete"
    /\ keyRow' = IF keyRow[k] = "in_progress"
                 THEN [keyRow EXCEPT ![k] = "completed"] ELSE keyRow
    /\ run' = [run EXCEPT ![r] = IF r \in Sync THEN "done" ELSE "notify"]
    /\ UNCHANGED <<keyAge, recordVars, handler, jobVars, effects, crashes>>

\* complete() itself fails after the command took effect.
CompleteFails(r) ==
    /\ run[r] = "complete"
    /\ run' = [run EXCEPT ![r] = "failed"]
    /\ UNCHANGED <<keyVars, recordVars, handler, jobVars, effects, crashes>>

\* Routing lookup (its failure fails the job), then best-effort delivery.
Notify(r) ==
    /\ run[r] = "notify"
    /\ \E outcome \in {"done", "failed"} : run' = [run EXCEPT ![r] = outcome]
    /\ UNCHANGED <<keyVars, recordVars, handler, jobVars, effects, crashes>>

-----------------------------------------------------------------------------
\* The BullMQ worker

TakeJob(r) ==
    /\ job[r] = "waiting"
    /\ Cardinality({s \in Requests : job[s] = "active"}) < Concurrency
    /\ job' = [job EXCEPT ![r] = "active"]
    /\ run' = [run EXCEPT ![r] = "call"]
    /\ UNCHANGED <<keyVars, recordVars, handler, stalls, attempts, effects, crashes>>

JobSucceeds(r) ==
    /\ job[r] = "active"
    /\ run[r] = "done"
    /\ job' = [job EXCEPT ![r] = "completed"]
    /\ run' = [run EXCEPT ![r] = "none"]
    /\ UNCHANGED <<keyVars, recordVars, handler, stalls, attempts, effects, crashes>>

\* Jobs are added without an attempts option, so BullMQ never retries one; the
\* failed event dead-letters it only if attemptsMade has reached maxRetries.
FailJob(r) ==
    /\ attempts' = [attempts EXCEPT ![r] = @ + 1]
    /\ job' = [job EXCEPT ![r] = "failed"]
    /\ run' = [run EXCEPT ![r] =
                  IF attempts[r] + 1 >= MaxRetries THEN "deadletter" ELSE "none"]

\* Faulty variant: the promise is not awaited, its failure is never heard of.
JobThrowsUnheard(r) ==
    /\ job[r] = "active"
    /\ run[r] = "failed"
    /\ UNCHANGED vars

JobThrows(r) ==
    /\ job[r] = "active"
    /\ run[r] = "failed"
    /\ FailJob(r)
    /\ UNCHANGED <<keyVars, recordVars, handler, stalls, effects, crashes>>

\* BullMQ's stalled-job check: an active job without a worker goes back to the
\* queue, or fails when that has happened too often.
Stalled(r) ==
    /\ job[r] = "active"
    /\ run[r] = "none"
    /\ stalls' = [stalls EXCEPT ![r] = @ + 1]
    /\ IF stalls[r] < MaxStalledCount
       THEN /\ job' = [job EXCEPT ![r] = "waiting"]
            /\ UNCHANGED <<run, attempts>>
       ELSE FailJob(r)
    /\ UNCHANGED <<keyVars, recordVars, handler, effects, crashes>>

\* handleDeadLetter: UPDATE ... WHERE id = executionId, then best-effort delivery.
DeadLetter(r) ==
    /\ run[r] = "deadletter"
    /\ deadLettered' = IF record[KeyOf[r]] = r
                       THEN deadLettered \cup {r} ELSE deadLettered
    /\ run' = [run EXCEPT ![r] = "none"]
    /\ UNCHANGED <<keyVars, record, forgotten, handler, jobVars, effects, crashes>>

-----------------------------------------------------------------------------
\* Time, retention, purge and crashes

\* Nobody in the process is working on the key.
Quiet(k) ==
    \A r \in Requests : KeyOf[r] = k => handler[r] \notin Waiting /\ run[r] = "none"

\* The five minutes of the claim pass, even while its holder still works.
Expire(k) ==
    /\ keyRow[k] # "absent"
    /\ keyAge[k] = "live"
    /\ keyAge' = [keyAge EXCEPT ![k] = "expired"]
    /\ UNCHANGED <<keyRow, recordVars, handler, run, jobVars, effects, crashes>>

\* Fourteen days pass: no handler and no run lasts as long.
Age(k) ==
    /\ keyAge[k] = "expired"
    /\ Quiet(k)
    /\ keyAge' = [keyAge EXCEPT ![k] = "aged"]
    /\ UNCHANGED <<keyRow, recordVars, handler, run, jobVars, effects, crashes>>

\* purgeExpiredIdempotencyKeys deletes by expires_at alone, whatever the status.
PurgeExpiredKeys ==
    LET old == {k \in Keys : keyAge[k] = "aged"} IN
    /\ old # {}
    /\ keyRow' = [k \in Keys |-> IF k \in old THEN "absent" ELSE keyRow[k]]
    /\ keyAge' = [k \in Keys |-> IF k \in old THEN "live" ELSE keyAge[k]]
    /\ UNCHANGED <<recordVars, handler, run, jobVars, effects, crashes>>

\* The records of the keys in K are deleted.
DeleteRecords(K) ==
    /\ record' = [k \in Keys |-> IF k \in K THEN NoRequest ELSE record[k]]
    /\ forgotten' = forgotten \cup {r \in Requests : KeyOf[r] \in K /\ record[KeyOf[r]] = r}

\* purgeExpiredExecutions, ninety days on: of the statuses it selects, only
\* 'dead_lettered' is ever written.
PurgeExpiredExecutions ==
    LET old == {k \in Keys : record[k] \in deadLettered /\ Quiet(k)} IN
    /\ old # {}
    /\ DeleteRecords(old)
    /\ UNCHANGED <<keyVars, deadLettered, handler, run, jobVars, effects, crashes>>

\* purgeUserCommandExecutionsAndKeys: one statement removes the user's records
\* and the keys those records name, with work on them possibly in flight.
PurgeUser(u) ==
    LET mine == {k \in Keys : Owner[k] = u /\ record[k] # NoRequest} IN
    /\ mine # {}
    /\ DeleteRecords(mine)
    /\ keyRow' = [k \in Keys |-> IF k \in mine THEN "absent" ELSE keyRow[k]]
    /\ keyAge' = [k \in Keys |-> IF k \in mine THEN "live" ELSE keyAge[k]]
    /\ UNCHANGED <<deadLettered, handler, run, jobVars, effects, crashes>>

\* The process dies: handlers and runs are gone, rows and jobs stay.
Crash ==
    /\ crashes < MaxCrashes
    /\ crashes' = crashes + 1
    /\ handler' = [r \in Requests |-> IF handler[r] \in Waiting THEN "dead" ELSE handler[r]]
    /\ run' = [r \in Requests |-> "none"]
    /\ UNCHANGED <<keyVars, recordVars, jobVars, effects>>

-----------------------------------------------------------------------------
HandlerStep(r) ==
    \/ Check(r) \/ Reclaim(r) \/ Claim(r) \/ InsertRecord(r) \/ DuplicateRecord(r)
    \/ Enqueue(r) \/ SyncReturns(r) \/ Recheck(r) \/ StoreFails(r)

RunStep(r) ==
    \/ CallSucceeds(r) \/ CallFails(r) \/ CompleteKey(r) \/ CompleteFails(r) \/ Notify(r)

WorkerStep(r) ==
    TakeJob(r) \/ JobSucceeds(r) \/ JobThrows(r) \/ Stalled(r) \/ DeadLetter(r)

Environment ==
    \/ \E k \in Keys : Expire(k) \/ Age(k)
    \/ PurgeExpiredKeys
    \/ PurgeExpiredExecutions
    \/ \E u \in Users : PurgeUser(u)
    \/ Crash

Next ==
    \/ \E r \in Requests : Arrive(r) \/ HandlerStep(r) \/ RunStep(r) \/ WorkerStep(r)
    \/ Environment

Spec == Init /\ [][Next]_vars

\* Node's event loop and BullMQ keep scheduling work that is ready, every fetch
\* ends (undici's timeouts) and the stalled-job check keeps running. Clients,
\* time, purges and crashes owe nothing.
Fairness == \A r \in Requests : WF_vars(HandlerStep(r) \/ RunStep(r) \/ WorkerStep(r))

FairSpec == Spec /\ Fairness

-----------------------------------------------------------------------------
\* Properties

\* Two requests of one key both reach MonicaHQ only if the record of one was
\* deleted in between. The key store does not ensure it (a claim can be taken
\* over from a slow holder, a key is purged after fourteen days): the unique
\* column of command_executions does.
AtMostOnce ==
    \A r, s \in Requests :
        (r # s /\ KeyOf[r] = KeyOf[s] /\ effects[r] > 0 /\ effects[s] > 0)
            => {r, s} \cap forgotten # {}

CallBudget == [r \in Requests |-> IF r \in Sync THEN 1 ELSE 1 + MaxStalledCount]

\* A synchronous command calls MonicaHQ at most once whatever fails after it, a
\* queued one once more per time BullMQ gives the job of a dead worker back.
BoundedCalls == \A r \in Requests : effects[r] <= CallBudget[r]

\* A client is told "completed" only about a command that took effect, although
\* the answer may come from another request's row or after a purge of that row.
SuccessIsTruthful ==
    \A r \in Requests :
        handler[r] = "completed" => \E s \in Requests : KeyOf[s] = KeyOf[r] /\ effects[s] > 0

\* The scheduler keeps the promises of CommandLedger.
Ledger == INSTANCE CommandLedger WITH
    opened <- {r \in Requests : record[KeyOf[r]] = r \/ r \in forgotten},
    told   <- {r \in Requests : handler[r] = "completed"},
    Budget <- CallBudget

ImplementsLedger == Ledger!Spec

\* Every request is answered or lost with the process, whatever the stores, the
\* other requests, MonicaHQ and the purges do meanwhile, and a queued job ends
\* although its worker may die while running it: again and again nobody waits.
WorkSettles ==
    []<>(\A r \in Requests : handler[r] \notin Waiting /\ job[r] \notin {"waiting", "active"})

\* "Expired in_progress keys are reclaimable to guard against crashed workers"
\* (packages/idempotency/src/store.ts): a request is not turned away because
\* of a claim that has expired.
ExpiredClaimsYield ==
    [][\A r \in Requests :
          (handler[r] = "check" /\ Reclaimable(KeyOf[r])) => handler'[r] # "busy"]_vars

\* "Failed jobs are dead-lettered ... after retry budget is exhausted"
\* (service-architecture.md): a failed job does not end without it.
FailedJobsDeadLettered ==
    \A r \in Requests : job[r] = "failed" ~> r \in deadLettered \cup forgotten

=============================================================================
