# Verification of Monica Companion

TLA+ models of the parts of Monica Companion in which processes, databases,
MonicaHQ, Telegram and users meet, TLC runs over small instances of them, and
TLAPS proofs for every instance. Source paths are relative to the repository's
root.

## 1. The system

A Telegram user talks to an LLM agent that reads and changes his MonicaHQ
account and sends him reminders.

```
Telegram -> telegram-bridge -> ai-router -> scheduler -> monica-integration -> MonicaHQ
                |  \               |            |  \
                |   voice-transcription         |   delivery -> telegram-bridge -> Telegram
                +-> user-management <- web-ui   +-> user-management
```

| Component | State | Operations | Hard behaviour | What makes it correct |
|---|---|---|---|---|
| scheduler: commands (`services/scheduler`, `packages/idempotency`) | `idempotency_keys`, `command_executions`, BullMQ queue | execute (synchronous or queued), worker, dead-letter, retention, user purge | requests of one key race over three statements; claims expire under their holder; crashes anywhere; stalled jobs; purges under running commands | a command takes effect at most once; no false success; every request and job ends |
| ai-router: conversation (`services/ai-router/src/agent`) | one row per user: messages and pending tool call | process event (text, voice, confirm, cancel, edit), clear, sweep | the row is read, then LLM and scheduler are awaited, then it is overwritten; several events at once; old buttons; lost answers; failures between execution and save | only confirmed commands execute, once; history agrees with what happened; dead buttons stay dead |
| ai-router: transcript, window and repair (`agent/loop.ts`, `history-repository.ts`) | the same row, as messages | agent loop, callback loop, `saveHistory`, `repairHistory` | turns overwrite each other; a window cut inside a tool call; a call saved apart from its message | the LLM is never asked with a tool call that has no result |
| ai-router: contact resolution (`contact-resolution/`) | none | resolve a name, search | ties, equal scores, listings in any order | what resolves is clearly ahead of the rest |
| user-management: setup and disconnect | `setup_tokens`, `users`, audit rows | issue, validate, consume (with onboarding), cancel, disconnect | overlapping transactions, double submission, a form in flight during disconnect, lock order | one working link; single use; credentials only with consumption; disconnect is final |
| user-management: purge | `data_purge_requests` | sweep: reset, claim, fan out, mark | overlapping sweeps, stale claims, retries, answers not looked at | a completed purge was answered by everybody; every request ends |
| scheduler: reminders | `reminder_windows`, two queues | poll, catch up, execute | crash between row and job, duplicate polls, clock changes, cadence | one job per window; nothing skipped that was in time |
| delivery | `delivery_audits` | deliver, purge | failure between sending and recording; nobody looks at the answer | a digest is shown a bounded number of times |
| guardrails (`packages/guardrails`) | Redis counters | kill switch, rate, budget, concurrency | check-then-act in two round trips, charge before reject, entries that time out | the budget holds; slots come back |
| telegram-bridge | Redis update ids | webhook, handlers, send | redelivered updates, restart after marking, clients that stop waiting | an update is handled once, and ends |
| voice-transcription | none | transcribe, with one retry | behind the guardrails, answers 200 for failures | a transcription is admitted before it is used |
| monica-api-lib, monica-integration | none (the account is in MonicaHQ) | retried calls, pages, read-then-PUT updates | retry of a POST whose answer was lost; two updates of one contact; pages that shift | answers are true; a field is lost only to an overlap |
| web-ui, auth, observability, redaction, types, scripts | none that outlives a request | | | not modelled, see section 8 |

Interactions: services call each other over HTTP with signed tokens. ai-router
calls the scheduler synchronously (`suppressDelivery`), so the answer of
`POST /internal/execute` is the tool result the LLM sees. The scheduler and
user-management share nothing but user ids; the purge and the disconnect reach
the other services by HTTP. ai-router and voice-transcription share one Redis
for the guardrails and one budget.

## 2. Modules

| Module | Models | State and actions |
|---|---|---|
| `CommandLedger` | the scheduler's promise, abstractly | records per key; Open, Apply, Tell, Erase |
| `CommandExecution` | the scheduler's execution path | one action per statement or network call of `routes/execute.ts`, `store.ts`, `command-worker.ts`, `index.ts`, `dead-letter.ts`, `retention/` |
| `ConversationLoop` | one user's commands in ai-router, on top of `CommandLedger` | `pending` and `notes` are the row; a handler is at one of its awaits |
| `ConfirmedCommands` | `CommandExecution` below the handlers of `ConversationLoop` | their actions; what was posted may arrive, answers may be heard, a disconnect |
| `AgentTranscript` | the same row as messages, tool calls and results | one action per stretch between two calls of the LLM |
| `ContactResolution` | matcher, resolver, `search_contacts` | a query and a listing give an answer |
| `SetupLinks` | what setup links promise, abstractly | requests that take effect at one instant: Ask, Find, Issue, Consume, Refuse, Cancel, Disconnect, Fail |
| `SetupTokens` | setup links, onboarding and disconnect of one user | committed rows, and for each open transaction the rows it has changed; one action per SQL statement |
| `Delivery` | `POST /internal/deliver` and `POST /internal/send` below it | audit, send, record; the connector goes on by itself |
| `Reminders` | polls, windows and reminder jobs of one user, above `Delivery` | one action per statement or call |
| `DataPurge` | sweeps over `data_purge_requests` | one action per statement or DELETE |
| `UserData` | `Reminders` and `DataPurge` together | a DELETE that reaches a service erases what is modelled there |
| `MonicaOperations` | monica-integration's routes, monica-api-lib's retries, the account | request and attempts; an attempt may be carried out late |
| `Guardrails` | `guardrailMiddleware` on Redis | one action per call of Redis |
| `TelegramIntake` | telegram-bridge's webhook and handlers, in front of `Guardrails` | one action per await of a handler |
| `MC...` | TLC instances | constants, starting states, symmetry |
| `..._proofs` | TLAPS proofs | inductive invariants and theorems |

How they compose:

- `CommandExecution` implements `CommandLedger` (checked and proved).
  `ConversationLoop` does not repeat the scheduler: it INSTANCEs `CommandLedger`
  and adds to it who may send a request and who hears the answer. What it
  concludes about effects rests only on what the scheduler is shown to promise.
- `ConfirmedCommands` puts the scheduler there is under that conversation: it
  EXTENDS `CommandExecution` and takes the handlers' actions from an INSTANCE of
  `ConversationLoop`, which the two together implement (checked and proved).
- `MonicaOperations` implements `CommandLedger` as well (checked and proved), one
  level below the scheduler: a request is a key of its own and its budget the
  attempts of withRetry. Where `CommandExecution` counts a call that may have
  taken effect, `MaxRetries + 1` attempts may have done so.
- `SetupTokens` implements `SetupLinks` (checked and proved): a request that
  spreads over several statements, waits and rechecks takes effect when its
  transaction commits, as a whole or not at all, and its answer is true.
- `Reminders` EXTENDS `Delivery`; `UserData` EXTENDS `Reminders` and `DataPurge`.
  Each component's specification is written with an environment (`Purge` of the
  windows; services that answer), and `UserDataImplements` proves that the
  composition implements both, so that each component's theorems carry over.
- `TelegramIntake` EXTENDS `Guardrails`: a handler's calls of
  voice-transcription and ai-router are the guarded requests, which go on when
  the handler has stopped waiting.
- `ConversationLoop` and `AgentTranscript` see the same handlers at two grains:
  the first what commands do, the second what the LLM is shown.

Operators whose comment starts with "Faulty variant" are the code with one
plausible mistake. Nothing uses them; replacing the operator below each of them
by it must break the property that is there to catch the mistake.

### CommandExecution

A request walks `check -> reclaim -> claim -> record -> enqueue | process ->
recheck`; each name is an await of the handler. `run` is where
`processCommandJob` is (`call`, `complete`, `notify`), in the handler for
synchronous requests and in the worker for queued ones. `keyAge` abstracts
`expires_at` to live, expired and expired by the retention period. A failed
`complete()` or routing lookup fails the job although the command took effect.
The status column is only ever written `queued` and `dead_lettered`, hence
`deadLettered`; retention deletes accordingly. A failing UPDATE in
`handleDeadLetter` rejects inside an event handler and ends the process, which
is `Crash`. `IdempotencyStore.release` is called by nobody and has no action.

`effects` counts calls to monica-integration that may have taken effect. One
such call may reach MonicaHQ several times, since `withRetry` repeats POST
requests too; that is in `MonicaOperations`, and the reason why `AtMostOnce` is
a statement about the scheduler.

### ConversationLoop

Messages are reduced to what they say about proposed commands: `notes` holds
pairs of a command and an ending. `draft[h]` is what handler h will save: the
notes it read and its own. `saveHistory` replaces both columns unconditionally
and cuts old messages, so `Save` keeps any subset. `Abort` is every path on
which nothing is saved. The guardrails bound how many handlers run at once;
since their gate is not exact, the theorems hold for every `MaxConcurrent`.

### ConfirmedCommands

A request of the scheduler is a pair of a command and the handler that confirmed
it; the others are of other users. It arrives after `Send`, at any later time or
never, and its handler may have given up by then (`NotExecuted`, the abort after
ten seconds); "completed" reaches the loop only through `HearsCompleted`.

`ConversationLoop` assumes a scheduler that never deletes the record of a
command, and the real one does delete: retention only what was dead-lettered,
which no synchronous command is (`DeadInv`), but a purge of the user everything,
work in flight included. A command confirmed twice around the purge would have
two records. What prevents a second effect is that the purge comes thirty days
after a disconnect, which took the credentials away: `Purgeable` and `Runs`
state the two halves, and with `PurgeableAtOnce` the refinement fails. A known
user gets no new setup link from `/start`, so credentials do not come back. `Revoke`
is the moment when the last call that still had them is over; such calls last
seconds, not days. One order is left out: a `/start` whose lookup found nobody,
and whose link is issued only after the same user has been onboarded and
disconnected, could restore them (see also `DisconnectRevokes`).

`opener` is a history variable. It stands for the record of the ideal scheduler:
the first request a command had a record of, which stays when the row is deleted.

### AgentTranscript

`messages` and `pending` are the row; `work[h]` the messages handler h has in
memory. The LLM answers anything: text, or any sequence of tool calls. A
message that proposes a command is not saved with the turn: it is kept with its
other results in `pending`, and appended, with the results, by whichever handler
finds it pending. The run and the proofs are about the three places where that
could go wrong: the last save wins, the window cuts anywhere, and the handlers
for buttons build on what they have read.

What the model shows of the window: a cut leaves results without their call at
the beginning, and only there. An LLM API that refuses such a conversation
refuses every later request until new messages or `/clear` push them out, and
`repairHistory` would not help, since it looks for calls without results, of
which there are none (`RepairFindsNothing`). That `handleCallback` is returned
without an await, so that its failures bypass the repair, is harmless for the
same reason. RepairHistory reads and saves in one action.

### ContactResolution

Texts are atoms with their normal form, their words and a prefix relation. Scores
are in hundredths; the code's floating-point gaps 1.0 - 0.9 and 0.9 - 0.8 are
below its threshold of 0.1, which the strict comparison of `Leads` stands for.
`Order` is a sorted order of the matching positions, which is what any correct
sort returns; that it exists, and that no other ranks differently, is proved. A
listing may contain a contact twice (pages shift): it then competes with itself
and the text is ambiguous. The resolver's last branch, no_match for low scores,
is never taken, since matches score 0.6 or more.

### SetupTokens

READ COMMITTED is modelled as PostgreSQL documents it: an UPDATE takes the rows
of its snapshot (`Scan`), waits for those another transaction has changed, and
rechecks the condition on what it then finds (`Update`); an INSERT waits for
conflicting entries of the partial unique index and fails if one is committed.
`Commit` publishes, `Rollback` discards. drizzle rolls back on an exception and
commits on any return, hence `InvalidUrl`. The UPDATE compares `expires_at` with
the transaction's start, which precedes the check the code has made already, so
expiry is looked at once. The users row is revoked, never deleted, by a
disconnect; a later /start finds it and issues no link.

`SetupLinks` knows no transactions: of a request it keeps what it asks for and
its answer (`answered` is "open" while statements are under way). What it leaves
visible is the snapshot. A cancellation or disconnect ends the links there were
when its UPDATE began, and a link issued after that, yet before the answer,
survives it.

### Reminders, Delivery, DataPurge and UserData

Time is counted in hours, so `Tick` waits for polls, runs and deliveries that
are under way, while jobs may wait for any time. `Firing[d]` is the instant at
which the clock of the user's zone shows the reminder time on day d; days are a
change of clocks longer or shorter than others. `Due` is what
`checkCatchUpWindow` computes, including that it ignores the cadence. The
poller's branch for the current window (reminder-poller.ts:78-102) is dead,
because `computeNextFiringUtc` never returns a time that has passed; every
window is found by the catch-up. A failed reminder job is never retried
(`context/product/acceptance-criteria.md:51` asks for retries with backoff), and
windows that were sent are never cleaned up, since the cleanup looks for
`fired`. Disconnected users keep being polled.

In `Delivery`, the connector renders as Markdown and, if that fails, as plain
text; a confirmation may be lost, so both may be shown. Nobody looks at the
answer: the scheduler marks the window sent, delivery audits what the connector
refused as delivered.

In `DataPurge` a sweep resets, claims, and asks each service; a DELETE whose
answer is not heard may be carried out later, also after its request was given
up. `CompletedWasAsked` says what the code ensures, which is less than that the
data is gone: a service that answered 500 has answered.

### MonicaOperations

A repeated GET changes nothing, so a read is one action at the time of its last
attempt. A write has an attempt number, attempts on the `wire`, and those
`carried` out; an attempt given up stays on the wire. Updates read the contact
first and write all of it back. Whether a PUT without a birthdate erases it is
MonicaHQ's: `Birthdates` allows both for the update and erases it for the
nickname's, which says `is_birthdate_known: false`. Genders, field types and
contents are abstracted. The body of an answer is read without a timeout.

### Guardrails and TelegramIntake

The kill switch, entries of the rate limit that left their window, the end of a
month and the age of a deduplication key show when a request looks. The budget
is charged before the gate refuses and never refunded. A call of Redis that
fails may have been carried out. The handler goes on when its caller has stopped
waiting. The release in `finally` may fail; the 503 that the middleware returns
then comes after Hono has the handler's answer, which stands (Hono drops a
response returned once `next()` has finalized the context), so `verdict` stays
what the handler said and a refused request was never handled: the last part of
`HandledOnce`. In webhook mode a failed user lookup ends without a word
to the user (`bot.catch` is in the polling mode only). The gate counts slots in
one call and adds its own in another, so it may be exceeded: nothing in the
repository says otherwise, and nothing here relies on it.

## 3. Runs

| Run | Instance | Shows |
|---|---|---|
| `command_execution` | 1 key with a synchronous and a queued request, 2 crashes; besides, 1 command, 3 handlers, a crash or a disconnect; dead-letter budget 1, fair | `AtMostOnce`, `ImplementsLedger` (with the bound on calls), `FollowsLoop`, `WorkSettles` |
| `command_expired_claim` | 2 synchronous requests, 1 crash | violation: `ExpiredClaimsYield` |
| `command_dead_letter` | 1 queued request, budget 3 (default), fair | violation: `FailedJobsDeadLettered` |
| `conversation_loop` | 2 commands, 4 events, 2 at a time | `OnlyConfirmedExecutes`, `OneEffect`, `SuccessNotesTruthful`, `OneOutcome`, `NoResurrection` |
| `conversation_cancelled` | 1 command, 3 events, one at a time | violation: `CancelledNeverExecuted` |
| `agent` | 2 requests, 3 tool calls, window 4; besides, 14 texts and every listing of up to 3 of 4 contacts | `TranscriptsPaired`, `RepairFindsNothing`, `ResolvedIsClear` |
| `setup_tokens` | 2 links, 3 requests, from the beginning and from a connected account, fair | `AtMostOneActive`, `CredentialsFromConsumedToken`, `DisconnectRevokes`, `LinksTakeEffectAtOnce` (the steps of `SetupLinks`), `TransactionsEnd` |
| `setup_tokens_refused` | 2 requests | violation: `RefusedKeepsToken` |
| `user_data` | 2 polls, their jobs and deliveries, 1 stall, 1 crash; 1 purge request, 2 sweeps, 2 retries, 1 fault; fair | `QueuedOnce`, `CatchUpAccounted`, `SentWasAnswered`, `DigestsBounded`, `SkippedWasMissed`, `RetriesBounded`, `CompletedWasAsked`, `RemindersEnd`, `PurgesEnd` |
| `reminders_weekly` | 2 polls, weekly cadence | violation: `SkippedWasMissed` |
| `monica_operations` | 2 requests of every kind, 2 attempts each, 2 contacts, pages of 1 | `AnswersTruthful`, `LostOnlyToOverlap`, `ListingsComplete`, `KeepsLedger` |
| `intake` | 2 deliveries of 3 updates (text, voice, command), 2 failures, budget 3, gate 1, rate 1, 2 months, fair | `AdmittedWithinBudget`, `HandledOnce`, `UpdatesEnd` |

Every passing run also checks the type invariant of its module.

**Bounds.** Keys do not interact in the scheduler except through the worker's
slots, so `command_execution` need not mix them: the requests of others run, with
two crashes, one in the first run of a job and one in its repetition
(`maxStalledCount` is 1); or, after one crash that finds nothing to do, the
conversation runs with what is left (`OneAtATime`, which no step that fairness
requires can break). A holder of the claim and a challenger that takes it over
are the least for the scheduler's races, and three handlers the least that
propose a command and confirm it twice; `InOrder` names them in the order in which
they start. In `ConversationLoop`, two commands are the least with an old and a new button,
and four events the least for propose, confirm, a competing event and a second
proposal. A disconnect can meet a consumption only when a second link was issued
before the account was connected, which is `ConnectedInit`, a state `Init` leads
to with two transactions that have ended.

In `agent`, a window of four is shorter than a turn with one tool call, so that
every cut occurs; three calls, two in one message, let a pending call have
results of its own and a second handler propose another. In `user_data`, two
polls are the least that can repeat a window; the run starts from four states
that `UserDataInit` leads to (`TwoPolls`, `PurgeAndCrash`, `PurgeBetween`,
`PurgeAlone`), because purges, crashes and sweeps at once with both polls are too
many states. Days have four units, three and five around changes of clocks, and
a catch-up of two. In `monica_operations`, two requests overlap in every way two
can, and a page of one contact is the smallest that lets a listing shift. In
`intake`, the budget of three pays for one voice message or three texts; two
failures allow one while taking and one while releasing a slot.

Requests, commands, links, polls and deliveries are used once; that alone makes
the runs finite, and where more is counted the bound is a named constant
(`MaxCrashes`, `MaxFaults`, `MaxFailures`, `MaxStalls`, `Horizon`, `MaxMonths`).
Symmetry is used in the runs without liveness only. Deadlock is not checked: every
run stops when its requests are used up.

**Fairness.** `CommandExecution`: weak fairness of each request's handler, run
and worker steps together. It stands for Node's event loop, fetch timeouts,
BullMQ's worker and its stalled-job check; clients, clocks, retention, purges
and crashes owe nothing. `SetupTokens`: weak fairness of each transaction's
next statement and of PostgreSQL's deadlock detector. Lock waits end because
only finitely many transactions exist; PostgreSQL queues waiters. `Reminders`:
weak fairness of each job's steps, which end by a timeout at last; polls and
deliveries owe nothing. `DataPurge`: weak fairness of each sweep (the timer
fires, awaited calls end) and of the passing of time that makes requests due and
claims stale; services owe nothing. `TelegramIntake`: weak fairness of the
handlers, of guarded requests (Redis, the LLM client and Whisper's answer or
time out) and of the expiry of slots. No strong fairness is assumed anywhere.

## 4. Where code and documents differ

1. `command_expired_claim`: `store.ts` says expired claims are reclaimable to
   guard against crashed workers. `execute.ts` answers 409 for every
   `in_progress` key first, so a retry of a crashed command is refused for
   fourteen days. Only a request that was already past the check reclaims.
2. `command_dead_letter`: no job has an `attempts` option, `attemptsMade` ends
   at 1, and the dead-letter handler waits for 3. Failed commands are neither
   retried nor dead-lettered, and the user is not told.
3. `conversation_cancelled`: the pending command is cleared by the save after
   the LLM call that follows execution. If that call fails, the executed command
   stays pending, and Cancel records it as "cancelled by the user".
4. `setup_tokens_refused`: `invalid_url` leaves the transaction by an ordinary
   return and consumes the link; web-ui treats it as "Token not consumed".
5. `reminders_weekly`: for the weekly cadence the poller looks back a week and
   takes the next daily firing after that, which is six days old; every poll,
   also one in time, records the week as skipped.

## 5. Proofs

The proofs hold for every value of the constants under the modules' named
assumptions (sentinels are outside the sets they complement, bounds are positive,
costs are natural numbers, firing times grow by a day give or take a change of
clocks). None assumes fairness.

- `CommandExecution_proofs`. `IInv` adds to the type invariant: nothing runs,
  waits or has taken effect for a request that never had a record
  (`RecordInv`); effects are at most stalls plus one, and at most stalls while
  a call is still ahead (`CallInv`); every trace of success (completed key,
  passed call, answer) is backed by an effect (`SuccessInv`). None of the three
  properties is inductive: `AtMostOnce` needs to know that an effect presupposes
  a record, `BoundedCalls` that a repetition was paid for by a stall. From it
  follow the invariants and `Refinement`, in which each action is an Open, Apply,
  Tell, Erase or a stutter of the ledger. `BoundedCalls` and `SuccessIsTruthful`
  have theorems and are checked as part of the refinement only.
- `CommandExecution_proofs`, the conversation on top. `ConfirmedInv` adds that a
  request the scheduler knows was sent for the command it names (`LinkInv`),
  and that, while calls have credentials, the record of a command is the first it
  had, so that only that request ever takes effect (`OpenerInv`). Inserting the
  first record is then the loop's SchedulerOpens, a call its SchedulerApplies,
  hearing "completed" its Executed; claims, crashes, deletions and later records
  are stutters (`LoopRefinement`). `OneCallHolds` is what the user gets: for a
  confirmed command `AtMostOnce` holds without its exception, and the one
  request calls once. The theorems about `ConversationLoop` are proved in a module
  of their own; that they hold of the composition is by the refinement, not by
  another machine-checked theorem.
- `ConversationLoop_proofs`. `IInv` says that the row and all drafts are well
  formed (issued commands, one ending each, success only if applied), that the
  pending command has no ending yet, that a handler which executes a command
  found it pending and confirmed, and that each effect belongs to the record of
  its command. `OneOutcome` depends on a subtle point: two handlers may draft
  different endings of one command, but a draft is never merged with another.
- `AgentTranscript_proofs`. `Inv` says of every sequence of messages there is
  (`Fit`) that calls have their results, results their call but for those at the
  beginning, and that a sequence that begins with results fills the window; and
  of a pending call that its results are those of its message. The lemmas say
  that appending and cutting off the beginning keep it; that is all the code
  does, whichever save wins.
- `SetupTokens_proofs`. `IInv` describes each open transaction: a changed row is
  an active one about to end or a new one about to become active (`RowInv`);
  a new one excludes any other, and whoever inserts it holds the row it replaces
  (`IndexInv`); who writes credentials of a token holds that token's consumed
  row (`UserInv`); a disconnect keeps the users row to its end, and at its
  commit holds every active row it saw (`DisconnectInv`). The last two make
  `DisconnectRevokes` hold: a consumption in flight either ends first and is
  revoked, or waits for the token and is refused, or is a deadlock that one of
  the two loses. `EffectInv` adds what makes a commit the effect of the whole
  request: a row is changed only by a transaction of that kind and as that kind
  changes it (`HeldInv`), a transaction that is about to commit holds every row
  its request is about, or as many of those it saw as still work (`DoneInv`), and
  the users row is written with the token's (`WriterInv`). Each statement is then
  a stutter of `SetupLinks`, or its Find, and each commit one of its steps
  (`EffectAtOnce`, `Refinement`). That a link never works again once it has ended
  (`TerminalStatesHolds`) is proved too, but no longer checked by a run, as it
  follows from the refinement.
- `ContactResolution_proofs`. `ResolutionSpec` has one kind of step, so the work
  is in the lemmas: a finite set can be sorted by any total and transitive
  relation (`SortedExists`, from the smallest set that could not), and two sorted
  lists of it agree place by place (`SortedAlike`, by the pigeonhole principle).
  The order of a swapped listing, with its positions swapped back, sorts the
  original one, so `Outcome` is the same (`SwappedRanking`). It is assumed that
  ids identify contacts and that the resolver offers no more than the search
  shows (5 and 10 in the code).
- `UserData_proofs`, the purge. `RetriesBounded` is a bound on a counter that several
  sweeps raise. `PurgeInv` finds what pays for it: once a request has used up
  its retries nobody takes it any more, and the sweeps that still hold it
  (`Holders`) are counted in the bound, by cardinalities of finite sets.
- `UserData_proofs`, reminders. `IInv` ties each job to the era of its window, that is, to
  the number of purges before it (`OnceInv`); the messages shown to the stage of
  the connector (`DigestInv`); and what is skipped to the time that has passed
  (`SkipInv`, for the daily cadence only, as `reminders_weekly` shows that it
  must be). `UserDataImplements` lifts it all to the composition.
- `MonicaOperations_proofs`. `IInv` says which attempts a request in a phase may
  have on the wire or carried out, that none is carried out twice, what an
  answer that was heard proves, and that a field is lost to an overlap from the
  moment an update is carried out (`FieldInv`), not only once it is answered,
  which is what makes `LostOnlyToOverlap` inductive. `ListInv` adds, for
  `ListingsComplete`, that a listing in progress has collected nothing that is
  still ahead of it, and that whatever it must hold is behind or ahead; it rests
  on the account listing a contact once (`MonicaAssumption`), which inserting,
  removing and cutting into pages keep. `Refinement` maps each step to the
  ledger: that an attempt is carried out is an Apply, which the number of
  attempts left to carry out permits (`CarriedCount`).
- `TelegramIntake_proofs`. `BudgetInv` says that a request past the budget has
  paid in its month and a handled one does not go back before it; INCRBY's
  answer then bounds the sum, however many requests are between read and charge.
  `HandedInv` says of a delivery that got past deduplication, as long as it or a
  request of it shows, that its update is remembered or excused, and what its
  handler knows when it goes on; `GuardHandled` says that a refused request is
  over and was not handled. `HandledOnce` follows from both invariants.

Each proof has a lemma per action (or per part of the invariant with a step per
action), and a leaf names the definitions it unfolds. TLC was run on each
inductive invariant before it was proved.

Only model-checked: liveness (`WorkSettles`, `TransactionsEnd`, `RemindersEnd`,
`PurgesEnd`, `UpdatesEnd`), which is beyond the proof system, and that the five
documented claims of section 4 fail.

## 6. Hazards

PROJECT.json lists, with its line, what is hard to test here, and the properties
that would catch it going wrong. One has no property: the concurrency gate may be
exceeded by requests that arrive together, which the model includes and no
document forbids. Of nine others the properties catch only a part, because the
model does what the code does and no document of the repository forbids it; the
`note` of each says what is permitted:

| Hazard | Permitted by the properties |
|---|---|
| nickname's PUT (`routes/write.ts:158`, 377) | a birthdate erased without any overlap |
| overlapping messages (`agent/loop.ts:331`) | the turn of the handler that saves first is lost |
| abandoning while executing (`agent/loop.ts:725`) | an executed command noted as abandoned |
| the sliding window (`agent/history-repository.ts:42`) | results whose call was cut off |
| purge calls (`purge/executor.ts:74`), reminders (`reminder-executor.ts:69`), delivery (`app.ts:107`) | an error answer counts as an answer |
| a poll that dies (`reminder-poller.ts:135`) | a reminder lost, accounted for by the failed poll |
| deduplication (`webhook-handler.ts:22`) | a redelivery dropped after a restart |

Three more were found that no model here tells apart from correct behaviour:

- `lib/schedule-time.ts:67` formats with `hour12: false`, which writes midnight as
  24 o'clock: reminder times between 00:00 and 00:59 match no candidate and are
  moved as if the clocks skipped them. Zones with quarter-hour offsets match
  no candidate either, as these lie half an hour apart.
- `workers/reminder-poller.ts:52`: one user whose schedule cannot be computed
  ends the poll for every user after him.
- `packages/guardrails/src/budget-tracker.ts:37` rounds costs to whole cents, so
  a request of less than half a cent is free.

## 7. What could come next

1. `TelegramIntake` with `ConversationLoop` in place of its opaque agent, so
   that a redelivered confirmation meets the scheduler's ledger.
2. Purges of ai-router's history and of the scheduler's commands in `UserData`
   (they are in `CommandExecution`, with a purge as its environment), so that the
   days of grace between disconnect and purge are a theorem and not a guard.
3. Abstract specifications of what reminders, purges and intake promise.

## 8. Not modelled, and why

- web-ui renders the setup form and forwards it; auth signs and verifies tokens
  without state; observability, redaction and types are logging, wording and
  schemas; the benchmark, load and smoke scripts run beside the system.
- telegram-bridge: polling mode (without deduplication), the webhook's rate limit
  by address (a refused request is an update not delivered), and what replies
  say.
- voice-transcription: audio fetched by URL, which telegram-bridge never asks for.
- monica-api-lib: validation of URLs and of the answers' schemas.
- delivery: the periodic retention of audits, and connectors but Telegram's.
- `IdempotencyStore.release`, which nobody calls.
- Tests, migrations, Docker files and the documents under `context/`.

In what is modelled, payloads, prompts, results, logs and metrics are
abstracted, and read-only tools are part of thinking.
