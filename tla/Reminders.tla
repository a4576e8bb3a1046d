------------------------------ MODULE Reminders ------------------------------
(***************************************************************************)
(* The reminders of one user (scheduler): polls that look back one period, *)
(* record the window they find in reminder_windows and queue a job for it, *)
(* and the jobs that fetch a digest and send it through delivery.          *)
(*                                                                         *)
(* Time is counted in units of hours, so a poll, a run of a job and a      *)
(* delivery end within one; a job may wait for any time. Firing[d] is the  *)
(* instant at which the clock of the user's timezone shows the reminder    *)
(* time on day d: days are a clock change longer or shorter than Day.      *)
(* Day 1 lies a period before the beginning.                               *)
(***************************************************************************)
EXTENDS Delivery, Sequences, FiniteSets

CONSTANTS
    Polls,        \* runs of pollReminders; each queues at most one job
    Weekly,       \* the user's cadence is weekly, not daily
    Day,
    DaysPerWeek,
    Shift,        \* the largest change of the clocks
    CatchUp,      \* CATCH_UP_WINDOW_HOURS
    Retention,    \* REMINDER_WINDOW_RETENTION_DAYS
    Firing,
    MaxStalls,    \* BullMQ: times a job of a dead worker is given back
    MaxCrashes,   \* bound on crashes of the scheduler
    Horizon       \* bound on time

Days   == DOMAIN Firing
Period == IF Weekly THEN DaysPerWeek * Day ELSE Day

\* The window of a day: its date or its week, in the user's timezone.
Window(d) == IF Weekly THEN (d - 1) \div DaysPerWeek ELSE d

Windows   == {Window(d) : d \in Days}
DigestsOf(p) == {<<p, n>> : n \in 0 .. MaxStalls}   \* one per run of p's job

ASSUME RemindersAssumption ==
    /\ Weekly \in BOOLEAN
    /\ Day \in Nat /\ DaysPerWeek \in Nat \ {0} /\ Shift \in Nat
    /\ CatchUp \in Nat /\ Shift <= CatchUp /\ CatchUp < Day
    /\ Retention \in Nat /\ CatchUp < Retention
    /\ MaxStalls \in Nat /\ MaxCrashes \in Nat /\ Horizon \in Nat
    /\ Firing \in Seq(Int) /\ Firing # << >>
    /\ \A d, e \in Days : d < e => Firing[d] < Firing[e]
    /\ \A d \in Days \ {1} : Firing[d] - Firing[d - 1] \in Day - Shift .. Day + Shift
    /\ Firing[1] <= -Period /\ Firing[Len(Firing)] > Horizon
    /\ Intents = Polls \X (0 .. MaxStalls)

VARIABLES
    now,
    row,       \* reminder_windows.status of each window
    erased,    \* purges that deleted a window the user had a job for
    poll,      \* the next await of a poll, or how it ended
    pollNow,   \* what the poll took as the current time
    era,       \* erased[w] when the poll inserted its window w
    job,       \* BullMQ state of the job a poll queued
    run,       \* where executeReminder is with it
    stalls,    \* times BullMQ found the job's worker dead
    crashes

pollVars == <<poll, pollNow, era>>
jobVars  == <<job, run, stalls>>
reminderVars == <<now, row, erased, poll, pollNow, era, job, run, stalls, crashes>>
vars == <<reminderVars, deliveryVars>>

-----------------------------------------------------------------------------
Row     == {"none", "catch_up", "skipped", "sent"}
Fired   == {"catch_up", "sent"}
Polling == {"insert", "enqueue"}
JobEnds == {"completed", "failed"}
Running == {"fetch", "deliver", "mark"}

TypeOK ==
    /\ DeliveryTypeOK
    /\ now \in 0 .. Horizon
    /\ row \in [Windows -> Row]
    /\ erased \in [Windows -> Nat]
    /\ poll \in [Polls -> {"idle", "ended", "failed"} \cup Polling]
    /\ pollNow \in [Polls -> 0 .. Horizon]
    /\ era \in [Polls -> Nat]
    /\ job \in [Polls -> {"none", "waiting", "active"} \cup JobEnds]
    /\ run \in [Polls -> {"none"} \cup Running]
    /\ stalls \in [Polls -> 0 .. MaxStalls]
    /\ crashes \in 0 .. MaxCrashes

Init ==
    /\ DeliveryInit
    /\ now = 0
    /\ row = [w \in Windows |-> "none"]
    /\ erased = [w \in Windows |-> 0]
    /\ poll = [p \in Polls |-> "idle"]
    /\ pollNow = [p \in Polls |-> 0]
    /\ era = [p \in Polls |-> 0]
    /\ job = [p \in Polls |-> "none"]
    /\ run = [p \in Polls |-> "none"]
    /\ stalls = [p \in Polls |-> 0]
    /\ crashes = 0

-----------------------------------------------------------------------------
\* Windows

\* computeNextFiringUtc: the first firing after t. It is never <= t, so what the
\* poller writes under "current window" never runs and has no action here.
NextFiring(t) ==
    CHOOSE d \in Days : Firing[d] > t /\ \A e \in Days : e < d => Firing[e] <= t

Due(t)      == NextFiring(t - Period)
WindowOf(p) == Window(Due(pollNow[p]))

\* isWithinCatchUpWindow decides how the window is recorded.
StatusAt(t) == IF t - Firing[Due(t)] \in 0 .. CatchUp THEN "catch_up" ELSE "skipped"

-----------------------------------------------------------------------------
\* pollReminders

PollAt(p, from, to) ==
    /\ poll[p] = from
    /\ poll' = [poll EXCEPT ![p] = to]

\* A poll ends at once when user-management does not answer, does not list the
\* user, or no firing has passed. Errors are swallowed.
StartPoll(p) ==
    /\ \/ PollAt(p, "idle", "failed")
       \/ PollAt(p, "idle", "ended") /\ Firing[Due(now)] >= now
       \/ PollAt(p, "idle", "insert") /\ Firing[Due(now)] < now
    /\ pollNow' = [pollNow EXCEPT ![p] = now]
    /\ UNCHANGED <<now, row, erased, era, jobVars, crashes, deliveryVars>>

\* Faulty variant: the insert overwrites a row instead of ON CONFLICT DO NOTHING.
InsertReplaces(p) ==
    LET w == WindowOf(p)
    IN  /\ row' = [row EXCEPT ![w] = StatusAt(pollNow[p])]
        /\ era' = [era EXCEPT ![p] = erased[w]]
        /\ PollAt(p, "insert", IF row'[w] = "catch_up" THEN "enqueue" ELSE "ended")
        /\ UNCHANGED <<now, erased, pollNow, jobVars, crashes, deliveryVars>>

\* tryInsertWindow; only the poll whose row went in, as catch_up, queues a job.
InsertWindow(p) ==
    LET w == WindowOf(p)
    IN  /\ \/ /\ row[w] = "none"
              /\ row' = [row EXCEPT ![w] = StatusAt(pollNow[p])]
              /\ era' = [era EXCEPT ![p] = erased[w]]
              /\ PollAt(p, "insert",
                        IF StatusAt(pollNow[p]) = "catch_up" THEN "enqueue" ELSE "ended")
           \/ /\ row[w] # "none"
              /\ PollAt(p, "insert", "ended")
              /\ UNCHANGED <<row, era>>
        /\ UNCHANGED <<now, erased, pollNow, jobVars, crashes, deliveryVars>>

\* Faulty variant: a window is recorded and never queued.
EnqueueNothing(p) ==
    /\ PollAt(p, "enqueue", "ended")
    /\ UNCHANGED <<now, row, erased, pollNow, era, jobVars, crashes, deliveryVars>>

Enqueue(p) ==
    /\ PollAt(p, "enqueue", "ended")
    /\ job' = [job EXCEPT ![p] = "waiting"]
    /\ UNCHANGED <<now, row, erased, pollNow, era, run, stalls, crashes, deliveryVars>>

\* PostgreSQL or Redis fails: pollReminders swallows the error and the repeatable
\* job counts as done.
PollFails(p) ==
    /\ poll[p] \in Polling
    /\ poll' = [poll EXCEPT ![p] = "failed"]
    /\ UNCHANGED <<now, row, erased, pollNow, era, jobVars, crashes, deliveryVars>>

-----------------------------------------------------------------------------
\* executeReminder. No attempts are configured: a job that throws has failed.

Digest(p) == <<p, stalls[p]>>

RunAt(p, from, to) ==
    /\ job[p] = "active"
    /\ run[p] = from
    /\ run' = [run EXCEPT ![p] = to]

Ends(p, from, how) ==
    /\ RunAt(p, from, "none")
    /\ job' = [job EXCEPT ![p] = how]

TakeJob(p) ==
    /\ job[p] = "waiting"
    /\ job' = [job EXCEPT ![p] = "active"]
    /\ run' = [run EXCEPT ![p] = "fetch"]
    /\ UNCHANGED <<now, row, erased, pollVars, stalls, crashes, deliveryVars>>

\* monica-integration answers with reminders, with none, or not.
Fetch(p) ==
    \/ /\ RunAt(p, "fetch", "deliver")
       /\ Accept(Digest(p))
       /\ UNCHANGED <<now, row, erased, pollVars, job, stalls, crashes>>
    \/ /\ Ends(p, "fetch", "completed") \/ Ends(p, "fetch", "failed")
       /\ UNCHANGED <<now, row, erased, pollVars, stalls, crashes, deliveryVars>>

\* Faulty variant: a delivery call that throws is taken for an answer.
DeliveredAlways(p) ==
    /\ RunAt(p, "deliver", "mark")
    /\ UNCHANGED <<now, row, erased, pollVars, job, stalls, crashes, deliveryVars>>

\* The status of delivery's answer is not looked at; a timeout or a lost
\* connection throws.
Delivered(p) ==
    /\ \/ at[Digest(p)] \in Answered /\ RunAt(p, "deliver", "mark") /\ UNCHANGED job
       \/ Ends(p, "deliver", "failed")
    /\ UNCHANGED <<now, row, erased, pollVars, stalls, crashes, deliveryVars>>

\* Faulty variant: the window gets the status that the retention job looks for.
MarkFired(p) ==
    LET w == WindowOf(p)
    IN  /\ Ends(p, "mark", "completed")
        /\ row' = IF row[w] = "none" THEN row ELSE [row EXCEPT ![w] = "fired"]
        /\ UNCHANGED <<now, erased, pollVars, stalls, crashes, deliveryVars>>

\* UPDATE ... WHERE dedupe_key = windowId: nothing when the row was purged.
MarkSent(p) ==
    LET w == WindowOf(p)
    IN  /\ \/ /\ Ends(p, "mark", "completed")
              /\ row' = IF row[w] = "none" THEN row ELSE [row EXCEPT ![w] = "sent"]
           \/ Ends(p, "mark", "failed") /\ UNCHANGED row
        /\ UNCHANGED <<now, erased, pollVars, stalls, crashes, deliveryVars>>

\* Faulty variant: a job of a dead worker is forgotten.
StalledForgotten(p) ==
    /\ job[p] = "active" /\ run[p] = "none" /\ stalls[p] < MaxStalls
    /\ stalls' = [stalls EXCEPT ![p] = @ + 1]
    /\ UNCHANGED <<now, row, erased, pollVars, job, run, crashes, deliveryVars>>

\* BullMQ gives a job whose worker has died back, or fails it.
Stalled(p) ==
    /\ job[p] = "active" /\ run[p] = "none"
    /\ IF stalls[p] < MaxStalls
       THEN /\ job' = [job EXCEPT ![p] = "waiting"]
            /\ stalls' = [stalls EXCEPT ![p] = @ + 1]
       ELSE job' = [job EXCEPT ![p] = "failed"] /\ UNCHANGED stalls
    /\ UNCHANGED <<now, row, erased, pollVars, run, crashes, deliveryVars>>

-----------------------------------------------------------------------------
Crash ==
    /\ crashes < MaxCrashes
    /\ crashes' = crashes + 1
    /\ poll' = [p \in Polls |-> IF poll[p] \in Polling THEN "failed" ELSE poll[p]]
    /\ run' = [p \in Polls |-> "none"]
    /\ UNCHANGED <<now, row, erased, pollNow, era, job, stalls, deliveryVars>>

Tick ==
    /\ now < Horizon
    /\ \A p \in Polls : poll[p] \notin Polling /\ run[p] = "none"
    /\ \A i \in Intents : at[i] \notin Working /\ connector[i] \notin Rendering
    /\ now' = now + 1
    /\ UNCHANGED <<row, erased, pollVars, jobVars, crashes, deliveryVars>>

\* purgeExpiredReminderWindows: 'fired' is never written, so only skipped windows
\* are deleted. A row is not older than the firing it is for.
PurgeWindow(w) ==
    /\ row[w] = "skipped"
    /\ \A d \in Days : Window(d) = w => Firing[d] + Retention < now
    /\ row' = [row EXCEPT ![w] = "none"]
    /\ UNCHANGED <<now, erased, pollVars, jobVars, crashes, deliveryVars>>

\* DELETE /internal/users/:userId/data: all windows of the user.
EraseWindows ==
    /\ row' = [w \in Windows |-> "none"]
    /\ erased' = [w \in Windows |-> IF row[w] \in Fired THEN erased[w] + 1 ELSE erased[w]]
    /\ UNCHANGED <<now, pollVars, jobVars, crashes>>

PurgeUser ==
    \/ EraseWindows /\ UNCHANGED deliveryVars
    \/ PurgeAudits /\ UNCHANGED reminderVars

-----------------------------------------------------------------------------
PollStep(p) == InsertWindow(p) \/ Enqueue(p)

JobStep(p) == TakeJob(p) \/ Fetch(p) \/ Delivered(p) \/ MarkSent(p) \/ Stalled(p)

RemindersOwn ==
    \/ \E p \in Polls : StartPoll(p) \/ PollStep(p) \/ PollFails(p) \/ JobStep(p)
    \/ \E i \in Intents : (DeliveryStep(i) \/ Render(i) \/ HandlerLost(i)) /\ UNCHANGED reminderVars
    \/ \E w \in Windows : PurgeWindow(w)
    \/ Crash
    \/ Tick

Next == RemindersOwn \/ PurgeUser

Spec == Init /\ [][Next]_vars

\* The worker takes jobs and goes on with them, BullMQ looks for dead workers, and
\* awaited calls end, by a timeout at last. Delivery owes nothing.
RemindersFairness == \A p \in Polls : WF_vars(JobStep(p))

-----------------------------------------------------------------------------
Queued(p) == job[p] # "none" \/ poll[p] = "enqueue"

\* One window gets one reminder job, whatever polls overlap, repeat or crash; a
\* second one only after a purge of the user has deleted the window.
QueuedOnce ==
    \A p, q \in Polls :
        p # q /\ Queued(p) /\ Queued(q) /\ WindowOf(p) = WindowOf(q) => era[p] # era[q]

\* A window recorded for catch-up has a job, unless the poll that recorded it is
\* still at it or failed in between (that reminder is lost).
CatchUpAccounted ==
    \A w \in Windows :
        row[w] = "catch_up" =>
            \E p \in Polls : /\ WindowOf(p) = w
                             /\ job[p] # "none" \/ poll[p] \in {"enqueue", "failed"}

\* "sent" means that delivery answered a request for that window; not that the
\* answer was a success.
SentWasAnswered ==
    \A w \in Windows :
        row[w] = "sent" =>
            \E p \in Polls : WindowOf(p) = w /\ \E i \in DigestsOf(p) : at[i] \in Answered

\* The chat shows a digest at most twice per run of its job (as Markdown whose
\* confirmation was lost, and as plain text), and there is one run more than
\* BullMQ gave the job back.
DigestsBounded ==
    \A p \in Polls, n \in 0 .. MaxStalls :
        /\ shown[<<p, n>>] <= 2
        /\ shown[<<p, n>>] > 0 => job[p] # "none" /\ n <= stalls[p]

\* A window is only skipped when no poll succeeded in the catch-up hours after a
\* firing time of it, clock changes included (purged windows aside).
SkippedWasMissed ==
    \A p \in Polls, d \in Days :
        /\ poll[p] = "ended"
        /\ Firing[d] < pollNow[p]
        /\ pollNow[p] \in Firing[d] + Shift .. Firing[d] + CatchUp
        => row[Window(d)] # "skipped" \/ erased[Window(d)] > 0

\* Every queued reminder job comes to an end.
RemindersEnd == \A p \in Polls : job[p] # "none" ~> job[p] \in JobEnds

=============================================================================
