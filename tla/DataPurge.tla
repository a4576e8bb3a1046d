------------------------------ MODULE DataPurge ------------------------------
(***************************************************************************)
(* Purge of disconnected users' data (user-management): the rows of        *)
(* data_purge_requests and the sweeps that carry them out, by a DELETE to  *)
(* each service that keeps data of the user.                               *)
(*                                                                         *)
(* Sweeps are started by a timer that does not wait for the last one, so   *)
(* they overlap when their list is long; each stands for one pass of       *)
(* processPendingPurges and its slot is used again afterwards.             *)
(***************************************************************************)
EXTENDS Integers, FiniteSets

CONSTANTS
    Requests,     \* rows of data_purge_requests, one per disconnect
    Sweeps,       \* passes that may run at a time
    Services,     \* ai-router, scheduler and delivery
    NoRequest,
    MaxRetries,   \* MAX_PURGE_RETRIES
    MaxFaults     \* bound on failed statements and crashes

ASSUME DataPurgeAssumption ==
    /\ NoRequest \notin Requests
    /\ IsFiniteSet(Sweeps) /\ Sweeps # {}
    /\ MaxRetries \in Nat \ {0}
    /\ MaxFaults \in Nat

VARIABLES
    status,    \* data_purge_requests.status
    due,       \* requests whose purge_after has passed
    stale,     \* requests claimed longer ago than the claim threshold
    retries,   \* retry_count
    sweep,     \* the next await of a pass
    claimed,   \* requests it has claimed and not yet begun
    current,   \* the request it is at
    answered,  \* services that answered its DELETE
    calls,     \* DELETEs on their way to a service
    purged,    \* services that have carried out a DELETE for a request
    refused,   \* services that have answered one with an error
    faults

requestVars == <<status, due, stale, retries>>
sweepVars   == <<sweep, claimed, current, answered>>
callVars    == <<calls, purged, refused>>
purgeVars   == <<requestVars, sweepVars, callVars, faults>>

-----------------------------------------------------------------------------
Statements == {"reclaim", "reset", "claim", "complete", "fail"}

PurgeTypeOK ==
    /\ status \in [Requests -> {"none", "pending", "in_progress", "completed", "failed"}]
    /\ due \subseteq Requests
    /\ stale \subseteq Requests
    /\ retries \in [Requests -> Nat]
    /\ sweep \in [Sweeps -> {"idle", "next", "call"} \cup Statements]
    /\ claimed \in [Sweeps -> SUBSET Requests]
    /\ current \in [Sweeps -> Requests \cup {NoRequest}]
    /\ answered \in [Sweeps -> SUBSET Services]
    /\ calls \subseteq Requests \X Services
    /\ purged \subseteq Requests \X Services
    /\ refused \subseteq Requests \X Services
    /\ faults \in 0 .. MaxFaults

PurgeInit ==
    /\ status = [r \in Requests |-> "none"]
    /\ due = {}
    /\ stale = {}
    /\ retries = [r \in Requests |-> 0]
    /\ sweep = [w \in Sweeps |-> "idle"]
    /\ claimed = [w \in Sweeps |-> {}]
    /\ current = [w \in Sweeps |-> NoRequest]
    /\ answered = [w \in Sweeps |-> {}]
    /\ calls = {}
    /\ purged = {}
    /\ refused = {}
    /\ faults = 0

-----------------------------------------------------------------------------
\* disconnectUser inserts a request. Connecting again does not withdraw it.
Disconnect(r) ==
    /\ status[r] = "none"
    /\ status' = [status EXCEPT ![r] = "pending"]
    /\ UNCHANGED <<due, stale, retries, sweepVars, callVars, faults>>

FallDue(r) ==
    /\ status[r] # "none" /\ r \notin due
    /\ due' = due \cup {r}
    /\ UNCHANGED <<status, stale, retries, sweepVars, callVars, faults>>

GrowStale(r) ==
    /\ status[r] = "in_progress" /\ r \notin stale
    /\ stale' = stale \cup {r}
    /\ UNCHANGED <<status, due, retries, sweepVars, callVars, faults>>

-----------------------------------------------------------------------------
\* processPendingPurges

Goes(w, from, to) ==
    /\ sweep[w] = from
    /\ sweep' = [sweep EXCEPT ![w] = to]

\* The timer; passes that could find nothing are left out.
StartSweep(w) ==
    /\ Goes(w, "idle", "reclaim")
    /\ \E r \in Requests : \/ status[r] \in {"pending", "in_progress"}
                           \/ status[r] = "failed" /\ retries[r] < MaxRetries
    /\ UNCHANGED <<requestVars, claimed, current, answered, callVars, faults>>

\* Every request of R that has one status gets another.
Restate(R, from, to) ==
    status' = [r \in Requests |-> IF r \in R /\ status[r] = from THEN to ELSE status[r]]

\* Faulty variant: only failed requests are looked for, not stale claims.
ReclaimFailed(w) ==
    /\ Goes(w, "reclaim", "reset")
    /\ Restate(stale, "failed", "pending")
    /\ UNCHANGED <<due, stale, retries, claimed, current, answered, callVars, faults>>

\* Claims of a dead pass are taken back, and those of a slow one.
Reclaim(w) ==
    /\ Goes(w, "reclaim", "reset")
    /\ Restate(stale, "in_progress", "pending")
    /\ UNCHANGED <<due, stale, retries, claimed, current, answered, callVars, faults>>

\* Faulty variant: failed requests are reset whatever their retry count.
ResetAll(w) ==
    /\ Goes(w, "reset", "claim")
    /\ Restate(Requests, "failed", "pending")
    /\ UNCHANGED <<due, stale, retries, claimed, current, answered, callVars, faults>>

Reset(w) ==
    /\ Goes(w, "reset", "claim")
    /\ Restate({r \in Requests : retries[r] < MaxRetries}, "failed", "pending")
    /\ UNCHANGED <<due, stale, retries, claimed, current, answered, callVars, faults>>

Claim(w) ==
    LET found == {r \in due : status[r] = "pending"}
    IN  /\ Goes(w, "claim", "next")
        /\ Restate(found, "pending", "in_progress")
        /\ stale' = stale \ found
        /\ claimed' = [claimed EXCEPT ![w] = found]
        /\ UNCHANGED <<due, retries, current, answered, callVars, faults>>

\* The three DELETEs of the next request go out together; their common signal
\* may end them before a service has read one.
Call(w, r) ==
    /\ r \in claimed[w]
    /\ Goes(w, "next", "call")
    /\ claimed' = [claimed EXCEPT ![w] = @ \ {r}]
    /\ current' = [current EXCEPT ![w] = r]
    /\ answered' = [answered EXCEPT ![w] = {}]
    /\ calls' = calls \cup ({r} \X Services)
    /\ UNCHANGED <<requestVars, purged, refused, faults>>

LastDone(w) ==
    /\ claimed[w] = {}
    /\ Goes(w, "next", "idle")
    /\ current' = [current EXCEPT ![w] = NoRequest]
    /\ answered' = [answered EXCEPT ![w] = {}]
    /\ UNCHANGED <<requestVars, claimed, callVars, faults>>

\* A service carries out a DELETE, whether or not anyone waits for its answer.
Reach(r, s) ==
    /\ <<r, s>> \in calls
    /\ calls' = calls \ {<<r, s>>}
    /\ purged' = purged \cup {<<r, s>>}
    /\ UNCHANGED <<requestVars, sweepVars, refused, faults>>

\* fetch resolves for errors as well; nobody looks at the status.
Answer(w, s) ==
    LET call == <<current[w], s>>
    IN  /\ sweep[w] = "call" /\ s \notin answered[w]
        /\ answered' = [answered EXCEPT ![w] = @ \cup {s}]
        /\ \/ call \in purged /\ UNCHANGED <<calls, refused>>
           \/ calls' = calls \ {call} /\ refused' = refused \cup {call}
        /\ UNCHANGED <<requestVars, sweep, claimed, current, purged, faults>>

\* Faulty variant: one answer is enough (Promise.race for Promise.all).
FirstAnswered(w) ==
    /\ answered[w] # {}
    /\ Goes(w, "call", "complete")
    /\ UNCHANGED <<requestVars, claimed, current, answered, callVars, faults>>

AllAnswered(w) ==
    /\ answered[w] = Services
    /\ Goes(w, "call", "complete")
    /\ UNCHANGED <<requestVars, claimed, current, answered, callVars, faults>>

\* A call times out or its connection breaks.
CallFails(w) ==
    /\ Goes(w, "call", "fail")
    /\ UNCHANGED <<requestVars, claimed, current, answered, callVars, faults>>

MarkCompleted(w) ==
    /\ Goes(w, "complete", "next")
    /\ status' = [status EXCEPT ![current[w]] = "completed"]
    /\ UNCHANGED <<due, stale, retries, claimed, current, answered, callVars, faults>>

MarkFailed(w) ==
    /\ Goes(w, "fail", "next")
    /\ status' = [status EXCEPT ![current[w]] = "failed"]
    /\ retries' = [retries EXCEPT ![current[w]] = @ + 1]
    /\ UNCHANGED <<due, stale, claimed, current, answered, callVars, faults>>

\* The pass ends; what it has claimed stays in_progress.
Abandon(w) ==
    /\ sweep' = [sweep EXCEPT ![w] = "idle"]
    /\ claimed' = [claimed EXCEPT ![w] = {}]
    /\ current' = [current EXCEPT ![w] = NoRequest]
    /\ answered' = [answered EXCEPT ![w] = {}]

\* A statement fails: MarkCompleted's is caught and counts as a failure of the
\* request, every other one ends the pass.
StatementFails(w) ==
    /\ faults < MaxFaults
    /\ faults' = faults + 1
    /\ \/ Goes(w, "complete", "fail") /\ UNCHANGED <<claimed, current, answered>>
       \/ sweep[w] \in Statements \ {"complete"} /\ Abandon(w)
    /\ UNCHANGED <<requestVars, callVars>>

\* user-management restarts.
PurgeCrash ==
    /\ faults < MaxFaults
    /\ faults' = faults + 1
    /\ sweep' = [w \in Sweeps |-> "idle"]
    /\ claimed' = [w \in Sweeps |-> {}]
    /\ current' = [w \in Sweeps |-> NoRequest]
    /\ answered' = [w \in Sweeps |-> {}]
    /\ UNCHANGED <<requestVars, callVars>>

-----------------------------------------------------------------------------
SweepStep(w) ==
    \/ Reclaim(w) \/ Reset(w) \/ Claim(w) \/ LastDone(w)
    \/ \E r \in Requests : Call(w, r)
    \/ \E s \in Services : Answer(w, s)
    \/ AllAnswered(w) \/ CallFails(w) \/ MarkCompleted(w) \/ MarkFailed(w)

\* Everything but the services' side of a DELETE.
PurgeOwn ==
    \/ \E r \in Requests : Disconnect(r) \/ FallDue(r) \/ GrowStale(r)
    \/ \E w \in Sweeps : StartSweep(w) \/ SweepStep(w) \/ StatementFails(w)
    \/ PurgeCrash

PurgeNext == PurgeOwn \/ \E r \in Requests, s \in Services : Reach(r, s)

PurgeSpec == PurgeInit /\ [][PurgeNext]_purgeVars

\* The timer fires, awaited calls end, and time passes. Services owe nothing.
PurgeFairness ==
    /\ \A w \in Sweeps : WF_purgeVars(StartSweep(w) \/ SweepStep(w))
    /\ \A r \in Requests : WF_purgeVars(FallDue(r) \/ GrowStale(r))

-----------------------------------------------------------------------------
\* A request is tried MAX_PURGE_RETRIES times; overlapping passes that took it
\* before it was given up may each add one more.
RetriesBounded ==
    \A r \in Requests : retries[r] <= MaxRetries + Cardinality(Sweeps) - 1

\* "completed" means that each service carried out a DELETE for the request or
\* answered one with an error; never that a service was not reached.
CompletedWasAsked ==
    \A r \in Requests : status[r] = "completed" => {r} \X Services \subseteq purged \cup refused

\* A request is completed or given up in the end, whatever its passes met.
PurgesEnd ==
    \A r \in Requests :
        status[r] = "pending" ~>
            status[r] = "completed" \/ (status[r] = "failed" /\ retries[r] >= MaxRetries)

=============================================================================
