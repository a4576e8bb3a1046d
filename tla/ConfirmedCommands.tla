--------------------------- MODULE ConfirmedCommands ---------------------------
(***************************************************************************)
(* The conversation of one user and the scheduler together. The handlers   *)
(* of ConversationLoop post what the user confirmed; CommandExecution runs *)
(* it, beside the requests of others, with its claims, crashes, retention  *)
(* and purges; a handler that still waits hears the answer.                *)
(*                                                                         *)
(* ConversationLoop speaks to an ideal scheduler, which never forgets a    *)
(* command. Here it speaks to the one there is.                            *)
(***************************************************************************)
EXTENDS CommandExecution

CONSTANTS
    Commands,       \* the user's commands; the key is "<pendingCommandId>:v1"
    Handlers,       \* the ai-router's POST /internal/process calls
    MaxConcurrent   \* handlers of the user at a time

\* The request of each handler, should it confirm that command.
Confirmation == Commands \X Handlers

ASSUME ConfirmedAssumption ==
    /\ NoRequest \notin Commands
    /\ Commands \subseteq Keys
    /\ Confirmation \subseteq Sync   \* suppressDelivery is always set
    /\ \A r \in Requests : KeyOf[r] \in Commands <=> r \in Confirmation
    /\ \A r \in Confirmation : KeyOf[r] = r[1]
    /\ \A c, d \in Commands : Owner[c] = Owner[d]
    /\ MaxConcurrent \in Nat \ {0}

VARIABLES pending, notes, at, target, draft, issued, shown, expired, confirmed,
          sent,
          told,     \* answers "completed" that reached their handler in time
          revoked,  \* no call of the user's commands has MonicaHQ credentials any more
          opener    \* history: the first request that had a record of a command

loopVars == <<pending, notes, at, target, draft, issued, shown, expired, confirmed,
              sent, told>>
accountVars == <<revoked, opener>>

-----------------------------------------------------------------------------
\* What the conversation sees of the scheduler

\* A record stays what it was although the scheduler deletes it.
LoopOpened  == {r \in Confirmation : opener[KeyOf[r]] = r}
LoopEffects == [r \in Confirmation |-> effects[r]]

Loop == INSTANCE ConversationLoop WITH
    NoCommand <- NoRequest,
    record    <- opener,
    opened    <- LoopOpened,
    effects   <- LoopEffects

ConfirmedInit ==
    /\ Init
    /\ pending = NoRequest /\ notes = {}
    /\ at = [h \in Handlers |-> "idle"]
    /\ target = [h \in Handlers |-> NoRequest]
    /\ draft = [h \in Handlers |-> {}]
    /\ issued = {} /\ shown = {} /\ expired = {} /\ confirmed = {}
    /\ sent = {} /\ told = {}
    /\ revoked = FALSE
    /\ opener = [c \in Commands |-> NoRequest]

-----------------------------------------------------------------------------
\* Steps of the ai-router

\* Whatever does not depend on the scheduler's answer.
HandlerConverses(h) ==
    /\ UNCHANGED <<vars, accountVars>>
    /\ \/ Loop!StartMessage(h)
       \/ \E c \in Commands :
             Loop!RejectTap(h, c) \/ Loop!ExpiredTap(h, c) \/ Loop!StartConfirm(h, c)
             \/ Loop!StartCancelOrEdit(h, c) \/ Loop!Propose(h, c)
       \/ Loop!Send(h) \/ Loop!NotExecuted(h) \/ Loop!Answer(h) \/ Loop!Abort(h)

\* The 200 arrives while the handler still waits.
HearsCompleted(h) ==
    /\ at[h] = "wait"
    /\ handler[<<target[h], h>>] = "completed"
    /\ Loop!ToolResult(h, "success")
    /\ told' = told \cup {<<target[h], h>>}
    /\ UNCHANGED <<vars, pending, notes, target, issued, shown, expired, confirmed,
                   sent, accountVars>>

RowForgotten ==
    /\ UNCHANGED <<vars, accountVars>>
    /\ Loop!Forget \/ \E c \in Commands : Loop!Expire(c)

-----------------------------------------------------------------------------
\* Steps of the scheduler

\* A confirmation arrives once it was sent, at any time after, or never.
Posted(r) == r \in Confirmation => r[2] \in sent /\ target[r[2]] = r[1]

\* A disconnect empties the credentials that monica-integration asks for at each
\* call, and the last call that had them is soon over. The user may go on talking,
\* but /start sends no new setup link to somebody who is known.
Revoke ==
    /\ ~revoked
    /\ revoked' = TRUE
    /\ UNCHANGED <<vars, loopVars, opener>>

\* A run of processCommandJob; without credentials its call has no effect.
Runs(r) ==
    /\ RunStep(r)
    /\ revoked /\ r \in Confirmation => effects' = effects

\* Faulty variant: the data is purged at once and not after the days of grace.
PurgeableAtOnce(u) == TRUE

\* A purge of a user's data comes thirty days after the disconnect.
Purgeable(u) == (\E c \in Commands : Owner[c] = u) => revoked

SchedulerStep ==
    /\ \/ \E r \in Requests :
             (Posted(r) /\ Arrive(r)) \/ HandlerStep(r) \/ Runs(r) \/ WorkerStep(r)
       \/ \E k \in Keys : Expire(k) \/ Age(k)
       \/ PurgeExpiredKeys
       \/ PurgeExpiredExecutions
       \/ \E u \in Users : Purgeable(u) /\ PurgeUser(u)
       \/ Crash
    /\ opener' = [c \in Commands |-> IF opener[c] = NoRequest THEN record'[c] ELSE opener[c]]
    /\ UNCHANGED <<loopVars, revoked>>

ConfirmedNext ==
    \/ \E h \in Handlers : HandlerConverses(h) \/ HearsCompleted(h)
    \/ RowForgotten
    \/ SchedulerStep
    \/ Revoke

confirmedVars == <<vars, loopVars, accountVars>>

ConfirmedSpec == ConfirmedInit /\ [][ConfirmedNext]_confirmedVars

-----------------------------------------------------------------------------
\* Properties

\* With the scheduler there is, the conversation behaves as it does with the
\* ideal one: claims that expire under a slow handler, records that are purged,
\* crashes after a command took effect and late answers do not let a command be
\* executed twice, without a confirmation, or reported as done when it is not.
FollowsLoop == Loop!Spec

\* One request of a command reaches MonicaHQ, and it calls once, for ever:
\* AtMostOnce without its exception, as a record outlasts the credentials.
OneCall ==
    \A r, s \in Confirmation :
        KeyOf[r] = KeyOf[s] /\ effects[r] > 0 /\ effects[s] > 0 => r = s /\ effects[r] = 1

=============================================================================
