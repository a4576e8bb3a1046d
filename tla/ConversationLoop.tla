--------------------------- MODULE ConversationLoop ---------------------------
(***************************************************************************)
(* The ai-router's conversation of one user: the row of                    *)
(* conversation_history (messages and the pending tool call), the event    *)
(* handlers that read it, talk to the LLM and to the scheduler, and write  *)
(* it back, and what the user's buttons can still ask for.                 *)
(*                                                                         *)
(* A handler reads the row once, awaits the LLM (and the scheduler), then  *)
(* saves the whole row: nothing orders the handlers of one user. Messages  *)
(* are reduced to the tool results that say how a proposed command ended.  *)
(*                                                                         *)
(* The scheduler appears as its abstract specification, CommandLedger,     *)
(* which CommandExecution implements.                                      *)
(***************************************************************************)
EXTENDS Integers, FiniteSets

CONSTANTS
    Commands,       \* pendingCommandIds (crypto.randomUUID, one per proposal)
    Handlers,       \* POST /internal/process calls
    NoCommand,      \* "no pending tool call", "no execution record"
    MaxConcurrent   \* handlers of the user at a time (guardrails, default 3)

ASSUME ConversationAssumption ==
    /\ NoCommand \notin Commands
    /\ NoCommand \notin Commands \X Handlers
    /\ MaxConcurrent \in Nat \ {0}

VARIABLES
    pending,    \* conversation_history.pendingToolCall
    notes,      \* tool results in its messages: how proposed commands ended
    at,         \* what each handler waits for
    target,     \* the command its callback names
    draft,      \* the notes it will save: those it read and its own
    issued,     \* ids given out so far
    shown,      \* commands whose buttons have reached the user
    expired,    \* commands older than pendingCommandTtlMinutes
    confirmed,  \* commands the user has tapped Confirm on
    sent,       \* handlers whose request has left for the scheduler
    record, opened, effects, told   \* the scheduler: CommandLedger

rowVars       == <<pending, notes>>
handlerVars   == <<at, target, draft>>
userVars      == <<issued, shown, expired, confirmed>>
schedulerVars == <<record, opened, effects, told>>
vars == <<pending, notes, at, target, draft, issued, shown, expired, confirmed,
          sent, record, opened, effects, told>>

-----------------------------------------------------------------------------
Outcome == {"success", "error", "cancelled", "edit_requested", "abandoned"}
Note    == Commands \X Outcome
Busy    == {"clear", "execute", "wait", "think", "acknowledge"}
Request == Commands \X Handlers

\* The idempotency key is "<pendingCommandId>:v1", whoever sends the request.
Scheduler == INSTANCE CommandLedger WITH
    Keys      <- Commands,
    Requests  <- Request,
    NoRequest <- NoCommand,
    KeyOf     <- [r \in Request |-> r[1]],
    Budget    <- [r \in Request |-> 1]

RequestOf(h) == <<target[h], h>>

TypeOK ==
    /\ pending \in Commands \cup {NoCommand}
    /\ notes \subseteq Note
    /\ at \in [Handlers -> {"idle", "done"} \cup Busy]
    /\ target \in [Handlers -> Commands \cup {NoCommand}]
    /\ draft \in [Handlers -> SUBSET Note]
    /\ shown \subseteq issued /\ issued \subseteq Commands
    /\ expired \subseteq issued /\ confirmed \subseteq shown
    /\ sent \subseteq Handlers
    /\ record \in [Commands -> Request \cup {NoCommand}]
    /\ opened \subseteq Request
    /\ effects \in [Request -> 0..1]
    /\ told \subseteq Request

Init ==
    /\ pending = NoCommand /\ notes = {}
    /\ at = [h \in Handlers |-> "idle"]
    /\ target = [h \in Handlers |-> NoCommand]
    /\ draft = [h \in Handlers |-> {}]
    /\ issued = {} /\ shown = {} /\ expired = {} /\ confirmed = {}
    /\ sent = {}
    /\ Scheduler!Init

-----------------------------------------------------------------------------
\* Reading the row

\* Handler h starts, reads the row, and waits for p with the notes N to save.
Begin(h, p, N) ==
    /\ at[h] = "idle"
    /\ Cardinality({g \in Handlers : at[g] \in Busy}) < MaxConcurrent
    /\ at' = [at EXCEPT ![h] = p]
    /\ draft' = [draft EXCEPT ![h] = N]

\* A text or voice message: a command still pending is noted as abandoned.
StartMessage(h) ==
    /\ Begin(h, "think", notes \cup ({pending} \ {NoCommand}) \X {"abandoned"})
    /\ UNCHANGED <<rowVars, target, userVars, sent, schedulerVars>>

\* A button whose command is not the pending one is turned away.
RejectTap(h, c) ==
    /\ c \in shown
    /\ pending # c
    /\ Begin(h, "done", {})
    /\ UNCHANGED <<rowVars, target, userVars, sent, schedulerVars>>

\* A button of the pending command after its time to live.
ExpiredTap(h, c) ==
    /\ c \in shown
    /\ pending = c /\ c \in expired
    /\ Begin(h, "clear", notes)
    /\ UNCHANGED <<rowVars, target, userVars, sent, schedulerVars>>

\* Faulty variant: the id in the button is not compared.
ConfirmWhateverPends(h, c) ==
    /\ c \in shown
    /\ pending # NoCommand /\ pending \notin expired
    /\ Begin(h, "execute", notes)
    /\ target' = [target EXCEPT ![h] = pending]
    /\ confirmed' = confirmed \cup {c}
    /\ UNCHANGED <<rowVars, issued, shown, expired, sent, schedulerVars>>

\* Confirm: the command is prepared for the scheduler (a reference lookup).
StartConfirm(h, c) ==
    /\ c \in shown
    /\ pending = c /\ c \notin expired
    /\ Begin(h, "execute", notes)
    /\ target' = [target EXCEPT ![h] = c]
    /\ confirmed' = confirmed \cup {c}
    /\ UNCHANGED <<rowVars, issued, shown, expired, sent, schedulerVars>>

\* Cancel and Edit: note it, and let the LLM word the answer.
StartCancelOrEdit(h, c) ==
    /\ c \in shown
    /\ pending = c /\ c \notin expired
    /\ \E outcome \in {"cancelled", "edit_requested"} :
          Begin(h, "acknowledge", notes \cup {<<c, outcome>>})
    /\ UNCHANGED <<rowVars, target, userVars, sent, schedulerVars>>

-----------------------------------------------------------------------------
\* Executing a confirmed command

\* schedulerClient.execute posts the command.
Send(h) ==
    /\ at[h] = "execute"
    /\ at' = [at EXCEPT ![h] = "wait"]
    /\ sent' = sent \cup {h}
    /\ UNCHANGED <<rowVars, target, draft, userVars, schedulerVars>>

\* What executeMutatingTool returns becomes a tool result for the LLM.
ToolResult(h, outcome) ==
    /\ at' = [at EXCEPT ![h] = "think"]
    /\ draft' = [draft EXCEPT ![h] = @ \cup {<<target[h], outcome>>}]

\* The scheduler answered "completed", as its specification allows.
Executed(h) ==
    /\ at[h] = "wait"
    /\ Scheduler!Tell(RequestOf(h))
    /\ ToolResult(h, "success")
    /\ UNCHANGED <<rowVars, target, userVars, sent>>

\* Faulty variants: an unanswered request is taken for a done one, or an
\* outcome nobody knows is noted.
UnansweredIsSuccess(h) ==
    /\ at[h] \in {"execute", "wait"}
    /\ \E outcome \in {"success", "error"} : ToolResult(h, outcome)
    /\ UNCHANGED <<rowVars, target, userVars, sent, schedulerVars>>

UnknownOutcome(h) ==
    /\ at[h] \in {"execute", "wait"}
    /\ ToolResult(h, "timeout")
    /\ UNCHANGED <<rowVars, target, userVars, sent, schedulerVars>>

\* The lookup failed, or the scheduler refused, or did not answer in ten
\* seconds: the request it was sent is not withdrawn.
NotExecuted(h) ==
    /\ at[h] \in {"execute", "wait"}
    /\ ToolResult(h, "error")
    /\ UNCHANGED <<rowVars, target, userVars, sent, schedulerVars>>

\* Faulty variant: an idempotency key per attempt instead of per command.
OpensEveryAttempt(h) ==
    /\ h \in sent
    /\ RequestOf(h) \notin opened
    /\ opened' = opened \cup {RequestOf(h)}
    /\ UNCHANGED <<rowVars, handlerVars, userVars, sent, record, effects, told>>

\* The scheduler opens and applies what it was sent, at its own pace.
SchedulerOpens(h) ==
    /\ h \in sent
    /\ Scheduler!Open(RequestOf(h))
    /\ UNCHANGED <<rowVars, handlerVars, userVars, sent>>

SchedulerApplies(h) ==
    /\ h \in sent
    /\ Scheduler!Apply(RequestOf(h))
    /\ UNCHANGED <<rowVars, handlerVars, userVars, sent>>

-----------------------------------------------------------------------------
\* Writing the row

\* saveHistory replaces messages and pending tool call, whatever they are by
\* now. The sliding window may have dropped older notes.
Save(h, c) ==
    /\ pending' = c
    /\ notes' \in SUBSET draft[h]
    /\ at' = [at EXCEPT ![h] = "done"]
    /\ draft' = [draft EXCEPT ![h] = {}]

\* Faulty variant: the pending tool call is not cleared.
AnswerLeavesPending(h) ==
    /\ at[h] \in {"clear", "think", "acknowledge"}
    /\ Save(h, pending)
    /\ UNCHANGED <<target, userVars, sent, schedulerVars>>

\* The turn ends in a text: final answer, tool errors, iteration limit, the
\* acknowledgement of Cancel or Edit, or "this action has expired".
Answer(h) ==
    /\ at[h] \in {"clear", "think", "acknowledge"}
    /\ Save(h, NoCommand)
    /\ UNCHANGED <<target, userVars, sent, schedulerVars>>

\* Faulty variant: the id is derived from the tool call, so that proposing the
\* same action again gives the same id.
ProposeSameId(h, c) ==
    /\ at[h] = "think"
    /\ Save(h, c)
    /\ issued' = issued \cup {c}
    /\ shown' \in {shown, shown \cup {c}}
    /\ UNCHANGED <<target, expired, confirmed, sent, schedulerVars>>

\* The LLM calls a mutating tool: it becomes the pending tool call under a new
\* id, and its buttons may or may not reach the user.
Propose(h, c) ==
    /\ at[h] = "think"
    /\ c \in Commands \ issued
    /\ Save(h, c)
    /\ issued' = issued \cup {c}
    /\ shown' \in {shown, shown \cup {c}}
    /\ UNCHANGED <<target, expired, confirmed, sent, schedulerVars>>

\* LLM or database errors, an empty completion, the death of the process:
\* nothing is saved.
Abort(h) ==
    /\ at[h] \in Busy
    /\ at' = [at EXCEPT ![h] = "done"]
    /\ draft' = [draft EXCEPT ![h] = {}]
    /\ UNCHANGED <<rowVars, target, userVars, sent, schedulerVars>>

\* /clear, the inactivity sweep, retention and the purge delete the row.
Forget ==
    /\ pending' = NoCommand
    /\ notes' = {}
    /\ UNCHANGED <<handlerVars, userVars, sent, schedulerVars>>

Expire(c) ==
    /\ c \in issued \ expired
    /\ expired' = expired \cup {c}
    /\ UNCHANGED <<rowVars, handlerVars, issued, shown, confirmed, sent, schedulerVars>>

-----------------------------------------------------------------------------
Next ==
    \/ \E h \in Handlers :
          \/ StartMessage(h)
          \/ \E c \in Commands :
                RejectTap(h, c) \/ ExpiredTap(h, c) \/ StartConfirm(h, c)
                \/ StartCancelOrEdit(h, c) \/ Propose(h, c)
          \/ Send(h) \/ Executed(h) \/ NotExecuted(h)
          \/ SchedulerOpens(h) \/ SchedulerApplies(h)
          \/ Answer(h) \/ Abort(h)
    \/ Forget
    \/ \E c \in Commands : Expire(c)

Spec == Init /\ [][Next]_vars

-----------------------------------------------------------------------------
\* Properties

Applied(c) == \E h \in Handlers : effects[<<c, h>>] > 0

\* The notes kept by the row or about to be saved by a handler.
Kept == {notes} \cup {draft[h] : h \in Handlers}

\* Only a command whose own buttons the user saw and confirmed reaches
\* MonicaHQ, although old buttons stay tappable and the pending command may
\* change between the tap and its handling.
OnlyConfirmedExecutes == \A c \in Commands : Applied(c) => c \in confirmed

\* However often Confirm is tapped, and whatever retries follow an error, one
\* request of a command takes effect.
OneEffect ==
    \A c \in Commands : \A g, h \in Handlers :
        (effects[<<c, g>>] > 0 /\ effects[<<c, h>>] > 0) => g = h

\* The conversation tells the LLM "executed successfully" only of a command
\* that took effect, whichever of the concurrent handlers writes last.
SuccessNotesTruthful ==
    \A N \in Kept : \A c \in Commands : <<c, "success">> \in N => Applied(c)

\* No conversation ever holds two endings of one command: the LLM is never
\* shown a command both executed and cancelled, though two handlers may have
\* answered the same pending command.
OneOutcome ==
    \A N \in Kept : \A m, n \in N : m[1] = n[1] => m = n

\* A command that was issued and is no longer pending never becomes pending
\* again, so its buttons are dead for good, although every handler saves the
\* pending tool call without looking at the row's present one.
NoResurrection ==
    [][\A c \in issued : pending # c => pending' # c]_vars

\* 'Tool "..." was cancelled by the user' (agent/loop.ts): the conversation
\* does not say so of a command that took effect.
CancelledNeverExecuted ==
    \A c \in Commands : <<c, "cancelled">> \in notes => ~Applied(c)

=============================================================================
