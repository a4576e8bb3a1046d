--------------------------- MODULE AgentTranscript ---------------------------
(***************************************************************************)
(* The messages of a conversation as the agent loop builds them: what it   *)
(* asks the LLM with, what it saves, and what becomes of the LLM's tool    *)
(* calls. The LLM's API refuses messages in which a tool call has no       *)
(* result.                                                                 *)
(*                                                                         *)
(* ConversationLoop has the scheduler, the buttons and what commands do;   *)
(* here a confirmed command has merely some result. A step of a handler    *)
(* runs from one call of the LLM to the next: the tools it runs in between *)
(* do not touch the row.                                                   *)
(***************************************************************************)
EXTENDS Integers, SequencesExt

CONSTANTS
    Handlers,        \* requests of the user under way at the same time
    Calls,           \* tool call ids, unique by the LLM
    NoCall,
    NoPending,
    Window,          \* SLIDING_WINDOW_SIZE
    MaxIterations,   \* MAX_ITERATIONS
    MaxFollowUps,    \* MAX_POST_CONFIRM_ITERATIONS
    MaxCalls         \* tool calls in one message of the LLM

ASSUME AgentAssumption ==
    /\ NoCall \notin Calls
    /\ NoPending \notin [call : Calls, asked : Seq(Calls), results : Seq(Calls)]
    /\ Window \in Nat \ {0}
    /\ MaxIterations \in Nat \ {0} /\ MaxFollowUps \in Nat \ {0}
    /\ MaxCalls \in Nat \ {0}

VARIABLES
    messages,   \* conversation_history.messages
    pending,    \* conversation_history.pendingToolCall
    used,       \* ids the LLM has given
    at,         \* what a handler awaits
    work,       \* the messages it has in memory, but for the system prompt
    left,       \* calls of the LLM its loop may still make
    errors      \* consecutiveToolErrors

rowVars == <<messages, pending>>
vars == <<rowVars, used, at, work, left, errors>>

-----------------------------------------------------------------------------
(* Messages. *)

Role == {"user", "assistant", "tool"}
Message == [role : Role, calls : Seq(Calls), id : Calls \cup {NoCall}]

FromUser  == [role |-> "user", calls |-> << >>, id |-> NoCall]
Says(cs)  == [role |-> "assistant", calls |-> cs, id |-> NoCall]
Result(c) == [role |-> "tool", calls |-> << >>, id |-> c]

Results(cs) == [i \in DOMAIN cs |-> Result(cs[i])]

\* assistantMessage, the call's own result comes last.
Pending == [call : Calls, asked : Seq(Calls), results : Seq(Calls)]

Ended(p) == <<Says(p.asked)>> \o Results(p.results) \o <<Result(p.call)>>

\* Faulty variant: tool calls stay in the message.
KeptToolCalls(cs) == cs

\* stripToolCalls
StripToolCalls(cs) == << >>

\* Faulty variant: the window counts one message too many.
TruncatedLate(m) ==
    IF Len(m) <= Window + 1 THEN m ELSE SubSeq(m, Len(m) - Window, Len(m))

\* saveHistory keeps the last messages, wherever that cuts.
Truncated(m) == IF Len(m) <= Window THEN m ELSE SubSeq(m, Len(m) - Window + 1, Len(m))

\* The tool calls of m[i] without a result anywhere after it.
Missing(m, i) ==
    {c \in ToSet(m[i].calls) : \A j \in i + 1 .. Len(m) : ~(m[j].role = "tool" /\ m[j].id = c)}

\* repairHistory
RepairHistory(m) ==
    FlattenSeq([i \in DOMAIN m |-> <<m[i]>> \o Results(SetToSeq(Missing(m, i)))])

-----------------------------------------------------------------------------
(* What the LLM asks for. *)

ToolCall == [id : Calls, tool : {"read", "mutate"}, valid : BOOLEAN]

Ids(cs) == [i \in DOMAIN cs |-> cs[i].id]

\* Tool calls that a completion may hold: at least one, with new ids.
Responses ==
    {cs \in UNION {[1 .. n -> ToolCall] : n \in 1 .. MaxCalls} :
        /\ ToSet(Ids(cs)) \cap used = {}
        /\ \A i, j \in DOMAIN cs : cs[i].id = cs[j].id => i = j}

\* The first mutating call with valid arguments is intercepted.
Intercepted(cs) ==
    {i \in DOMAIN cs :
        /\ cs[i].tool = "mutate" /\ cs[i].valid
        /\ \A j \in 1 .. i - 1 : ~(cs[j].tool = "mutate" /\ cs[j].valid)}

\* A mutating call that is not intercepted fails, and so does a call whose
\* arguments are invalid; a read-only tool may fail.
MayFail(cs)    == Intercepted(cs) = {}
MaySucceed(cs) == \E i \in DOMAIN cs : cs[i].tool = "read" /\ cs[i].valid

-----------------------------------------------------------------------------
Awaits == {"think", "follow", "acknowledge", "clear", "repair"}

AgentTypeOK ==
    /\ messages \in Seq(Message) /\ Len(messages) <= Window
    /\ pending \in Pending \cup {NoPending}
    /\ used \subseteq Calls
    /\ at \in [Handlers -> {"idle"} \cup Awaits]
    /\ work \in [Handlers -> Seq(Message)]
    /\ left \in [Handlers -> Nat]
    /\ errors \in [Handlers -> 0 .. 1]

AgentInit ==
    /\ messages = << >> /\ pending = NoPending
    /\ used = {}
    /\ at = [h \in Handlers |-> "idle"]
    /\ work = [h \in Handlers |-> << >>]
    /\ left = [h \in Handlers |-> 0]
    /\ errors = [h \in Handlers |-> 0]

Begin(h, p, m, n) ==
    /\ at[h] = "idle"
    /\ at' = [at EXCEPT ![h] = p]
    /\ work' = [work EXCEPT ![h] = m]
    /\ left' = [left EXCEPT ![h] = n]
    /\ errors' = [errors EXCEPT ![h] = 0]
    /\ UNCHANGED <<rowVars, used>>

Done(h) ==
    /\ at' = [at EXCEPT ![h] = "idle"]
    /\ work' = [work EXCEPT ![h] = << >>]
    /\ left' = [left EXCEPT ![h] = 0]
    /\ errors' = [errors EXCEPT ![h] = 0]

\* The row is written as a whole, whatever it is by now.
Save(h, m, p) ==
    /\ messages' = Truncated(m)
    /\ pending' = p
    /\ Done(h)

\* Faulty variant: the abandoned tool call gets no result.
MessageForgetsPending(h) ==
    Begin(h, "think",
          messages \o (IF pending = NoPending THEN << >> ELSE <<Says(pending.asked)>>)
              \o <<FromUser>>,
          MaxIterations)

\* A text or voice message; a tool call still pending is abandoned.
ReadMessage(h) ==
    Begin(h, "think",
          messages \o (IF pending = NoPending THEN << >> ELSE Ended(pending)) \o <<FromUser>>,
          MaxIterations)

\* Confirm, with whatever result the command has.
Confirm(h) ==
    /\ pending # NoPending
    /\ Begin(h, "follow", messages \o Ended(pending), MaxFollowUps)

CancelOrEdit(h) ==
    /\ pending # NoPending
    /\ Begin(h, "acknowledge", messages \o Ended(pending), 0)

\* A button of a tool call that has expired; other buttons that do not fit are
\* turned away and change nothing.
Expired(h) ==
    /\ pending # NoPending
    /\ Begin(h, "clear", messages, 0)

Clear(h) ==
    /\ at[h] = "clear"
    /\ Save(h, work[h], NoPending)
    /\ UNCHANGED used

-----------------------------------------------------------------------------
(* The LLM answers. *)

\* Without tool calls: the final text, or, after Confirm, no message at all.
Answer(h) ==
    /\ at[h] \in {"think", "follow"}
    /\ \/ Save(h, Append(work[h], Says(<< >>)), NoPending)
       \/ at[h] = "follow" /\ Save(h, work[h], NoPending)
    /\ UNCHANGED used

\* With a mutating call: it becomes the pending tool call, with the message and
\* the results of the others; what is saved ends before that message.
Propose(h) ==
    /\ at[h] \in {"think", "follow"}
    /\ \E cs \in Responses : \E i \in Intercepted(cs) :
          /\ Save(h, work[h],
                  [call |-> cs[i].id, asked |-> Ids(cs), results |-> RemoveAt(Ids(cs), i)])
          /\ used' = used \cup ToSet(Ids(cs))

\* With other calls: their results go back to the LLM, unless this was the last
\* call of the loop or all tools have failed for the second time in a row.
UseTools(h) ==
    /\ at[h] \in {"think", "follow"}
    /\ \E cs \in Responses, failed \in BOOLEAN :
          LET m == work[h] \o <<Says(Ids(cs))>> \o Results(Ids(cs))
          IN  /\ MayFail(cs)
              /\ ~failed => MaySucceed(cs)
              /\ IF left[h] = 1 \/ (at[h] = "think" /\ failed /\ errors[h] = 1)
                 THEN Save(h, m, NoPending)
                 ELSE /\ work' = [work EXCEPT ![h] = m]
                      /\ left' = [left EXCEPT ![h] = @ - 1]
                      /\ errors' = [errors EXCEPT ![h] = IF failed /\ at[h] = "think" THEN 1 ELSE 0]
                      /\ UNCHANGED <<rowVars, at>>
              /\ used' = used \cup ToSet(Ids(cs))

\* After Cancel or Edit: tool calls of the LLM are dropped.
Acknowledge(h) ==
    /\ at[h] = "acknowledge"
    /\ \/ \E cs \in {<< >>} \cup Responses :
             /\ Save(h, Append(work[h], Says(StripToolCalls(Ids(cs)))), NoPending)
             /\ used' = used \cup ToSet(Ids(cs))
       \/ Save(h, work[h], NoPending) /\ UNCHANGED used

\* The LLM or the database fails. Only the errors of a message reach the catch
\* of runAgentLoop: it returns handleCallback's promise without awaiting it.
Fail(h) ==
    /\ at[h] # "idle"
    /\ IF at[h] = "think"
       THEN at' = [at EXCEPT ![h] = "repair"] /\ UNCHANGED <<work, left, errors>>
       ELSE Done(h)
    /\ UNCHANGED <<rowVars, used>>

\* An empty completion.
NoChoice(h) ==
    /\ at[h] = "think"
    /\ Done(h)
    /\ UNCHANGED <<rowVars, used>>

\* The catch of runAgentLoop.
Repair(h) ==
    /\ at[h] = "repair"
    /\ IF \A i \in DOMAIN messages : Missing(messages, i) = {}
       THEN Done(h) /\ UNCHANGED rowVars
       ELSE Save(h, RepairHistory(messages), pending)
    /\ UNCHANGED used

\* /clear, the inactivity sweep, retention and the purge.
Forget ==
    /\ messages' = << >>
    /\ pending' = NoPending
    /\ UNCHANGED <<used, at, work, left, errors>>

AgentNext ==
    \/ \E h \in Handlers :
          \/ ReadMessage(h) \/ Confirm(h) \/ CancelOrEdit(h) \/ Expired(h)
          \/ Clear(h) \/ Answer(h) \/ Propose(h) \/ UseTools(h) \/ Acknowledge(h)
          \/ Fail(h) \/ NoChoice(h) \/ Repair(h)
    \/ Forget

AgentSpec == AgentInit /\ [][AgentNext]_vars

-----------------------------------------------------------------------------
\* Between m[i] and m[j] and in m[j] there is nothing but tool results.
OnlyResults(m, i, j) == \A k \in i .. j : m[k].role = "tool"

\* Every tool call has its result before the next message of another kind.
CallsAnswered(m) ==
    \A i \in DOMAIN m : \A c \in ToSet(m[i].calls) :
        \E j \in i + 1 .. Len(m) : m[j].id = c /\ OnlyResults(m, i + 1, j)

\* Every tool result follows its call in the same way, unless it is among those
\* the messages begin with.
ResultsAsked(m) ==
    \A j \in DOMAIN m : m[j].role = "tool" /\ ~OnlyResults(m, 1, j) =>
        \E i \in 1 .. j - 1 : m[j].id \in ToSet(m[i].calls) /\ OnlyResults(m, i + 1, j)

\* What is saved, what the LLM is asked with and what a button would bring back is
\* a conversation in which tool calls and results fit together, although handlers
\* overwrite each other's row. Results without a call stand only at the
\* beginning, and in the row only when the sliding window is full.
TranscriptsPaired ==
    /\ \A m \in {messages} \cup {work[h] : h \in Handlers} : CallsAnswered(m) /\ ResultsAsked(m)
    /\ messages # << >> /\ messages[1].role = "tool" => Len(messages) = Window
    /\ pending # NoPending => CallsAnswered(Ended(pending)) /\ ResultsAsked(Ended(pending))

\* The catch of runAgentLoop never finds anything to repair: what makes the LLM
\* refuse a conversation, if anything does, is not what it repairs.
RepairFindsNothing == \A i \in DOMAIN messages : Missing(messages, i) = {}

=============================================================================
