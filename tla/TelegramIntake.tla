---------------------------- MODULE TelegramIntake ----------------------------
(***************************************************************************)
(* telegram-bridge takes updates of one user from the webhook and has them *)
(* transcribed and answered behind the guardrails. Telegram delivers an    *)
(* update again when it has no answer yet; every delivery is a handler of  *)
(* its own.                                                                *)
(***************************************************************************)
EXTENDS Guardrails

CONSTANTS
    Updates,
    KindOf,      \* "text", with buttons, "voice" or "command", /clear and /disconnect
    NoUpdate

ASSUME IntakeAssumption ==
    /\ {"ai", "voice"} \subseteq Services
    /\ KindOf \in [Updates -> {"text", "voice", "command"}]
    /\ NoUpdate \notin Updates

Deliveries == Callers

VARIABLES
    at,        \* where the handler of a delivery is
    update,    \* what was delivered
    seen,      \* tg:dedup
    excused,   \* updates whose key expired or could not be set
    reply      \* what the user is sent: an answer, or that there is none

bridgeVars == <<at, update, seen, excused, reply>>
vars == <<bridgeVars, guardVars>>

Waiting == {"dedup", "resolve", "download", "transcribe", "ask", "command"}

IntakeTypeOK ==
    /\ GuardrailsTypeOK
    /\ at \in [Deliveries -> {"away", "done"} \cup Waiting]
    /\ update \in [Deliveries -> Updates \cup {NoUpdate}]
    /\ seen \subseteq Updates /\ excused \subseteq Updates
    /\ reply \in [Deliveries -> {"none", "answer", "error"}]

IntakeInit ==
    /\ GuardrailsInit
    /\ at = [d \in Deliveries |-> "away"]
    /\ update = [d \in Deliveries |-> NoUpdate]
    /\ seen = {} /\ excused = {}
    /\ reply = [d \in Deliveries |-> "none"]

-----------------------------------------------------------------------------
Goto(d, p) == at' = [at EXCEPT ![d] = p] /\ UNCHANGED <<update, reply>>

\* The handler ends, with what it sends the user. An answer that cannot be
\* rendered is followed by the error.
Ends(d, text) ==
    /\ at' = [at EXCEPT ![d] = "done"]
    /\ \E t \in {text} \cup (IF text = "answer" THEN {"error"} ELSE {}) :
          reply' = [reply EXCEPT ![d] = t]
    /\ UNCHANGED update

\* The request of a delivery to a service begins.
Send(d, s) ==
    /\ Arrive(<<d, s>>)
    /\ UNCHANGED <<verdict, month, bill, admitted, handled, failures, redisVars>>

Deliver(d) ==
    /\ at[d] = "away"
    /\ at' = [at EXCEPT ![d] = "dedup"]
    /\ \E u \in Updates : update' = [update EXCEPT ![d] = u]
    /\ UNCHANGED <<seen, excused, reply, guardVars>>

\* Faulty variant: an update is remembered once it is resolved.
DedupByLook(d) ==
    LET u == update[d]
    IN  /\ at[d] = "dedup"
        /\ IF u \in seen THEN Ends(d, "none") ELSE Goto(d, "resolve")
        /\ UNCHANGED <<seen, excused, failures>>
        /\ UNCHANGED <<stage, verdict, month, bill, admitted, handled, redisVars>>

\* SET NX of a key with a TTL of 60 seconds; without Redis the update is processed.
Dedup(d) ==
    LET u == update[d]
    IN  /\ at[d] = "dedup"
        /\ \/ u \in seen /\ Ends(d, "none") /\ UNCHANGED <<seen, excused, failures>>
           \/ /\ Goto(d, "resolve") /\ UNCHANGED failures
              /\ seen' = seen \cup {u}
              /\ excused' = IF u \in seen THEN excused \cup {u} ELSE excused
           \/ /\ failures < MaxFailures /\ failures' = failures + 1
              /\ excused' = excused \cup {u}
              /\ Goto(d, "resolve") /\ UNCHANGED seen
        /\ UNCHANGED <<stage, verdict, month, bill, admitted, handled, redisVars>>

\* The user is looked up: a stranger is sent to /start, a failure ends the update
\* without a word, and so does a button that cannot be read.
Resolve(d) ==
    /\ at[d] = "resolve"
    /\ \/ \E text \in {"error", "none"} : Ends(d, text) /\ UNCHANGED guardVars
       \/ KindOf[update[d]] = "text" /\ Goto(d, "ask") /\ Send(d, "ai")
       \/ KindOf[update[d]] = "voice" /\ Goto(d, "download") /\ UNCHANGED guardVars
       \/ KindOf[update[d]] = "command" /\ Goto(d, "command") /\ UNCHANGED guardVars
    /\ UNCHANGED <<seen, excused>>

\* The voice file from Telegram, and the language preference if there is one.
Download(d) ==
    /\ at[d] = "download"
    /\ \/ Goto(d, "transcribe") /\ Send(d, "voice")
       \/ Ends(d, "error") /\ UNCHANGED guardVars
    /\ UNCHANGED <<seen, excused>>

\* voice-transcription answers 200 also when there is no text.
Transcribed(d) ==
    /\ at[d] = "transcribe" /\ stage[<<d, "voice">>] = "over"
    /\ \/ verdict[<<d, "voice">>] = "ok" /\ Goto(d, "ask") /\ Send(d, "ai")
       \/ Ends(d, "error") /\ UNCHANGED guardVars
    /\ UNCHANGED <<seen, excused>>

\* ai-router answers.
Asked(d) ==
    /\ at[d] = "ask" /\ stage[<<d, "ai">>] = "over"
    /\ Ends(d, IF verdict[<<d, "ai">>] = "ok" THEN "answer" ELSE "error")
    /\ UNCHANGED <<seen, excused, guardVars>>

\* Clients give up on a service that goes on, and typing indicators fail.
TimeOut(d) ==
    /\ at[d] \in {"transcribe", "ask"}
    /\ Ends(d, "error")
    /\ UNCHANGED <<seen, excused, guardVars>>

\* /clear and /disconnect, answered by services without guardrails.
Command(d) ==
    /\ at[d] = "command"
    /\ \E text \in {"answer", "error"} : Ends(d, text)
    /\ UNCHANGED <<seen, excused, guardVars>>

\* A restart of telegram-bridge ends all handlers; the keys stay.
BridgeRestart ==
    /\ failures < MaxFailures /\ failures' = failures + 1
    /\ \E d \in Deliveries : at[d] \in Waiting
    /\ at' = [d \in Deliveries |-> IF at[d] \in Waiting THEN "done" ELSE at[d]]
    /\ UNCHANGED <<update, seen, excused, reply>>
    /\ UNCHANGED <<stage, verdict, month, bill, admitted, handled, redisVars>>

HandlerStep(d) ==
    \/ Dedup(d) \/ Resolve(d) \/ Download(d) \/ Transcribed(d) \/ Asked(d) \/ TimeOut(d)
    \/ Command(d)

GuardNext == (\E q \in Requests : GuardStep(q)) \/ GuardEnvironment

IntakeNext ==
    \/ \E d \in Deliveries : Deliver(d) \/ HandlerStep(d)
    \/ BridgeRestart
    \/ GuardNext /\ UNCHANGED bridgeVars

\* Every call of another service is given up after a time, Redis answers or fails,
\* the LLM client and Whisper's have timeouts, and entries of a set in Redis are
\* removed when their time is over, by the next request that looks.
IntakeFairness ==
    /\ WF_vars(\E d \in Deliveries : HandlerStep(d))
    /\ WF_vars(\E q \in Requests : GuardStep(q) /\ UNCHANGED bridgeVars)
    /\ WF_vars(\E q \in Requests : SlotExpires(q) /\ UNCHANGED bridgeVars)

IntakeSpec == IntakeInit /\ [][IntakeNext]_vars

IntakeLiveSpec == IntakeSpec /\ IntakeFairness

-----------------------------------------------------------------------------
\* An update delivered twice is handed to the agent once, unless its key was gone
\* or could not be set; a voice message is handed on only when its transcription
\* was let through; what the user reads as the answer was given by the agent; and
\* for a request that is refused nothing was done, whenever Redis failed.
HandledOnce ==
    /\ \A d, e \in Deliveries :
          d # e /\ update[d] = update[e] /\ {<<d, "ai">>, <<e, "ai">>} \subseteq handled =>
              update[d] \in excused
    /\ \A d \in Deliveries :
          update[d] # NoUpdate /\ KindOf[update[d]] = "voice" /\ <<d, "ai">> \in handled =>
              <<d, "voice">> \in handled
    /\ \A d \in Deliveries :
          reply[d] = "answer" /\ KindOf[update[d]] # "command" => <<d, "ai">> \in handled
    /\ \A q \in Requests : verdict[q] = "refused" => q \notin handled

Quiet ==
    /\ \A d \in Deliveries : at[d] \notin Waiting
    /\ \A q \in Requests : stage[q] \notin Underway
    /\ slots = {}

\* Between updates all is quiet again and again: every delivery comes to an end,
\* every request is answered, and no slot stays taken, whatever fails between
\* taking and releasing it.
UpdatesEnd == []<>Quiet

=============================================================================
